------------------------------ MODULE MCLayout ------------------------------
(* Small inputs of Ruler and Style.                                        *)
EXTENDS Integers, Sequences

(* Small blocks of declarations for Ruler.                                 *)
Line(len, extra, stars, tabs, spaces, apart, more) ==
    [len |-> len, extra |-> extra, stars |-> stars, tabs |-> tabs, spaces |-> spaces, apart |-> apart, more |-> more]
Sep == {<<0, 1>>, <<0, 2>>, <<0, 3>>, <<1, 0>>, <<1, 1>>, <<2, 1>>}
Some(Lens, Extras, Stars, Seps, Apart, More) ==
    {Line(n, e, s, t[1], t[2], a, m) : n \in Lens, e \in Extras, s \in Stars, t \in Seps, a \in Apart, m \in More}
NoStar == {l \in Some({3, 8}, {0}, {0, 2}, {<<0, 0>>}, {FALSE}, {FALSE}) : l.stars > 0}

Several == Some({3, 8}, {0, 1}, {0, 1, 2}, Sep, {FALSE}, {FALSE})
Fewer == Some({3, 8}, {0}, {0, 1}, Sep, {FALSE}, BOOLEAN) \cup Some({3}, {0}, {0, 1}, {<<1, 0>>}, {TRUE}, {TRUE})
MCColumns ==
    {<<a, b>> : a \in Several, b \in Some({3, 4, 8}, {0}, {0, 1}, Sep, {FALSE}, {FALSE}) \cup NoStar}
    \cup {<<a, b, c>> : a \in Fewer, b \in Some({3, 7}, {0}, {0, 1}, {<<0, 1>>, <<1, 0>>, <<2, 1>>}, {FALSE}, {FALSE}),
                        c \in Some({4, 8}, {0}, {0}, {<<0, 1>>, <<1, 0>>, <<2, 0>>}, {FALSE}, {TRUE})}

(* Files of up to two documents, the second one of one entry.              *)
E(key, kind, val) == [key |-> key, kind |-> kind, val |-> val]
S(key, val) == E(key, "scalar", val)
Cpp == S("Language", "Cpp")
Java == S("Language", "Java")

Scalars == {S("UseTab", "Never"), S("UseTab", "Always"), S("UseTab", "bad"), S("ColumnLimit", "0"),
            S("ColumnLimit", "Never"), S("Unknown", "80"), S("BasedOnStyle", "OpenBSD")}
Nested == {E("Names", "list", <<"one", "two">>), E("Settings", "map", <<S("Other", "1"), S("Another", "2")>>),
           E("BraceWrapping", "map", <<S("Other", "true"), S("AfterEnum", "true")>>),
           E("BraceWrapping", "map", <<S("AfterEnum", "bad")>>),
           E("IncludeCategories", "maps", <<<<S("Regex", "re"), S("Priority", "2")>>, <<S("Priority", "bad")>>>>),
           E("IncludeGuards", "maps", <<<<S("Other", "1"), S("Regex", "re"), S("PathComponents", "2")>>>>)}
Bases == {S("BasedOnStyle", "LLVM"), S("BasedOnStyle", "GNU"), S("BasedOnStyle", "WebKit")}
Failing == {E("IncludeCategories", "maps", <<<<S("Regex", "("), S("Priority", "2")>>, <<S("Priority", "1")>>>>),
            E("IncludeGuards", "maps", <<<<S("PathComponents", "0")>>, <<S("Regex", "re")>>>>)}
Whole == Scalars \cup Nested \cup Bases \cup Failing

UpToTwo(entries) == {<<a>> : a \in entries} \cup {<<a, b>> : a, b \in entries}
MCConfigurations == {<<d>> : d \in UpToTwo(Whole)}
           \cup {<<d, <<l, e>>>> : d \in UpToTwo(Whole), l \in {Cpp, Java}, e \in Whole}
           \cup {<<<<l, e>>, d>> : d \in UpToTwo(Scalars \cup Nested \cup Failing), l \in {Cpp, Java}, e \in Whole}

MCDumps ==
    [LLVM |-> <<<<Cpp, S("ColumnLimit", "80"), E("Names", "list", <<"one">>), S("UseTab", "Never")>>,
                <<Java, S("UseTab", "Always")>>>>,
     GNU |-> <<<<S("BasedOnStyle", "GNU"), S("ColumnLimit", "0")>>>>]
=============================================================================
