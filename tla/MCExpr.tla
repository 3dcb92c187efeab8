------------------------------- MODULE MCExpr -------------------------------
(* The expressions of C of up to Size operators.                           *)
EXTENDS Expr

CONSTANTS Size

Binary(t, ls, rs) == {Node("binary", t, l, r) : l \in ls, r \in rs}
Variable == Node("parens", "(", Leaf("V"), None)
\* A mask behind a variable in parentheses.
Operands == {Leaf("a"), Variable, Node("unary", "&", Leaf("a"), None), Node("unary", "~", Leaf("a"), None)}
Masks ==
    {Node("unary", "~", e, None) : e \in Operands} \cup {Node("unary", "&", Variable, None)}
        \cup Binary("&", Operands \cup Binary("+", Operands, Operands), Operands)
        \cup {Node("cast", "(", Leaf("T"), e) : e \in Operands}

Trees ==
    LET trees[n \in 0..Size] ==
        LET At(m, level) == {e \in trees[m] : Level(e) >= level}
            One(level) == At(n - 1, level)
            Two(m) == n - 1 - m
        IN  IF n = 0 THEN {Leaf("a")}
            ELSE UNION {
                IF n = 1 THEN {Variable} ELSE {},
                {Node("unary", t, e, None) : t \in {"+", "*"}, e \in One(14)},
                {Node("unary", "++", e, None) : e \in {x \in One(14) : x.k # "cast"}},
                {Node("sizeof", "sizeof", e, None) : e \in {x \in One(14) : x.k \notin {"parens", "cast"}}},
                {Node("sizeofp", "sizeof", e, None) : e \in One(1)},
                {Node("cast", "(", Leaf("T"), e) : e \in One(14)},
                {Node("postfix", "++", e, None) : e \in One(15)},
                {Node("field", ".", e, Leaf("a")) : e \in One(15)},
                {Node("parens", "(", e, None) : e \in One(1)},
                {Node("call", "(", e, None) : e \in One(15)},
                UNION {UNION {
                    {Arg(1, l, r) : l \in At(m, 1), r \in At(Two(m), 2)},
                    Binary("=", At(m, 14), At(Two(m), 2)),
                    Binary("||", At(m, 4), At(Two(m), 5)),
                    Binary("+", At(m, 12), At(Two(m), 13)),
                    Binary("*", At(m, 13), At(Two(m), 14)),
                    {Node("call", "(", l, r) : l \in At(m, 15), r \in At(Two(m), 1)},
                    {Node("squares", "[", l, r) : l \in At(m, 15), r \in At(Two(m), 1)},
                    {Ternary(l, r, Leaf("a")) : l \in At(m, 4), r \in At(Two(m), 1)},
                    {Ternary(Leaf("a"), l, r) : l \in At(m, 1), r \in At(Two(m), 3)}} : m \in 0..n - 1}}
    IN  Masks \cup UNION {trees[n] : n \in 0..Size}

Failing == {<<"a", "(", "(", "a", "?", "a", ":", ")", ")", ";">>}
=============================================================================
