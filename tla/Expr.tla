-------------------------------- MODULE Expr --------------------------------
(***************************************************************************)
(* The expressions of expr.c: the operator precedence parser, the printing *)
(* of its trees and the parentheses that simple mode removes, against the  *)
(* grammar of C.                                                           *)
(*                                                                         *)
(* A token is the name of its kind: "a" stands for literals, strings and   *)
(* the identifiers parser_type_peek() does not take for a type, "V" for a  *)
(* variable it takes for one, as any alone in parentheses, "T" for a type, *)
(* "." for both field operators, ";" and an unmatched ")" for what ends an *)
(* expression.  Binary operators of a level behave alike, so each level    *)
(* has one, "&", "+" and "*" being unary as well.  Layout is left out but  *)
(* for the blanks that tell casts from operators: an operator with blanks  *)
(* on both sides has a name of its own.  Documents are the tokens they     *)
(* print.  The callbacks of parser-expr.c are included, braces excepted.   *)
(***************************************************************************)
EXTENDS Integers, Sequences

CONSTANTS
    Sources,     \* trees of C expressions
    Garbage      \* sequences of tokens that are not expressions of C

VARIABLES toks, tree, phase, ex, out, simple, rounds,
    clear        \* history: the source is WellWritten
vars == <<toks, tree, phase, ex, out, simple, rounds, clear>>

None == [k |-> "none"]
Leaf(t) == [k |-> "lit", t |-> t]
Node(k, t, lhs, rhs) == [k |-> k, t |-> t, lhs |-> lhs, rhs |-> rhs]
Arg(n, lhs, rhs) == [k |-> "arg", n |-> n, lhs |-> lhs, rhs |-> rhs]
Ternary(cond, yes, no) == [k |-> "ternary", t |-> "?", lhs |-> cond, rhs |-> yes, alt |-> no]

-----------------------------------------------------------------------------
(* The rules.                                                              *)

HasUnary(t) == t \in {"a", "V", "~", "++", "&", "+", "*", "sizeof", "("}
HasBinary(t) == t \in {"a", "V", ",", "=", "?", "||", "&", "+", "*", "++", "(", "[", "."}
Pc(t) ==
    CASE t = "," -> 1
      [] t = "=" -> 2
      [] t = "?" -> 3
      [] t = "||" -> 4
      [] t = "&" -> 8
      [] t \in {"a", "V", "+"} -> 12
      [] t = "*" -> 13
      [] t = "++" -> 14
      [] t \in {"(", "[", "."} -> 15

\* Assignments associate to the right.
RightPc(t) == IF t = "=" THEN Pc(t) - 1 ELSE Pc(t)

\* TOKEN_FLAG_BINARY
IsBinary(t) == t \in {"||", "&", "+", "*"}

\* Names that parser_type_peek() takes for a type.
IsName(t) == t \in {"T", "V"}

-----------------------------------------------------------------------------
(* Blanks around operators.                                                *)

Spaced(t) ==
    CASE t = "||" -> " || " [] t = "&" -> " & " [] t = "+" -> " + " [] t = "*" -> " * "
      [] OTHER -> t
IsSpaced(t) == t \in {" || ", " & ", " + ", " * "}
Bare(t) == IF IsSpaced(t) THEN CHOOSE op \in {"||", "&", "+", "*"} : Spaced(op) = t ELSE t
Bared(seq) == [i \in DOMAIN seq |-> Bare(seq[i])]

\* expr_doc_has_spaces(): operators with TOKEN_FLAG_SPACE keep theirs.
Blanks(t) == IF t = "*" THEN t ELSE Spaced(t)

-----------------------------------------------------------------------------
(* The parser.  s is the state of the lexer: at is the next token, err is  *)
(* set once an expected token was missing.  Operations return the state    *)
(* with the expression, None for NULL.                                     *)

Tok(s) == IF s.at \in DOMAIN toks THEN toks[s.at] ELSE "EOF"
Peek(s) == Bare(Tok(s))
Back(s) == IF s.at - 1 \in DOMAIN toks THEN toks[s.at - 1] ELSE "EOF"
Next2(s) == Peek([s EXCEPT !.at = @ + 1])
Stuck(s) == s.err \/ Peek(s) = "EOF"
Pop(s) == [s EXCEPT !.at = @ + 1]
With(s, e) == [at |-> s.at, err |-> s.err, ex |-> e]
Expect(s, t) == IF s.err \/ Peek(s) # t THEN [s EXCEPT !.err = TRUE] ELSE Pop(s)

\* expr_recover(): a type, or an operator or a comma as an argument of a
\* macro.  A binary operator elsewhere is consumed nonetheless.
Recover(s) ==
    LET t == Peek(s)
        arg == Back(s) \in {"(", ","}
        ends == Next2(s) \in {")", ",", "EOF"}
    IN  CASE IsName(t) /\ (Back(s) = "sizeof" \/ (arg /\ ends)) -> With(Pop(s), Leaf(t))
          [] IsBinary(t) -> With(Pop(s), IF arg THEN Leaf(t) ELSE None)
          [] t = "," -> With(Pop(s), Leaf(t))
          [] OTHER -> With(s, None)

\* Mutant: blanks are not looked at.
NotLookedAt(s) == FALSE

\* peek_binary_operator(): blanks on both sides make an operator binary.
SpacedOperator(s) == IsSpaced(Tok(s))

\* expr_recover_cast()
IsCast(s) ==
    LET op == [s EXCEPT !.at = @ + 2]
    IN  /\ IsName(Peek(s)) /\ Next2(s) = ")"
        /\ Peek(op) \notin {")", ",", "EOF"}
        /\ ~SpacedOperator(op)
        /\ ~(Peek(op) = "&" /\ Next2(op) = "~")

RECURSIVE Exec1(_, _), Operators(_, _), Commas(_)

\* Empty arguments are allowed, as in a(, , b).
Commas(s) == IF Peek(s) = "," THEN 1 + Commas(Pop(s)) ELSE 0

\* The rule of an operator in front of its operand; s is behind it.
Prefix(t, s) ==
    LET inner == Exec1(s, 0)
        close == Expect(inner, ")")
        value == Exec1(Expect(Pop(s), ")"), Pc("("))
        operand == Exec1(s, 14)
        size == Exec1(Pop(s), 0)
        sized == Expect(size, ")")
    IN  CASE t \in {"a", "V"} -> With(s, Leaf(t))
          [] t = "(" /\ IsCast(s) -> With(value, Node("cast", "(", Leaf(Peek(s)), value.ex))
          [] t = "(" /\ ~IsCast(s) -> With(close, Node("parens", "(", inner.ex, None))
          [] t = "sizeof" /\ Peek(s) = "(" -> With(sized, Node("sizeofp", t, size.ex, None))
          [] t = "sizeof" /\ Peek(s) # "(" -> With(operand, Node("sizeof", t, operand.ex, None))
          [] OTHER -> With(operand, Node("unary", t, operand.ex, None))

\* The rule of an operator behind the operand e; s is behind the operator tk.
Infix(tk, e, s) ==
    LET t == Bare(tk)
        n == Commas(s)
        arg == Exec1([s EXCEPT !.at = @ + n], Pc(","))
        rhs == Exec1(s, RightPc(t))
        any == Exec1(s, 0)
        alt == Exec1(Expect(any, ":"), 1)
    IN  CASE t = "," -> With(arg, Arg(n + 1, e, arg.ex))
          [] t \in {"=", "||", "&", "+", "*"} -> With(rhs, Node("binary", tk, e, rhs.ex))
          [] t = "?" -> With(alt, IF alt.ex = None THEN None ELSE Ternary(e, any.ex, alt.ex))
          [] t \in {"a", "V"} -> With(s, Node("concat", t, e, Leaf(t)))
          [] t = "++" -> With(s, Node("postfix", t, e, None))
          [] t = "(" -> With(Expect(any, ")"), Node("call", t, e, any.ex))
          [] t = "[" -> With(Expect(any, "]"), Node("squares", t, e, any.ex))
          [] t = "." -> With(rhs, Node("field", t, e, rhs.ex))

\* The loop of expr_exec1(): operators that bind tighter than pc.
Operators(r, pc) ==
    LET t == Peek(r)
        s == Infix(Tok(r), r.ex, Pop(r))
    IN  IF Stuck(r) \/ ~HasBinary(t) THEN r
        ELSE IF pc >= Pc(t) THEN r
        ELSE IF s.ex = None \/ s.err THEN With(s, None)
        ELSE Operators(s, pc)

\* expr_exec1()
Exec1(s, pc) ==
    LET t == Peek(s)
        sole == t = "*" /\ Next2(s) = ","
        r == IF ~HasUnary(t) \/ IsName(t) \/ sole THEN Recover(s) ELSE With(s, None)
        first == IF r.ex = None /\ HasUnary(t) THEN Prefix(t, Pop(r)) ELSE r
    IN  IF Stuck(s) THEN With(s, None)
        ELSE IF first.ex = None THEN first ELSE Operators(first, pc)

\* expr_exec()
Exec == LET r == Exec1([at |-> 1, err |-> FALSE], 0) IN IF r.err THEN With(r, None) ELSE r

-----------------------------------------------------------------------------
(* Printing, pass: the parentheses pass is "off", "free" or "busy" with    *)
(* parentheses around these.                                               *)

RECURSIVE MustKeep(_), Doc(_, _, _)

\* must_keep_parens()
MustKeep(e) ==
    CASE e.k \in {"none", "lit", "concat"} -> FALSE
      [] e.k \in {"squares", "binary", "ternary", "cast"} -> TRUE
      [] e.k = "unary" /\ e.t = "*" -> TRUE
      [] OTHER -> MustKeep(e.lhs) \/ MustKeep(e.rhs)

\* expr_doc_parens(): nested passes are ignored by simple_enter().
Strips(e, depth, pass) == pass = "free" /\ (depth = 1 \/ ~MustKeep(e))

\* Signs printed without a space, as they are read again.
RECURSIVE Glue(_, _)
Glue(t, seq) ==
    CASE seq # <<>> /\ t = "+" /\ Head(seq) = "+" -> <<"++">> \o Tail(seq)
      [] seq # <<>> /\ t = "+" /\ Head(seq) = "++" -> <<"++">> \o Glue("+", Tail(seq))
      [] OTHER -> <<t>> \o seq

\* expr_doc_sizeof(): simple mode adds parentheses.
Sized(e, seq, pass) ==
    IF e.k = "sizeofp" \/ pass \in {"free", "busy"} THEN <<"(">> \o seq \o <<")">> ELSE seq

\* expr_doc()
Doc(e, depth, pass) ==
    LET D(x) == Doc(x, depth + 1, pass)
        Within(x) == Doc(x, depth + 1, "busy")
    IN  CASE e.k = "none" -> <<>>
          [] e.k = "lit" -> <<e.t>>
          [] e.k = "unary" -> IF pass = "source" THEN <<e.t>> \o D(e.lhs) ELSE Glue(e.t, D(e.lhs))
          [] e.k = "binary" -> D(e.lhs) \o <<IF pass = "source" THEN e.t ELSE Blanks(e.t)>> \o D(e.rhs)
          [] e.k = "field" -> D(e.lhs) \o <<e.t>> \o D(e.rhs)
          [] e.k = "concat" -> D(e.lhs) \o <<e.t>>
          [] e.k = "arg" -> D(e.lhs) \o [i \in 1..e.n |-> ","] \o D(e.rhs)
          [] e.k = "ternary" -> D(e.lhs) \o <<"?">> \o D(e.rhs) \o <<":">> \o D(e.alt)
          [] e.k = "postfix" -> D(e.lhs) \o <<e.t>>
          [] e.k = "parens" -> IF Strips(e, depth, pass) THEN Within(e.lhs)
                               ELSE <<"(">> \o D(e.lhs) \o <<")">>
          [] e.k = "call" -> D(e.lhs) \o <<"(">> \o D(e.rhs) \o <<")">>
          [] e.k = "squares" -> D(e.lhs) \o <<"[">> \o D(e.rhs) \o <<"]">>
          [] e.k = "cast" -> <<"(", e.lhs.t, ")">> \o D(e.rhs)
          [] e.k \in {"sizeof", "sizeofp"} -> <<"sizeof">> \o Sized(e, D(e.lhs), pass)

-----------------------------------------------------------------------------
(* The grammar of C: the level of an expression and those of its operands. *)

Level(e) ==
    CASE e.k = "arg" -> 1
      [] e.k = "ternary" -> 3
      [] e.k = "binary" -> Pc(e.t)
      [] e.k \in {"unary", "sizeof", "sizeofp", "cast"} -> 14
      [] e.k \in {"postfix", "call", "squares", "field"} -> 15
      [] e.k \in {"lit", "parens"} -> 16

\* An operator behind an operand applies before those in front of it.  The
\* code reads -a++, (T)a.b and sizeof (a).b the other way, which prints the
\* same: CTree is the tree of C for what it reads.
IsBehind(e) == e.k \in {"postfix", "call", "squares", "field"}
RECURSIVE CTree(_)
CTree(e) ==
    LET l == CTree(e.lhs)
    IN  CASE e.k \in {"none", "lit"} -> e
          [] IsBehind(e) /\ l.k \in {"unary", "sizeof"} ->
                [l EXCEPT !.lhs = CTree([e EXCEPT !.lhs = l.lhs])]
          [] IsBehind(e) /\ l.k = "cast" -> [l EXCEPT !.rhs = CTree([e EXCEPT !.lhs = l.rhs])]
          [] IsBehind(e) /\ l.k = "sizeofp" ->
                Node("sizeof", l.t, CTree([e EXCEPT !.lhs = Node("parens", "(", l.lhs, None)]), None)
          [] e.k = "ternary" -> Ternary(l, CTree(e.rhs), CTree(e.alt))
          [] e.k = "binary" -> Node("binary", Bare(e.t), l, CTree(e.rhs))
          [] OTHER -> [e EXCEPT !.lhs = l, !.rhs = CTree(@)]

\* The tree without parentheses, as the compiler sees it.
RECURSIVE Meaning(_)
Meaning(e) ==
    CASE e.k \in {"none", "lit"} -> e
      [] e.k = "parens" -> Meaning(e.lhs)
      [] e.k \in {"sizeof", "sizeofp"} -> [k |-> "sizeof", lhs |-> Meaning(e.lhs)]
      [] e.k = "ternary" -> Ternary(Meaning(e.lhs), Meaning(e.rhs), Meaning(e.alt))
      [] OTHER -> [e EXCEPT !.lhs = Meaning(@), !.rhs = Meaning(@)]

-----------------------------------------------------------------------------
(* An expression is written, parsed and printed, and that is read again.   *)

\* The blanks around operators behind a ")" that may end a cast.
MayBeCast(seq) == {i \in 3..Len(seq) : IsBinary(seq[i]) /\ seq[i - 1] = ")" /\ seq[i - 2] \in {"V", "T", ")"}}
Layouts(seq) ==
    {[i \in DOMAIN seq |-> IF i \in wide THEN Spaced(seq[i]) ELSE seq[i]] :
        wide \in SUBSET MayBeCast(seq)}

\* The layout tells a cast from a variable in parentheses: blanks on both sides
\* of an operator behind a variable, and of none behind a cast.
IsOperand(seq, i) ==
    \/ IsSpaced(seq[i]) \/ seq[i] \in {")", ","}
    \/ seq[i] = "&" /\ seq[i + 1] = "~"
WellWritten(seq) ==
    \A i \in 2..Len(seq) - 2 :
        seq[i - 1] = "(" /\ seq[i + 1] = ")" =>
            /\ seq[i] = "T" => ~IsSpaced(seq[i + 2])
            /\ seq[i] = "V" => IsOperand(seq, i + 2)

Init ==
    /\ toks = <<>> /\ tree = None /\ ex = None /\ out = <<>>
    /\ phase = "write" /\ simple = FALSE /\ rounds = 0 /\ clear = FALSE

WriteC ==
    /\ phase = "write"
    /\ \E t \in Sources, end \in {";", ")"} :
        \E seq \in Layouts(Doc(t, 1, "source")) : tree' = t /\ toks' = Append(seq, end)
    /\ clear' = WellWritten(toks')
    /\ simple' \in BOOLEAN /\ phase' = "exec" /\ UNCHANGED <<ex, out, rounds>>

WriteGarbage ==
    /\ phase = "write"
    /\ toks' \in Garbage /\ simple' = FALSE /\ phase' = "exec" /\ UNCHANGED <<tree, ex, out, rounds, clear>>

\* The callers expect the token that ends the expression.
Parse ==
    /\ phase = "exec"
    /\ ex' = Exec.ex /\ phase' = IF ex' # None /\ Exec.at = Len(toks) THEN "doc" ELSE "failed"
    /\ UNCHANGED <<toks, tree, out, simple, rounds, clear>>

Format ==
    /\ phase = "doc"
    /\ out' = Doc(ex, 1, IF simple THEN "free" ELSE "off") /\ phase' = "printed"
    /\ UNCHANGED <<toks, tree, ex, simple, rounds, clear>>

ReadAgain ==
    /\ phase = "printed" /\ rounds = 0
    /\ toks' = Append(out, toks[Len(toks)]) /\ phase' = "exec" /\ rounds' = 1
    /\ UNCHANGED <<tree, ex, out, simple, clear>>

Next == WriteC \/ WriteGarbage \/ Parse \/ Format \/ ReadAgain
Spec == Init /\ [][Next]_vars

-----------------------------------------------------------------------------
(* Correctness.                                                            *)

\* An expression of C is parsed to its end.
Accepted ==
    phase = "exec" /\ rounds = 0 /\ tree # None /\ clear =>
        Exec.ex # None /\ Exec.at = Len(toks)

\* Its tree is the one C gives it, when blanks tell casts from operators.
Precedence ==
    phase \in {"doc", "printed"} /\ rounds = 0 /\ tree # None /\ clear => CTree(ex) = tree

\* Formatting keeps the tokens.
Read == SubSeq(toks, 1, Len(toks) - 1)
TokensKept == phase = "printed" /\ ~simple => Bared(out) = Bared(Read)

IsNotParen(t) == t # "("
RECURSIVE SignOfSign(_)
SignOfSign(e) ==
    CASE e.k \in {"none", "lit"} -> FALSE
      [] e.k = "unary" /\ e.t = "+"
                /\ Head(SelectSeq(Doc(e.lhs, 2, "source"), IsNotParen)) \in {"+", "++"} -> TRUE
      [] e.k = "ternary" -> SignOfSign(e.lhs) \/ SignOfSign(e.rhs) \/ SignOfSign(e.alt)
      [] OTHER -> SignOfSign(e.lhs) \/ SignOfSign(e.rhs)

\* Binary operators and casts are not confused, whatever the blanks: no
\* operator is lost.
OperatorsKept == tree # None /\ ~SignOfSign(tree) => TokensKept

\* Which holds for C but for a sign in front of a sign, and for what is taken
\* for a cast.
TokensOfC == tree # None /\ clear /\ ~SignOfSign(tree) => TokensKept

\* Simple mode removes redundant parentheses only: what the expression means
\* is left.
MeaningKept ==
    rounds = 1 /\ ~SignOfSign(tree) =>
        phase # "failed" /\ (phase = "doc" /\ WellWritten(toks) => Meaning(CTree(ex)) = Meaning(tree))

SizeofPart(e) == /\ e.k = "sizeof" /\ e.lhs.k \in {"unary", "sizeof"}
                 /\ LET seq == Doc(e.lhs, 2, "source") IN seq[Len(seq)] = "++"
RECURSIVE Exposed(_, _)
Exposed(e, min) ==
    CASE e.k \in {"none", "lit"} -> FALSE
      [] e.k = "parens" -> \/ min > 0 /\ ~MustKeep(e) /\ Level(e.lhs) < min
                           \/ Exposed(e.lhs, 1)
      [] e.k = "arg" -> Exposed(e.lhs, 1) \/ Exposed(e.rhs, 2)
      [] e.k = "ternary" -> Exposed(e.lhs, 4) \/ Exposed(e.rhs, 1) \/ Exposed(e.alt, 3)
      [] e.k = "binary" /\ e.t = "=" -> Exposed(e.lhs, 14) \/ Exposed(e.rhs, 2)
      [] e.k = "binary" /\ e.t # "=" -> Exposed(e.lhs, Pc(e.t)) \/ Exposed(e.rhs, Pc(e.t) + 1)
      [] e.k \in {"unary", "sizeof"} -> SizeofPart(e) \/ Exposed(e.lhs, 14)
      [] e.k = "cast" -> Exposed(e.rhs, 14)
      [] e.k = "sizeofp" -> Exposed(e.lhs, 1)
      [] IsBehind(e) -> Exposed(e.lhs, 15) \/ Exposed(e.rhs, 1)

\* Which holds unless parentheses the grammar needs are not among those that
\* must be kept: around an argument, a prefix or a sizeof; nor may they be
\* added after the operand of sizeof only, as in sizeof *a++.  min is the
\* level the operand must have.
MeaningOfRedundant == tree # None /\ clear /\ ~Exposed(tree, 0) => MeaningKept

RECURSIVE Parens(_)
Parens(e) ==
    CASE e.k \in {"none", "lit"} -> 0
      [] e.k = "ternary" -> Parens(e.lhs) + Parens(e.rhs) + Parens(e.alt)
      [] OTHER -> (IF e.k = "parens" THEN 1 ELSE 0) + Parens(e.lhs) + Parens(e.rhs)

\* Formatting again changes nothing, unless parentheses are in parentheses:
\* those inside are left to the next time.
Settles ==
    phase = "printed" /\ rounds = 1 /\ clear /\ Parens(tree) < 2 /\ ~SignOfSign(tree) => out = Read
=============================================================================
