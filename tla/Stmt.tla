-------------------------------- MODULE Stmt --------------------------------
(***************************************************************************)
(* The statements of parser-stmt.c and what simple mode does to them:      *)
(* simple-stmt.c adds or removes braces, simple-stmt-empty-loop.c and      *)
(* simple-stmt-switch.c insert continue and break.  The statements of the  *)
(* source and those of the output are compared by the grammar of C.        *)
(*                                                                         *)
(* A token is [id, k].  Kinds stand for what is ahead of a statement as a  *)
(* whole: "if", "elif" (an else followed by if on its line), "while",      *)
(* "for", "foreach" (a macro), "switch" with their parentheses, "label"    *)
(* and "case" with their colons.  "e" and "E" are expressions that take    *)
(* one line and more.  "{#" and "}#" are braces behind a preprocessor      *)
(* directive, "}c" one with a comment.  A statement follows a label on its *)
(* line.  Layout is the number of lines of a statement, up to two; the     *)
(* output is the tokens left by the parser.                                *)
(***************************************************************************)
EXTENDS Simple, Integers, Sequences, FiniteSets

CONSTANTS
    Sources,            \* sequences of kinds: the statements of a function
    SIMPLE_STMT_MAX,    \* statements looked at together
    Simplify            \* options.simple

VARIABLES toks, source, phase
vars == <<toks, source, phase>>

Lbraces == {"{", "{#"}
Rbraces == {"}", "}#", "}c"}
Loops == {"while", "for", "foreach"}

-----------------------------------------------------------------------------
(* The parser.  s holds the tokens, the position of the next one, the      *)
(* passes of simple mode and the statements collected by simple-stmt.c.    *)
(* Operations return it behind a statement, with the lines that takes.     *)

Kind(s, n) == IF s.at + n \in DOMAIN s.toks THEN s.toks[s.at + n].k ELSE "EOF"
Next1(s) == Kind(s, 0)
Pop(s) == [s EXCEPT !.at = @ + 1]
Min2(n) == IF n > 2 THEN 2 ELSE n
Good(s, lines) == [s EXCEPT !.lines = Min2(lines)]

Index(ts, id) == CHOOSE i \in DOMAIN ts : ts[i].id = id
Without(ts, ids) == LET keep(t) == t.id \notin ids IN SelectSeq(ts, keep)
FreshId(ts) == LET ids == {ts[i].id : i \in DOMAIN ts} IN 1 + (CHOOSE n \in ids : \A m \in ids : m <= n)
InsertAt(ts, i, k) == SubSeq(ts, 1, i - 1) \o <<[id |-> FreshId(ts), k |-> k]>> \o SubSeq(ts, i, Len(ts))
InsertBefore(ts, id, k) == InsertAt(ts, Index(ts, id), k)

EnterPass(s, p) == [s EXCEPT !.ps = Entered(s.ps, Simplify, p, {})]
LeavePass(s, old, p) == [s EXCEPT !.ps[p].state = old.ps[p].state]

\* lexer_peek_if_pair(), s being at a left brace
RECURSIVE PairAt(_, _, _)
PairAt(ts, i, depth) ==
    LET d == CASE ts[i].k \in Lbraces -> depth + 1
               [] ts[i].k \in Rbraces -> depth - 1
               [] OTHER -> depth
    IN  IF d = 0 THEN i ELSE PairAt(ts, i + 1, d)

\* parser_semi(): redundant semicolons are on the same line here.  The code
\* leaves the first of them in the list and does not print it.
RECURSIVE Semi(_)
Semi(s) == IF Kind(s, 1) = ";" THEN Semi([s EXCEPT !.toks = Without(@, {s.toks[s.at].id})])
           ELSE Good(Pop(s), 1)

-----------------------------------------------------------------------------
(* simple-stmt.c: the statements with (braces) and without.  An ignored    *)
(* one is next to a preprocessor directive.                                *)

Register(s, st) == IF Len(s.ss) >= SIMPLE_STMT_MAX THEN s ELSE [s EXCEPT !.ss = Append(@, st)]
StmtEnabled(s) == Enabled(s.ps, Simplify, "STMT")
HasCpp(t) == t.k \in {"{#", "}#"}

\* simple_stmt_braces_enter(); lines is known once the block is parsed
Braces(lbrace, rbrace) ==
    [braces |-> TRUE, ignore |-> HasCpp(lbrace) \/ HasCpp(rbrace), lbrace |-> lbrace.id,
     rbrace |-> rbrace.id, lines |-> 0]

\* simple_stmt_no_braces_enter() and simple_stmt_no_braces_leave()
NoBraces(first, behind, lines) ==
    [braces |-> FALSE, ignore |-> HasCpp(first) \/ HasCpp(behind), lbrace |-> first.id,
     rbrace |-> behind.id, lines |-> lines]

\* is_stmt_empty()
IsEmpty(ts, ss, st) ==
    LET i == Index(ts, st.lbrace)
        j == Index(ts, st.rbrace)
    IN  IF st.braces THEN j = i + 1 \/ (j = i + 2 /\ ts[i + 1].k = ";" /\ Len(ss) = 1)
        ELSE j = i + 1 /\ ts[i].k # ";"

\* simple_stmt_need_braces()
StmtNeedsBraces(ts, ss, st) ==
    \/ IsEmpty(ts, ss, st)
    \/ st.lines # 1
    \/ st.braces /\ ts[Index(ts, st.rbrace)].k = "}c"

NeedBraces(ts, ss) ==
    \E i \in DOMAIN ss :
        IF ss[i].ignore THEN ss[i].braces ELSE StmtNeedsBraces(ts, ss, ss[i])

\* add_braces(), from the i-th statement on
RECURSIVE AddBraces(_, _, _)
AddBraces(ts, ss, i) ==
    IF i > Len(ss) THEN ts
    ELSE IF ss[i].ignore \/ ss[i].braces THEN AddBraces(ts, ss, i + 1)
    ELSE AddBraces(InsertBefore(InsertBefore(ts, ss[i].lbrace, "{"), ss[i].rbrace, "}"), ss, i + 1)

RemoveBraces(ts, ss) ==
    Without(ts, UNION {{ss[i].lbrace, ss[i].rbrace} : i \in {j \in DOMAIN ss : ss[j].braces /\ ~ss[j].ignore}})

\* Mutant: braces are removed where they are not needed.
StmtLeaveEach(ts, ss) ==
    Without(ts, UNION {{ss[i].lbrace, ss[i].rbrace} : i \in
        {j \in DOMAIN ss : ss[j].braces /\ ~ss[j].ignore /\ ~StmtNeedsBraces(ts, ss, ss[j])}})

\* simple_stmt_leave()
StmtLeave(ts, ss) ==
    CASE ss = <<>> -> ts
      [] ss # <<>> /\ NeedBraces(ts, ss) -> AddBraces(ts, ss, 1)
      [] OTHER -> RemoveBraces(ts, ss)

-----------------------------------------------------------------------------
(* simple-stmt-empty-loop.c and simple-stmt-switch.c                       *)

\* simple_stmt_empty_loop_braces(), simple_stmt_empty_loop_no_braces()
Continue(s) ==
    LET semi == InsertBefore(s.toks, s.toks[s.at + 1].id, ";")
    IN  CASE Next1(s) = ";" -> InsertAt(s.toks, s.at, "continue")
          [] Next1(s) = "{" /\ Kind(s, 1) = "}" -> InsertAt(semi, s.at + 1, "continue")
          [] Next1(s) = "{" /\ Kind(s, 1) = ";" /\ Kind(s, 2) = "}" -> InsertAt(s.toks, s.at + 1, "continue")
          [] OTHER -> s.toks

EmptyLoop(s) ==
    LET t == EnterPass(s, "STMT_EMPTY_LOOP")
    IN  IF Granted(t.ps, "STMT_EMPTY_LOOP") THEN [t EXCEPT !.toks = Continue(s)] ELSE t

\* simple_stmt_switch(), s being behind "default"
Break(s, kw) ==
    LET t == EnterPass(s, "STMT_SWITCH")
    IN  IF Granted(t.ps, "STMT_SWITCH") /\ kw = "default" /\ s.toks[s.at - 1].k = "default" /\ Next1(s) = ";"
        THEN [t EXCEPT !.toks = InsertAt(@, s.at, "break")] ELSE t

-----------------------------------------------------------------------------
(* parser-stmt.c                                                           *)

\* The functions that call each other, by what they parse.
RECURSIVE Parse(_, _)

\* parser_simple_stmt_enter()
SimpleStmt(s) ==
    LET t == EnterPass(s, "STMT")
        dry == Parse("one", [t EXCEPT !.ss = <<>>])
    IN  IF Granted(t.ps, "STMT") THEN [s EXCEPT !.toks = StmtLeave(dry.toks, dry.ss)] ELSE t

\* parser_stmt(); a call is like a macro that loops.
ParserStmt(s) ==
    IF Simplify /\ Next1(s) \in Loops \cup {"if", "e", "E"}
    THEN LeavePass(Parse("one", SimpleStmt(s)), s, "STMT") ELSE Parse("one", s)

\* parser_stmt_block()
Block(s) ==
    LET j == PairAt(s.toks, s.at, 0)
        trimmed == IF j < Len(s.toks) /\ s.toks[j + 1].k = ";"
                   THEN [s EXCEPT !.toks = Without(@, {s.toks[j + 1].id})] ELSE s
        slot == IF StmtEnabled(s) THEN Register(trimmed, Braces(s.toks[s.at], s.toks[j])) ELSE trimmed
        inner == Parse("stmts", Good(Pop(slot), 0))
        done == [inner EXCEPT !.ss = IF slot.ss = trimmed.ss THEN @
                                     ELSE [@ EXCEPT ![Len(s.ss) + 1].lines = inner.lines]]
        behind == Pop(done)
    IN  Good(IF Next1(behind) = ";" THEN Semi(behind) ELSE behind, 2)

\* The body of a statement that takes braces or not; its lines are those
\* behind the first one.
Body(s) ==
    LET first == s.toks[s.at]
        slot == Register(s, NoBraces(first, first, 0))
        t == Parse("stmt", slot)
    IN  CASE first.k \in Lbraces -> Block(s)
          [] first.k \notin Lbraces /\ (~StmtEnabled(s) \/ slot = s) -> Parse("stmt", s)
          [] OTHER -> [t EXCEPT !.ss[Len(slot.ss)] = NoBraces(first, t.toks[t.at], t.lines)]

\* The statements up to the right brace.
Stmts(s) ==
    LET r == Parse("stmt", s)
    IN  IF Next1(s) \in Rbraces \cup {"EOF"} THEN s
        ELSE Parse("stmts", Good(r, s.lines + r.lines))

\* parser_stmt_kw_expr(), parser_stmt_for()
KwExpr(s) ==
    LET kw == Next1(s)
        t == IF kw \in Loops THEN EmptyLoop(Pop(s)) ELSE Pop(s)
        r == IF kw = "switch" /\ Next1(t) \notin Lbraces THEN Parse("stmt", t)
             ELSE Body(t)
    IN  Good(IF kw \in Loops THEN LeavePass(r, s, "STMT_EMPTY_LOOP") ELSE r, 2)

\* parser_stmt_if(), behind the first alternative
Alternatives(s) ==
    CASE Next1(s) = "elif" -> Parse("alternatives", KwExpr(s))
      [] Next1(s) = "else" -> Good(Body(Pop(s)), 2)
      [] OTHER -> Good(s, 2)

\* parser_stmt_dowhile()
DoWhile(s) ==
    LET r == IF Kind(s, 1) \in Lbraces THEN Block(Pop(s)) ELSE Parse("stmt", Pop(s))
    IN  Good(Semi(Pop(r)), 2)

\* parser_stmt_case()
CaseStmts(s) ==
    LET r == Parse("stmt", s)
    IN  IF Next1(s) \in {"case", "default", "EOF"} \cup Rbraces THEN Good(s, 2)
        ELSE Parse("case", r)
Case(s) ==
    LET kw == Next1(s)
        t == IF Kind(s, 1) \in Lbraces THEN Parse("stmt", Pop(s)) ELSE Pop(s)
    IN  LeavePass(CaseStmts(Break(t, kw)), s, "STMT_SWITCH")

\* parser_decl(), the semicolons behind being removed
RECURSIVE Decls(_, _)
Decls(s, lines) ==
    IF Next1(s) # "int" THEN Good(s, lines)
    ELSE Decls(Semi(Pop(s)), Min2(lines + 1))

\* parser_stmt1()
Stmt1(s) ==
    LET kw == Next1(s)
    IN  CASE kw \in Lbraces -> Block(s)
          [] kw = "e" -> Semi(Pop(s))
          [] kw = "E" -> Good(Semi(Pop(s)), 2)
          [] kw = "if" -> Alternatives(KwExpr(s))
          [] kw = "int" -> Decls(s, 0)
          [] kw \in {"case", "default"} -> Case(s)
          [] kw \in {"break", "continue"} -> Semi(Pop(s))
          [] kw \in Loops \cup {"switch"} -> KwExpr(s)
          [] kw = "label" -> Parse("stmt", Pop(s))
          [] kw = "do" -> DoWhile(s)
          [] kw = ";" -> Semi(s)

Parse(what, s) ==
    CASE what = "stmt" -> ParserStmt(s)
      [] what = "one" -> Stmt1(s)
      [] what = "stmts" -> Stmts(s)
      [] what = "alternatives" -> Alternatives(s)
      [] what = "case" -> CaseStmts(s)

\* The statements of a function.
Parsed(ts) ==
    Parse("stmts", [toks |-> ts, at |-> 1, ps |-> Idle, ss |-> <<>>, lines |-> 0]).toks

-----------------------------------------------------------------------------
(* The grammar of C.                                                       *)

Null == [k |-> "null"]
RECURSIVE CStmt(_, _), CBlock(_, _), CChain(_, _)

\* The statement at i and what is behind it.
CStmt(ts, i) ==
    LET k == ts[i].k
        body == CStmt(ts, i + 1)
        chain == CChain(ts, i)
        block == CBlock(ts, i + 1)
    IN  CASE k = ";" -> [ast |-> Null, at |-> i + 1]
          [] k \in {"e", "E", "int", "break", "continue"} -> [ast |-> [k |-> k], at |-> i + 2]
          [] k \in Lbraces -> [ast |-> [k |-> "block", stmts |-> block.stmts], at |-> block.at]
          [] k \in {"label", "case", "default", "switch"} \cup Loops ->
                [ast |-> [k |-> k, body |-> body.ast], at |-> body.at]
          [] k = "do" -> [ast |-> [k |-> k, body |-> body.ast], at |-> body.at + 2]
          [] k = "if" -> [ast |-> [k |-> k, alts |-> chain.alts], at |-> chain.at]

\* The statements up to the right brace.
CBlock(ts, i) ==
    LET first == CStmt(ts, i)
        rest == CBlock(ts, first.at)
    IN  IF ts[i].k \in Rbraces THEN [stmts |-> <<>>, at |-> i + 1]
        ELSE [stmts |-> <<first.ast>> \o rest.stmts, at |-> rest.at]

\* The alternatives of an if on.
CChain(ts, i) ==
    LET first == CStmt(ts, i + 1)
        rest == CChain(ts, first.at)
    IN  IF ts[i].k \notin {"if", "elif", "else"} \/ i > Len(ts) THEN [alts |-> <<>>, at |-> i]
        ELSE IF ts[i].k # "else" /\ ts[first.at].k \in {"elif", "else"}
        THEN [alts |-> <<first.ast>> \o rest.alts, at |-> rest.at]
        ELSE [alts |-> <<first.ast>>, at |-> first.at]

Function(ts) == CBlock(ts, 1).stmts

\* Statements that mean the same: a block of one, that is not a declaration,
\* and what does nothing as the body of a loop or behind the last label.
RECURSIVE Meaning(_), Meanings(_)
Meanings(stmts) ==
    IF stmts = <<>> THEN <<>>
    ELSE LET m == Meaning(Head(stmts))
         IN  IF m = Null THEN Meanings(Tail(stmts)) ELSE <<m>> \o Meanings(Tail(stmts))
LastBreak(stmts) ==
    IF stmts # <<>> /\ stmts[Len(stmts)] = [k |-> "default", body |-> [k |-> "break"]]
    THEN [stmts EXCEPT ![Len(stmts)].body = Null] ELSE stmts
Meaning(ast) ==
    CASE ast.k = "block" ->
            LET ms == Meanings(ast.stmts)
            IN  CASE ms = <<>> -> Null
                  [] Len(ms) = 1 /\ ms[1].k # "int" -> ms[1]
                  [] OTHER -> [k |-> "block", stmts |-> ms]
      [] ast.k = "switch" /\ ast.body.k = "block" ->
            [k |-> "switch", body |-> LastBreak(Meanings(ast.body.stmts))]
      [] ast.k \in Loops ->
            LET m == Meaning(ast.body)
            IN  [ast EXCEPT !.body = IF m = [k |-> "continue"] THEN Null ELSE m]
      [] ast.k \in {"label", "case", "default", "do"}  -> [ast EXCEPT !.body = Meaning(@)]
      [] ast.k = "if" -> [ast EXCEPT !.alts = [i \in DOMAIN @ |-> Meaning(@[i])]]
      [] OTHER -> ast

\* Whether p(ast) holds for all statements within: those are
RECURSIVE Within(_)
Within(ast) ==
    {ast} \cup (CASE ast.k = "block" -> UNION {Within(ast.stmts[i]) : i \in DOMAIN ast.stmts}
                  [] ast.k = "if" -> UNION {Within(ast.alts[i]) : i \in DOMAIN ast.alts}
                  [] "body" \in DOMAIN ast -> Within(ast.body)
                  [] OTHER -> {})
All(ts) == UNION {Within(Function(ts)[i]) : i \in DOMAIN Function(ts)}

-----------------------------------------------------------------------------
(* A function is written and formatted twice.                              *)

Ids(kinds) == [i \in DOMAIN kinds |-> [id |-> i, k |-> kinds[i]]]
Kinds(ts) == [i \in DOMAIN ts |-> ts[i].k]

Init == toks = <<>> /\ source = <<>> /\ phase = "write"
Write ==
    /\ phase = "write"
    /\ \E kinds \in Sources : source' = Ids(kinds \o <<"}">>)
    /\ toks' = source' /\ phase' = "format"
Format ==
    /\ phase = "format"
    /\ toks' = Parsed(toks) /\ phase' = "again" /\ UNCHANGED source
FormatAgain ==
    /\ phase = "again"
    /\ toks' = Parsed(toks) /\ phase' = "done" /\ UNCHANGED source

Next == Write \/ Format \/ FormatAgain
Spec == Init /\ [][Next]_vars

-----------------------------------------------------------------------------
(* Correctness.                                                            *)

\* Types; tokens stay apart and braces pair up in number.
TypeOK ==
    /\ phase \in {"write", "format", "again", "done"}
    /\ \A i, j \in DOMAIN toks : toks[i].id = toks[j].id => i = j
    /\ toks # <<>> => 1 + Cardinality({i \in DOMAIN toks : toks[i].k \in Lbraces}) =
                      Cardinality({i \in DOMAIN toks : toks[i].k \in Rbraces})

\* The statements are left with their meaning.
MeaningKept == phase # "write" => Meanings(Function(toks)) = Meanings(Function(source))

WellFormed(ts) ==
    \A ast \in All(ts) :
        /\ "body" \in DOMAIN ast => ast.body.k # "int"
        /\ ast.k = "if" => \A i \in DOMAIN ast.alts : ast.alts[i].k # "int"

\* Declarations are in blocks.
StaysWellFormed == phase # "write" => WellFormed(toks)

LoneDecl(ts) == \E ast \in All(ts) : ast.k = "block" /\ Meanings(ast.stmts) = <<[k |-> "int"]>>
EmptyDefault(ts) ==
    \E ast \in All(ts) :
        /\ ast.k = "switch" /\ ast.body.k = "block"
        /\ \E i \in DOMAIN ast.body.stmts :
            i < Len(ast.body.stmts) /\ ast.body.stmts[i] = [k |-> "default", body |-> Null]

\* Both hold unless a declaration is alone in its block, or the empty
\* statement behind default is not the last.
MeaningOfOthers ==
    phase # "write" /\ ~LoneDecl(source) /\ ~EmptyDefault(source) => MeaningKept /\ StaysWellFormed

OneLine(ast) == ast.k \in {"e", "break", "continue"}
Needs(ast) == ~OneLine(ast) /\ (ast.k = "block" => Len(ast.stmts) # 1 \/ ~OneLine(ast.stmts[1]))
Chains(ts) ==
    {ast.alts : ast \in {a \in All(ts) : a.k = "if"}} \cup {<<ast.body>> : ast \in {a \in All(ts) : a.k \in Loops}}
HasNull(alts) == \E i \in DOMAIN alts : alts[i] \in {Null, [k |-> "block", stmts |-> <<Null>>]}
HasLabel(alts) == \E i \in DOMAIN alts : \E ast \in Within(alts[i]) : ast.k = "label"
Uniform(alts) ==
    LET braces == {alts[i].k = "block" : i \in DOMAIN alts}
        needed == \E i \in DOMAIN alts : Needs(alts[i])
    IN  /\ braces \in {{TRUE}, {FALSE}}
        /\ ~HasNull(alts) /\ ~HasLabel(alts) => braces = {needed}
Plain(ts) == \A i \in DOMAIN ts : ts[i].k \notin {"{#", "}#", "}c"}

\* The alternatives of an if have braces all or none, and have them if one
\* of them needs some.  An empty statement is good either way.
BracesUniform ==
    phase \in {"again", "done"} /\ Simplify /\ Plain(toks) /\ ~LoneDecl(source) =>
        \A alts \in Chains(toks) : Uniform(alts)

\* Braces next to directives are kept.
DirectivesKept ==
    \A i \in DOMAIN source : source[i].k \in {"{#", "}#"} => \E j \in DOMAIN toks : toks[j].id = source[i].id

\* Formatting again changes nothing.
Settles == phase = "again" => Kinds(toks') = Kinds(toks)

\* Loops have bodies.
LoopsHaveBodies ==
    phase \in {"again", "done"} /\ Simplify =>
        \A ast \in All(toks) : ast.k \in Loops => (Meaning(ast.body) = Null => ast.body.k # "null")
=============================================================================
