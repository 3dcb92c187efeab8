----------------------------- MODULE SimpleDecl -----------------------------
(***************************************************************************)
(* Declarations in simple mode (simple-decl.c), as the parser of           *)
(* parser-decl.c comes by them: variables of one type and as many stars    *)
(* are declared together, sorted, unless they are kept where they are.     *)
(*                                                                         *)
(* A block of declarations is a list of tokens [id, k, v, c].  "type" is   *)
(* what is ahead of the first variable but for stars, "=" an initializer   *)
(* using the variable v, "[]" an array using none.  c: a comment is next   *)
(* to the token, or it is a type no variables are to be moved of.          *)
(***************************************************************************)
EXTENDS Naturals, Sequences, FiniteSets

CONSTANT Sources        \* blocks of declarations, no token having an id yet

VARIABLES
    toks,       \* the tokens, in order
    at,         \* position of the next one to be parsed
    types,      \* sd->types: [str, beg, slots], a slot being [vars, kept, fallback]
    decls,      \* sd->empty_decls: [beg, end, slots], the slots being those of kept variables
    dt,         \* sd->dt, the place in types, or 0
    dv,         \* sd->dv: [beg, delim] of the variable being parsed
    phase,      \* what is done with the tokens: "parse", "move", "remove", "done"
    pass,       \* blocks are formatted twice
    before      \* the tokens at the beginning of each pass
vars == <<toks, at, types, decls, dt, dv, phase, pass, before>>

NoVar == [beg |-> 0, delim |-> 0]
NoSlot == [vars |-> <<>>, kept |-> 0, fallback |-> 0]

Last(s) == s[Len(s)]
IsMin(n, S) == n \in S /\ \A m \in S : n <= m

-----------------------------------------------------------------------------
(* Tokens.  Identity 0 is no token.                                        *)

Pos(id) == CHOOSE i \in DOMAIN toks : toks[i].id = id
Fresh(ts) == 1 + (CHOOSE n \in {ts[i].id : i \in DOMAIN ts} : \A i \in DOMAIN ts : ts[i].id <= n)
Numbered(ts, n) == [i \in DOMAIN ts |-> [ts[i] EXCEPT !.id = IF @ = 0 THEN n + i - 1 ELSE @]]
Without(ts, ids) == LET keep(t) == t.id \notin ids IN SelectSeq(ts, keep)
InsertAfter(ts, id, new) ==
    LET i == CHOOSE j \in DOMAIN ts : ts[j].id = id
    IN  SubSeq(ts, 1, i) \o new \o SubSeq(ts, i + 1, Len(ts))
Tok(k) == [id |-> 0, k |-> k, v |-> 0, c |-> FALSE]

\* The tokens of the variable from beg to the one in front of end.  Without
\* a variable beg is end, the range being what is left of the file.
DeclRange(beg, end) ==
    IF beg = end THEN SubSeq(toks, Pos(beg), Len(toks)) ELSE SubSeq(toks, Pos(beg), Pos(end) - 1)

-----------------------------------------------------------------------------
(* classify(): whether a variable may be moved, and its slot.              *)

BeforeAssign(range) ==
    IF \E i \in DOMAIN range : range[i].k = "="
    THEN SubSeq(range, 1, CHOOSE i \in DOMAIN range : IsMin(i, {j \in DOMAIN range : range[j].k = "="}))
    ELSE range
CountOf(range, k) == Cardinality({i \in DOMAIN range : range[i].k = k})
ClassSlot(range) ==
    LET seen == BeforeAssign(range) IN IF CountOf(seen, "[]") > 0 THEN 4 ELSE CountOf(seen, "*")

ClassMoveable(range) ==
    LET seen == BeforeAssign(range)
    IN  CountOf(seen, "ident") > 0 /\ \A i \in DOMAIN seen : seen[i].k \in {"*", "ident"} /\ ~seen[i].c

Grow(slots, n) == [i \in 1..(IF Len(slots) > n THEN Len(slots) ELSE n + 1) |->
                    IF i \in DOMAIN slots THEN slots[i] ELSE NoSlot]

\* associate_semi(): a slot goes behind the last declaration that is kept
\* for it or, when there is none, for the next slot that has one.
Associate(slots, keptslots, semi) ==
    LET kept == [i \in DOMAIN slots |-> IF i - 1 \in keptslots THEN semi ELSE slots[i].kept]
        later(i) == {j \in DOMAIN slots : j > i /\ kept[j] # 0}
    IN  [i \in DOMAIN slots |->
            CASE kept[i] # 0 -> [slots[i] EXCEPT !.kept = kept[i]]
              [] kept[i] = 0 /\ later(i) # {} ->
                    [slots[i] EXCEPT !.kept = kept[CHOOSE j \in later(i) : IsMin(j, later(i))]]
              [] OTHER -> [slots[i] EXCEPT !.fallback = IF @ = 0 THEN semi ELSE @]]

-----------------------------------------------------------------------------
Init ==
    /\ \E ts \in Sources : toks = Numbered(ts, 1) /\ before = <<toks, toks>>
    /\ at = 1 /\ types = <<>> /\ decls = <<>> /\ dt = 0 /\ dv = NoVar
    /\ phase = "parse" /\ pass = 1

\* simple_decl_type(), with is_type_valid()
DeclType ==
    /\ phase = "parse" /\ at <= Len(toks) /\ toks[at].k = "type"
    /\ at' = at + 1
    /\ LET str == toks[at].v
           known == {i \in DOMAIN types : types[i].str = str}
       IN  IF toks[at].c THEN UNCHANGED <<types, decls, dt, dv>>
           ELSE /\ types' = IF known # {} THEN types
                            ELSE Append(types, [str |-> str, beg |-> toks[at].id, slots |-> <<>>])
                /\ dt' = CHOOSE i \in DOMAIN types' : types'[i].str = str
                /\ dv' = [beg |-> toks[at + 1].id, delim |-> 0]
                /\ decls' = Append(decls, [beg |-> toks[at].id, end |-> toks[at].id, slots |-> {}])
    /\ UNCHANGED <<toks, phase, pass, before>>

\* parser_decl_init(): the delimiter of the variable parsed next
Delim(k) ==
    /\ phase = "parse" /\ at <= Len(toks) /\ toks[at].k # "type"
    /\ \E e \in at..Len(toks) : IsMin(e, {i \in at..Len(toks) : toks[i].k \in {",", ";"}}) /\ toks[e].k = k

DelimPos == CHOOSE e \in at..Len(toks) : IsMin(e, {i \in at..Len(toks) : toks[i].k \in {",", ";"}})

\* simple_decl_var_end() but for associating the semicolon
Keeps(end) == LET range == DeclRange(dv.beg, end.id) IN ~ClassMoveable(range) \/ end.c
VarSlot(end) == ClassSlot(DeclRange(dv.beg, end.id))
VarEnd(end, delim) ==
    LET n == VarSlot(end)
        slots == Grow(types[dt].slots, n)
        range == DeclRange(dv.beg, end.id)
        var == [ids |-> [i \in DOMAIN range |-> range[i].id], delim |-> delim,
                name |-> range[CHOOSE i \in DOMAIN range : range[i].k = "ident"].v]
    IN  IF Keeps(end) THEN slots ELSE [slots EXCEPT ![n + 1].vars = Append(@, var)]
KeptSlots(end) == Last(decls).slots \cup (IF Keeps(end) THEN {VarSlot(end)} ELSE {})

\* Which comma goes with the variable, and which with the next one: the
\* latter if the former stays or has one.
CommaOf(comma) ==
    IF ~Keeps(comma) /\ dv.delim = 0 THEN [own |-> comma.id, next |-> 0]
    ELSE [own |-> dv.delim, next |-> IF comma.c THEN 0 ELSE comma.id]

\* simple_decl_comma()
Comma ==
    /\ Delim(",")
    /\ LET comma == toks[DelimPos]
       IN  /\ at' = DelimPos + 1
           /\ IF dv.beg = 0 THEN UNCHANGED <<types, decls, dv>>
              ELSE /\ types' = [types EXCEPT ![dt].slots = VarEnd(comma, CommaOf(comma).own)]
                   /\ decls' = [decls EXCEPT ![Len(decls)].slots = KeptSlots(comma)]
                   /\ dv' = [beg |-> toks[DelimPos + 1].id, delim |-> CommaOf(comma).next]
    /\ UNCHANGED <<toks, dt, phase, pass, before>>

\* simple_decl_semi(), the parser having removed further semicolons
Semi ==
    /\ Delim(";")
    /\ LET semi == toks[DelimPos]
           trim == {i \in DOMAIN toks : i > DelimPos /\ \A j \in DelimPos..i : toks[j].k = ";"}
       IN  /\ toks' = Without(toks, {toks[i].id : i \in trim})
           /\ at' = DelimPos + 1
           /\ IF dv.beg = 0 THEN UNCHANGED <<types, decls, dt, dv>>
              ELSE /\ types' = [types EXCEPT ![dt].slots =
                                    Associate(VarEnd(semi, dv.delim), KeptSlots(semi), semi.id)]
                   /\ decls' = IF KeptSlots(semi) = {} THEN [decls EXCEPT ![Len(decls)].end = semi.id]
                               ELSE SubSeq(decls, 1, Len(decls) - 1)
                   /\ dt' = 0 /\ dv' = NoVar
    /\ UNCHANGED <<phase, pass, before>>

Parsed ==
    /\ phase = "parse" /\ at > Len(toks)
    /\ phase' = "move"
    /\ UNCHANGED <<toks, at, types, decls, dt, dv, pass, before>>

-----------------------------------------------------------------------------
(* simple_decl_leave(), a slot at a time.                                  *)

\* Mutant: each variable is inserted in front of those before it.
SortedLast(vs) == [n \in DOMAIN vs |-> vs[Len(vs) + 1 - n]]
SortedVars(vs) ==
    [n \in DOMAIN vs |-> vs[CHOOSE i \in DOMAIN vs :
        Cardinality({j \in DOMAIN vs : vs[j].name < vs[i].name}) = n - 1]]

Pending == {<<i, n>> \in (DOMAIN types) \X (1..9) : n \in DOMAIN types[i].slots /\ types[i].slots[n].vars # <<>>}
First == CHOOSE p \in Pending : \A q \in Pending : p[1] < q[1] \/ (p[1] = q[1] /\ p[2] <= q[2])

\* The new declaration: commas between the variables
RECURSIVE Joined(_, _)
Joined(vs, i) ==
    IF i > Len(vs) THEN <<>>
    ELSE (IF i > 1 THEN <<Tok(",")>> ELSE <<>>)
         \o [n \in DOMAIN vs[i].ids |-> toks[Pos(vs[i].ids[n])]] \o Joined(vs, i + 1)

\* simple_decl_move_vars()
MoveVars ==
    /\ phase = "move" /\ Pending # {}
    /\ LET slot == types[First[1]].slots[First[2]]
           vs == SortedVars(slot.vars)
           semi == IF slot.kept # 0 THEN slot.kept ELSE slot.fallback
           type == [Tok("type") EXCEPT !.v = types[First[1]].str]
           decl == <<type>> \o Joined(vs, 1) \o <<Tok(";")>>
           gone == UNION {{vs[i].delim} \cup {vs[i].ids[n] : n \in DOMAIN vs[i].ids} : i \in DOMAIN vs}
       IN  /\ toks' = InsertAfter(Without(toks, gone), semi, Numbered(decl, Fresh(toks)))
           /\ types' = [types EXCEPT ![First[1]].slots[First[2]].vars = <<>>]
    /\ UNCHANGED <<at, decls, dt, dv, phase, pass, before>>

Empty == {toks[i].id : i \in {j \in DOMAIN toks : \E d \in DOMAIN decls : j \in Pos(decls[d].beg)..Pos(decls[d].end)}}

\* The declarations that are empty by now.
RemoveEmpty ==
    /\ phase = "move" /\ Pending = {}
    /\ toks' = Without(toks, Empty)
    /\ at' = 1 /\ types' = <<>> /\ decls' = <<>> /\ dt' = 0 /\ dv' = NoVar
    /\ pass' = 2 /\ phase' = IF pass = 1 THEN "parse" ELSE "done"
    /\ before' = IF pass = 1 THEN [before EXCEPT ![2] = toks'] ELSE before

Next == DeclType \/ Comma \/ Semi \/ Parsed \/ MoveVars \/ RemoveEmpty
Spec == Init /\ [][Next]_vars

-----------------------------------------------------------------------------
(* Correctness.                                                            *)

Ids == {toks[i].id : i \in DOMAIN toks}
\* Types; tokens stay apart, and a variable is collected for a type only.
TypeOK ==
    /\ Cardinality(Ids) = Len(toks)
    /\ at \in 1..(Len(toks) + 1) /\ dt \in 0..Len(types)
    /\ phase \in {"parse", "move", "done"} /\ pass \in {1, 2}
    /\ phase = "parse" => dv.beg \in Ids \cup {0} /\ (dv.beg = 0 <=> dt = 0)

\* The tokens are those of a file that has been formatted.
Between == pass = 2 /\ (phase = "done" \/ (phase = "parse" /\ at = 1))

Follows == {<<"type", "*">>, <<"type", "ident">>, <<"type", ";">>, <<"*", "*">>, <<"*", "ident">>,
            <<"ident", "[]">>, <<"[]", "[]">>, <<"[]", "=">>, <<"ident", "=">>}
    \cup {<<k, d>> : k \in {"ident", "[]", "="}, d \in {",", ";"}}
    \cup {<<",", "*">>, <<",", "ident">>, <<";", "type">>}
WellFormed(ts) ==
    /\ ts # <<>> => ts[1].k = "type" /\ Last(ts).k = ";"
    /\ \A i \in 1..(Len(ts) - 1) : <<ts[i].k, ts[i + 1].k>> \in Follows

\* Declarations are made of declarators between commas.
StaysWellFormed == Between => WellFormed(toks)

CommentOnComma(ts) == \E i \in DOMAIN ts : ts[i].k = "," /\ ts[i].c

\* Holds as long as no comma has a comment.
WellFormedOtherwise == ~CommentOnComma(before[1]) => StaysWellFormed

NearestType(ts, i) == CHOOSE j \in DOMAIN ts : IsMin(i - j, {i - m : m \in {n \in 1..i : ts[n].k = "type"}}) /\ j <= i
Stars(ts, i) == {j \in DOMAIN ts : j < i /\ \A n \in j..(i - 1) : ts[n].k = "*"}
Suffix(ts, i) == {<<ts[j].k, ts[j].v>> : j \in {m \in DOMAIN ts : m > i /\ \A n \in (i + 1)..m : ts[n].k \in {"[]", "="}}}
Declared(ts) ==
    {[name |-> ts[i].v, type |-> ts[NearestType(ts, i)].v, stars |-> Cardinality(Stars(ts, i)), suffix |-> Suffix(ts, i)] :
        i \in {j \in DOMAIN ts : ts[j].k = "ident"}}

\* The variables declared, with their types.
SameVariables == Between => Declared(toks) = Declared(before[1])

Ahead(ts, v, i) == \E j \in 1..(i - 1) : ts[j].k = "ident" /\ ts[j].v = v
Used(ts, id) == \E i \in DOMAIN ts : ts[i].id = id /\ ts[i].k = "=" /\ ts[i].v # 0 /\ Ahead(ts, ts[i].v, i)

\* A variable is declared where it is used if it was before.
UsesDeclared ==
    Between =>
        \A i \in DOMAIN toks : Used(before[1], toks[i].id) => Ahead(toks, toks[i].v, i)

Immobile(ts) ==
    LET keep(t) == t.c \/ t.k \in {"=", "[]"} IN SelectSeq(ts, keep)

\* What has a comment, an initializer or a size keeps its place among its kind.
KeptInOrder == Immobile(toks) = Immobile(before[1])

\* A new declaration has a place: the assertion of simple_decl_leave()
SemiFound ==
    phase = "move" => \A p \in Pending :
        LET slot == types[p[1]].slots[p[2]]
        IN  \E i \in DOMAIN toks : toks[i].k = ";" /\ toks[i].id = (IF slot.kept # 0 THEN slot.kept ELSE slot.fallback)

Kinds(ts) == [i \in DOMAIN ts |-> <<ts[i].k, ts[i].v, ts[i].c>>]
DeclsOf(ts) ==
    {Kinds(SubSeq(ts, i, j)) : <<i, j>> \in {p \in (DOMAIN ts) \X (DOMAIN ts) :
        p[1] <= p[2] /\ ts[p[1]].k = "type" /\ IsMin(p[2], {n \in p[1]..Len(ts) : ts[n].k = ";"})}}

\* Formatting again may move declarations and changes none.
Stable == phase = "done" /\ ~CommentOnComma(before[1]) => DeclsOf(toks) = DeclsOf(before[2])

Plain(ts, i) == ts[i].k = "ident" /\ ts[i + 1].k \in {",", ";"}
DeclOf(ts, i) == NearestType(ts, i)

\* Plain variables of a type, and as many stars, are declared together.
Together ==
    LET ts == toks IN
    Between /\ (\A i \in DOMAIN ts : ~ts[i].c) =>
        \A i, j \in {n \in DOMAIN ts : Plain(ts, n)} :
            ts[DeclOf(ts, i)].v = ts[DeclOf(ts, j)].v /\ Cardinality(Stars(ts, i)) = Cardinality(Stars(ts, j)) =>
                DeclOf(ts, i) = DeclOf(ts, j) /\ (ts[i].v < ts[j].v => i < j)
=============================================================================
