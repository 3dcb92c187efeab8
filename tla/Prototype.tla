----------------------------- MODULE Prototype -----------------------------
(***************************************************************************)
(* The arguments of a prototype in simple mode: what parser-type.c takes   *)
(* for their types, the walk of parser-func.c and the names removed from   *)
(* them by simple-decl-proto.c.                                            *)
(*                                                                         *)
(* A prototype is a sequence of tokens [k, id, use] following the type and *)
(* the name of the function.  "type" stands for the keywords of types and  *)
(* the ellipsis, "qual" for qualifiers and storage classes, "attr" for an  *)
(* attribute and its arguments.  use, for the properties: the token is the *)
(* "name" of a parameter, of a parameter of a parameter ("inner"), a "ref" *)
(* to one or the ellipsis, "..."; "" otherwise.                            *)
(***************************************************************************)
EXTENDS Naturals, Sequences, FiniteSets

CONSTANTS
    Prototypes,     \* those to start from
    Runs            \* how often the pass comes by a prototype

VARIABLES
    toks,
    at,         \* position of the next token
    rparens,    \* the ends of the argument lists being parsed, innermost last
    ptr,        \* the arguments are those of a function returning a pointer to one
    args,       \* sp->arguments: the token to remove of each, or 0
    ignore,     \* sp->flags.ignore
    phase,      \* "enter", "arg" in front of an argument, "ident" in it, "leave", "fail"
    runs,
    before      \* the tokens when the pass was entered
vars == <<toks, at, rparens, ptr, args, ignore, phase, runs, before>>

Kind(i) == IF i \in DOMAIN toks THEN toks[i].k ELSE "eof"
Last(s) == s[Len(s)]
Front(s) == SubSeq(s, 1, Len(s) - 1)
Match(i) ==
    LET count(j, k) == Cardinality({m \in i..j : Kind(m) = k})
        ends == {j \in i..Len(toks) : count(j, "(") = count(j, ")")}
    IN  CHOOSE j \in ends : \A m \in ends : j <= m

-----------------------------------------------------------------------------
(* parser_type_peek() of an argument: the end of the type at i, or 0, and  *)
(* the parenthesis of its own arguments if it is a pointer to a function.  *)

None == [end |-> 0, args |-> 0]
Type(end) == [end |-> end, args |-> 0]

NoIdent(i) == Kind(i) = "ident" /\ Kind(i + 1) \in {")", ","}
SquaresEnd(i) == IF Kind(i + 1) = "lit" THEN i + 2 ELSE i + 1
Squares(i) == Kind(i) = "[" /\ Kind(SquaresEnd(i)) = "]"
UnknownArray(i) == Kind(i) = "ident" /\ Squares(i + 1)

IdentAfterType(i) ==
    \/ Kind(i + 1) \in {"[", ")", ",", ";"}
    \/ Kind(i + 1) = "(" /\ Kind(i + 2) # "*"
    \/ Kind(i + 1) = "attr" /\ Kind(i + 2) # "ident"

Skip(i, k) == IF Kind(i) = k THEN i + 1 ELSE i
\* A pointer to a function: its parenthesis and end.
FuncPtr(i) ==
    LET quals == Skip(Skip(i + 2, "qual"), "*")
        ident == Skip(quals, "qual")
        close == Skip(ident, "ident")
        rparen == IF Kind(close) = "[" THEN Skip(Skip(close + 1, "lit"), "]") ELSE close
    IN  IF ~(Kind(i) = "(" /\ Kind(i + 1) = "*" /\ Kind(rparen) = ")") THEN None
        ELSE IF Kind(rparen + 1) = "(" THEN [end |-> Match(rparen + 1), args |-> rparen + 1]
        ELSE IF close = ident /\ Kind(rparen + 1) \in {")", "eof"} THEN Type(rparen)
        ELSE None
PtrArray(i) ==
    LET rparen == Skip(i + 2, "ident")
    IN  IF /\ Kind(i) = "(" /\ Kind(i + 1) = "*" /\ Kind(rparen) = ")" /\ Kind(rparen + 1) = "["
           /\ Kind(rparen + 2) \in {"lit", "ident"} /\ Kind(rparen + 3) = "]"
        THEN Type(rparen + 3)
        ELSE None

\* One turn of the loop from i, with the type ending at end and n tokens of it
\* read, peek being what is known of it.
RECURSIVE Scan(_, _, _, _, _)
Scan(i, end, n, keywords, peek) ==
    LET found(unknown) == IF peek \/ (~unknown /\ n > 0) THEN Type(end) ELSE None
        special == IF FuncPtr(i) # None THEN FuncPtr(i) ELSE PtrArray(i)
    IN  CASE Kind(i) = "qual" -> Scan(i + 1, i, n + 1, TRUE, peek)
          [] Kind(i) \in {"type", "struct"} ->
                LET tag == IF Kind(i) = "struct" /\ Kind(i + 1) = "ident" THEN i + 1 ELSE i
                    e == IF Squares(tag + 1) THEN SquaresEnd(tag + 1) ELSE tag
                IN  Scan(e + 1, e, n + 1, keywords, TRUE)
          [] Kind(i) = "*" /\ n > 0 -> IF Kind(i + 1) = "ident" THEN Type(i) ELSE Scan(i + 1, i, n + 1, keywords, TRUE)
          [] Kind(i) = "ident" -> IF IdentAfterType(i) THEN found(FALSE) ELSE Scan(i + 1, i, n + 1, keywords, peek \/ keywords)
          [] n > 0 /\ special # None -> special
          [] OTHER -> found(Kind(i) # "eof")

TypePeek(i) ==
    IF NoIdent(i) THEN Type(i)
    ELSE IF UnknownArray(i) THEN Type(SquaresEnd(i + 1))
    ELSE Scan(i, i, 0, FALSE, FALSE)

-----------------------------------------------------------------------------
(* The pass.                                                               *)

\* The name of an argument may be removed behind a star, a keyword of a type
\* or a qualifier that is not the beginning of the argument.
Qualifier(i) == Kind(i) = "qual" /\ Kind(i - 1) \notin {"(", ",", "qual"}
Removable(i) == Kind(i - 1) \in {"*", "type", "struct"} \/ Qualifier(i - 1)
\* Mutant: what is not a name is passed over.
ArgIdentPass(i) ==
    /\ args' = IF Removable(i) THEN [args EXCEPT ![Len(args)] = toks[i].id] ELSE args
    /\ UNCHANGED ignore
ArgIdent(i) ==
    IF Removable(i)
    THEN args' = [args EXCEPT ![Len(args)] = toks[i].id] /\ UNCHANGED ignore
    ELSE ignore' = TRUE /\ UNCHANGED args

Unnamed == {i \in DOMAIN args : args[i] = 0}
Named == IF ignore \/ Unnamed \in {{}, DOMAIN args} THEN {} ELSE {args[i] : i \in DOMAIN args} \ {0}
Leave ==
    /\ phase = "leave"
    /\ LET kept(t) == t.id \notin Named IN toks' = SelectSeq(toks, kept)
    /\ runs' = runs + 1
    /\ phase' = "enter" /\ at' = 0 /\ rparens' = <<>>
    /\ UNCHANGED <<ptr, args, ignore, before>>

-----------------------------------------------------------------------------
(* parser_func_proto() and parser_func_arg().                              *)

Number(ts) == [i \in DOMAIN ts |-> [ts[i] EXCEPT !.id = i]]
Init ==
    /\ \E ts \in Prototypes : toks = Number(ts)
    /\ at = 0 /\ rparens = <<>> /\ ptr = FALSE
    /\ args = <<>> /\ ignore = FALSE
    /\ phase = "enter" /\ runs = 0 /\ before = toks

\* The arguments of a function returning a pointer to one come first.
Enter ==
    /\ phase = "enter" /\ runs < Runs
    /\ ptr' = (Kind(1) = "(" /\ Kind(2) = "*")
    /\ LET lparen == IF ptr' THEN 4 ELSE 1
       IN  at' = lparen + 1 /\ rparens' = <<Match(lparen)>>
    /\ args' = <<>> /\ ignore' = FALSE
    /\ phase' = "arg" /\ before' = toks
    /\ UNCHANGED <<toks, runs>>

Arg ==
    /\ phase = "arg"
    /\ LET t == TypePeek(Skip(at, "attr"))
       IN  /\ t # None
           /\ args' = Append(args, 0)
           /\ IF t.args # 0
              THEN at' = t.args + 1 /\ rparens' = Append(rparens, t.end) /\ UNCHANGED phase
              ELSE at' = t.end + 1 /\ phase' = "ident" /\ UNCHANGED rparens
    /\ UNCHANGED <<toks, ptr, ignore, runs, before>>

\* No further argument.  A list inside of a type goes on with the argument of
\* that type, the last one of the arguments being another.
ArgsEnd ==
    /\ phase = "arg" /\ TypePeek(Skip(at, "attr")) = None
    /\ IF Kind(Skip(at, "attr")) # ")"
       THEN phase' = "fail" /\ UNCHANGED <<at, rparens, ptr>>
       ELSE IF Len(rparens) > 1
       THEN at' = at + 1 /\ rparens' = Front(rparens) /\ phase' = "ident" /\ UNCHANGED ptr
       ELSE IF ptr
       THEN at' = at + 3 /\ rparens' = <<Match(at + 2)>> /\ ptr' = FALSE /\ UNCHANGED phase
       ELSE phase' = "leave" /\ UNCHANGED <<at, rparens, ptr>>
    /\ UNCHANGED <<toks, args, ignore, runs, before>>

Ident ==
    /\ phase = "ident"
    /\ IF Kind(at) = "eof" THEN phase' = "fail" /\ UNCHANGED <<at, args, ignore>>
       ELSE IF at = Last(rparens) THEN phase' = "arg" /\ UNCHANGED <<at, args, ignore>>
       ELSE /\ at' = at + 1
            /\ phase' = IF Kind(at) = "," THEN "arg" ELSE "ident"
            /\ IF Kind(at) = "ident" THEN ArgIdent(at) ELSE UNCHANGED <<args, ignore>>
    /\ UNCHANGED <<toks, rparens, ptr, runs, before>>

Next == Enter \/ Arg \/ ArgsEnd \/ Ident \/ Leave
Spec == Init /\ [][Next]_vars

-----------------------------------------------------------------------------
(* The parameters of a prototype, by the grammar.                          *)

Depth(ts, i) == Cardinality({j \in 1..i : ts[j].k = "("}) - Cardinality({j \in 1..i : ts[j].k = ")"})
\* Parameters of the function itself: sets of positions.
Params(ts) ==
    LET depth == IF ts[2].k = "*" THEN 2 ELSE 1
        list == {i \in DOMAIN ts : i > (IF depth = 2 THEN 4 ELSE 1) /\ \A j \in 4..i : Depth(ts, j) >= depth}
        commas == {i \in list : ts[i].k = "," /\ Depth(ts, i) = depth}
        before1(i) == {c \in commas : c < i}
    IN  {{i \in list \ commas : before1(i) = cs} : cs \in {before1(i) : i \in list \ commas}}
NamedParams(ts) == {p \in Params(ts) : \E i \in p : ts[i].use = "name"}
Ellipsis(ts, p) == \E i \in p : ts[i].use = "..."
Removed == {i \in DOMAIN before : \A j \in DOMAIN toks : toks[j].id # before[i].id}
Done == phase = "enter"

\* Types; what is remembered of an argument is an identifier that was there.
TypeOK ==
    /\ at \in 0..Len(toks) + 1 /\ ptr \in BOOLEAN /\ ignore \in BOOLEAN
    /\ \A i \in DOMAIN rparens : Kind(rparens[i]) = ")"
    /\ \A i \in DOMAIN args : args[i] = 0 \/ \E j \in DOMAIN before : before[j].id = args[i] /\ before[j].k = "ident"
    /\ phase \in {"enter", "arg", "ident", "leave", "fail"} /\ runs \in 0..Runs

\* What is removed are names of parameters and never the types of unnamed
\* ones, which are identifiers as well.
OnlyNames == Done => \A i \in Removed : before[i].use \in {"name", "inner"}

\* A name that is referred to is not removed.
UsedKept == Done => Removed = {} \/ \A i \in DOMAIN toks : toks[i].use # "ref"

Flat == \A i \in DOMAIN before : before[i].k = "(" => i < Len(before) /\ before[i + 1].k # "*"

\* A list is left as it is or none of its parameters keeps a name, unless
\* some of them are pointers declared in parentheses.
AllOrNothing == Done /\ Flat /\ Removed # {} => NamedParams(toks) = {}

\* Coming by again changes nothing.
Stable == Done /\ runs > 1 => Removed = {}

\* A prototype that did not mix named and unnamed parameters does not after.
NoNewMix ==
    LET mixed(ts) == {p \in Params(ts) : ~Ellipsis(ts, p)} \ NamedParams(ts) # {} /\ NamedParams(ts) # {}
    IN  Done /\ ~mixed(before) => ~mixed(toks)

\* A prototype that the arguments were found in once is not refused later.
StillParses == phase = "fail" => runs = 0

\* A prototype all of whose parameters are named keeps the names.
AllNamedKept ==
    Done /\ (\A p \in Params(before) : p \in NamedParams(before) \/ Ellipsis(before, p)) => Removed = {}
=============================================================================
