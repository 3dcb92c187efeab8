------------------------------- MODULE Passes -------------------------------
(***************************************************************************)
(* The passes over the tokens of a file, each by itself: on statements     *)
(* (Stmt), declarations (SimpleDecl), forward declarations                 *)
(* (SimpleDeclForward, this module's own variables), prototypes            *)
(* (Prototype) and expressions (Expr), semicolons (Semi), includes         *)
(* (CppInclude) and their guards (CppIncludeGuard).  `part' tells which,   *)
(* v1 to v11 are its variables, and what it does not use stands still.     *)
(***************************************************************************)
EXTENDS MCSimpleDeclForward

CONSTANTS Functions, Blocks, Prototypes, Expressions, Semicolons, Includes, Headers

VARIABLES part, v1, v2, v3, v4, v5, v6, v7, v8, v9, v10, v11

S == INSTANCE Stmt WITH
        Sources <- Functions, SIMPLE_STMT_MAX <- 8, Simplify <- TRUE,
        toks <- v1, source <- v2, phase <- v3
D == INSTANCE SimpleDecl WITH
        Sources <- Blocks,
        toks <- v1, at <- v2, types <- v3, decls <- v4, dt <- v5, dv <- v6,
        phase <- v7, pass <- v8, before <- v9
T == INSTANCE Prototype WITH
        Runs <- 2,
        toks <- v1, at <- v2, rparens <- v3, ptr <- v4, args <- v5, ignore <- v6,
        phase <- v7, runs <- v8, before <- v9
E == INSTANCE Expr WITH
        Sources <- Expressions, Garbage <- {<<"a", "(", "(", "a", "?", "a", ":", ")", ")", ";">>},
        toks <- v1, tree <- v2, phase <- v3, ex <- v4, out <- v5, simple <- v6, rounds <- v7,
        clear <- v8
C == INSTANCE Semi WITH
        Files <- Semicolons,
        toks <- v1, ctx <- v2, pos <- v3, out <- v4, file <- v5
I == INSTANCE CppInclude WITH
        Sources <- Includes, Priorities <- <<0, 1, 2>>,
        todo <- v1, prefixes <- v2, includes <- v3, groups <- v4, after <- v5, ignore <- v6,
        refs <- v7, regroup <- v8, diffparse <- v9, source <- v10, pass <- v11
G == INSTANCE CppIncludeGuard WITH
        Files <- Headers, Guard <- "G",
        file <- v1, source <- v2, pass <- v3

\* The constants' values; those defined with the operators of a component come
\* from an instance of its own, which has none.
StmtData == INSTANCE MCStmt WITH
        Sources <- {}, SIMPLE_STMT_MAX <- 8, Simplify <- TRUE,
        toks <- v1, source <- v2, phase <- v3
ExprData == INSTANCE MCExpr WITH
        Size <- 3, Sources <- {}, Garbage <- {},
        toks <- v1, tree <- v2, phase <- v3, ex <- v4, out <- v5, simple <- v6, rounds <- v7,
        clear <- v8
GuardData == INSTANCE MCCppIncludeGuard WITH
        Files <- {}, Guard <- "G",
        file <- v1, source <- v2, pass <- v3
TokenData == INSTANCE MCTokens

AllFunctions == StmtData!MCSources
AllBlocks == TokenData!MCBlocks
AllPrototypes == TokenData!MCPrototypes
AllExpressions == ExprData!Trees
AllSemicolons == TokenData!MCSemicolons
AllIncludes == TokenData!MCIncludes
AllHeaders == GuardData!MCFiles

behind3 == <<part, vars, v4, v5, v6, v7, v8, v9, v10, v11>>
own == <<v1, v2, v3, v4, v5, v6, v7, v8, v9, v10, v11>>
all == <<part, vars, own>>

Idle == /\ file = <<>> /\ toks = <<>> /\ at = 0 /\ cur = 0 /\ phase = "" /\ decls = <<>>
        /\ after = 0 /\ pass = 0 /\ once = <<>>
Idle10 == v10 = 0 /\ v11 = 0
Idle8 == v8 = 0 /\ v9 = 0 /\ Idle10
Idle4 == v4 = 0 /\ v5 = 0 /\ v6 = 0 /\ v7 = 0 /\ Idle8

PassesInit ==
    \/ part = "forward" /\ Init /\ v1 = 0 /\ v2 = 0 /\ v3 = 0 /\ Idle4
    \/ /\ Idle
       /\ \/ part = "stmt" /\ S!Init /\ Idle4
          \/ part = "decl" /\ D!Init /\ Idle10
          \/ part = "prototype" /\ T!Init /\ Idle10
          \/ part = "expr" /\ E!Init /\ v9 = 0 /\ Idle10
          \/ part = "semi" /\ C!Init /\ v6 = 0 /\ v7 = 0 /\ Idle8
          \/ part = "include" /\ I!Init
          \/ part = "guard" /\ G!Init /\ Idle4

PassesNext ==
    \/ part = "forward" /\ Next /\ UNCHANGED <<part, own>>
    \/ part = "stmt" /\ S!Next /\ UNCHANGED behind3
    \/ part = "decl" /\ D!Next /\ UNCHANGED <<part, vars, v10, v11>>
    \/ part = "prototype" /\ T!Next /\ UNCHANGED <<part, vars, v10, v11>>
    \/ part = "expr" /\ E!Next /\ UNCHANGED <<part, vars, v9, v10, v11>>
    \/ part = "semi" /\ C!Next /\ UNCHANGED <<part, vars, v6, v7, v8, v9, v10, v11>>
    \/ part = "include" /\ I!Next /\ UNCHANGED <<part, vars>>
    \/ part = "guard" /\ G!Next /\ UNCHANGED behind3

PassesSpec == PassesInit /\ [][PassesNext]_all

-----------------------------------------------------------------------------
\* Removing and adding braces keeps the meaning of a function, makes braces
\* uniform and leaves those next to directives (simple-stmt.c).
StatementsKept ==
    part = "stmt" => S!TypeOK /\ S!MeaningOfOthers /\ S!BracesUniform /\ S!DirectivesKept

\* Splitting, sorting and joining declarations keeps every variable with its
\* type, what is initialized in place, and gathers plain variables of a type;
\* doing it again changes no declaration (simple-decl.c).
DeclarationsKept ==
    part = "decl" =>
        /\ D!TypeOK /\ D!WellFormedOtherwise /\ D!SameVariables /\ D!KeptInOrder
        /\ D!SemiFound /\ D!Stable /\ D!Together

\* Sorting forward declarations keeps declarations whole and in front of what
\* uses them, directives and blank lines where they are, and sorts neighbours
\* (simple-decl-forward.c).
ForwardsKept ==
    part = "forward" =>
        /\ TypeOK /\ Whole /\ DeclaredAhead /\ OnlyPrototypesCrossed /\ DirectivesStay
        /\ BlankLinesStay /\ Neighbours /\ Stable

\* What is taken from a prototype are names nothing refers to, of all of its
\* parameters or of none (simple-decl-proto.c).
PrototypesKept ==
    part = "prototype" => T!TypeOK /\ T!OnlyNames /\ T!UsedKept /\ T!AllOrNothing /\ T!Stable

\* An expression of C is parsed to its end and as C does, printed with its
\* tokens, and left with its meaning by the removal of parentheses (expr.c,
\* simple-expr-printf.c and parser-expr.c).
ExpressionsKept ==
    part = "expr" =>
        E!Accepted /\ E!Precedence /\ E!TokensOfC /\ E!MeaningOfRedundant /\ E!Settles

\* One semicolon is left where there were many, with their comments
\* (parser_semi(), parser_decl()).
SemicolonsKept == part = "semi" => C!OnePerLine /\ C!CommentsKept

\* Sorting includes loses none and leaks no reference, moves none across other
\* directives, blank lines that count or lines a diff does not cover, and is
\* done after once (cpp-include.c).
IncludesKept ==
    part = "include" =>
        /\ I!TypeOK /\ I!Complete /\ I!RefsExact /\ I!Barriers /\ I!LinesKept
        /\ I!BlocksSorted /\ I!UncoveredStay /\ I!Stable

\* Guards end up around all of a header but comments, conditionals staying
\* balanced and everything else what it was (cpp-include-guard.c).
GuardsAround == part = "guard" => G!Closed /\ G!RestKept /\ G!CommentsOutside

\* Statements and guards that were formatted are left as they are.
FormattedOnce ==
    [][(part = "stmt" => S!Settles) /\ (part = "guard" => G!Settles)]_all
=============================================================================
