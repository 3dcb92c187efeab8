----------------------------- MODULE BranchLinks -----------------------------
(***************************************************************************)
(* The life of the #if/#else/#endif links of one source file: clang_read() *)
(* attaches prefixes to tokens and links the branches among them, the      *)
(* tokens to be discarded are removed, clang_branch_purge() reverts what   *)
(* was never closed, and from then on the parser and the simplifications   *)
(* unlink branches, drop or move prefixes and remove tokens, in any order. *)
(***************************************************************************)
EXTENDS CppBranch

VARIABLES
    h,       \* the heap of CppBranch
    phase,   \* "read", "discard" or "parse"
    rd,      \* next position to read
    lo,      \* first position of cl->prefixes, the prefixes read ahead of
             \* the token they are to be attached to (lo..rd-1)
    lk,      \* next prefix to link, while below the last token read
    tk,      \* last token read
    stack    \* cl->branches, the innermost open branch last

readVars == <<phase, rd, lo, lk, tk, stack>>
vars == <<h, readVars>>

Init ==
    /\ h = EmptyHeap
    /\ phase = "read"
    /\ rd = 1 /\ lo = 1 /\ lk = 0 /\ tk = 0
    /\ stack = <<>>

AtEof == tk # 0 /\ h.kind[tk] = "eof"

Linked == lk = tk  \* no prefix of the last token is waiting to be linked

Reading == phase = "read" /\ Linked /\ ~AtEof

-----------------------------------------------------------------------------
(* clang_read(): prefixes, then a token taking them over, then one iteration *)
(* of the loop establishing links for each of them.                          *)

ReadPrefix(kind) ==
    /\ Reading
    /\ rd < MaxLen      \* the last position is kept for the end of file
    /\ h' = [h EXCEPT !.kind[rd] = kind]
    /\ rd' = rd + 1
    /\ UNCHANGED <<phase, lo, lk, tk, stack>>

\* Mutant: the token read is not stepped over.
ReadTokenAgain(kind) ==
    /\ Reading
    /\ rd < MaxLen
    /\ h' = [h EXCEPT !.kind[rd] = kind,
                      !.pfx[rd]  = [i \in 1..(rd - lo) |-> lo + i - 1],
                      !.refs[rd] = 1,
                      !.toks     = Append(@, rd)]
    /\ tk' = rd
    /\ lk' = lo
    /\ lo' = rd
    /\ UNCHANGED <<phase, rd, stack>>

ReadToken(kind) ==
    /\ Reading
    /\ rd <= MaxLen /\ (kind = "tok" => rd < MaxLen)
    /\ h' = [h EXCEPT !.kind[rd] = kind,
                      !.pfx[rd]  = [i \in 1..(rd - lo) |-> lo + i - 1],
                      !.refs[rd] = 1,
                      !.toks     = Append(@, rd)]
    /\ tk' = rd
    /\ lk' = lo
    /\ lo' = rd + 1
    /\ rd' = rd + 1
    /\ UNCHANGED <<phase, stack>>

Linking(kind) == phase = "read" /\ lk < tk /\ h.kind[lk] = kind

BranchEnter ==
    /\ Linking("if")
    /\ h' = SetParent(h, lk, tk)
    /\ stack' = Append(stack, lk)
    /\ lk' = lk + 1
    /\ UNCHANGED <<phase, rd, lo, tk>>

LinkToTop(g) == Link(SetParent(g, lk, tk), Last(stack), lk)

BranchLink ==
    /\ Linking("else")
    /\ IF stack = <<>>
       THEN h' = RevertAll(h, {lk}) /\ UNCHANGED stack
       ELSE h' = LinkToTop(h) /\ stack' = [stack EXCEPT ![Len(stack)] = lk]
    /\ lk' = lk + 1
    /\ UNCHANGED <<phase, rd, lo, tk>>

\* Mutant: the outermost open branch is closed.
BranchLeaveOutermost ==
    /\ Linking("endif")
    /\ IF stack = <<>>
       THEN h' = RevertAll(h, {lk}) /\ UNCHANGED stack
       ELSE /\ h' = LET g == Link(SetParent(h, lk, tk), Head(stack), lk)
                    IN UpdateFlagsOf(g, ParentsOf(g, Back(g, {lk})))
            /\ stack' = Tail(stack)
    /\ lk' = lk + 1
    /\ UNCHANGED <<phase, rd, lo, tk>>

BranchLeave ==
    /\ Linking("endif")
    /\ IF stack = <<>>
       THEN h' = RevertAll(h, {lk}) /\ UNCHANGED stack
       ELSE /\ h' = LET g == LinkToTop(h)
                    IN UpdateFlagsOf(g, ParentsOf(g, Back(g, {lk})))
            /\ stack' = Front(stack)
    /\ lk' = lk + 1
    /\ UNCHANGED <<phase, rd, lo, tk>>

SkipPrefix ==
    /\ Linking("cpp")
    /\ lk' = lk + 1
    /\ UNCHANGED <<h, phase, rd, lo, tk, stack>>

-----------------------------------------------------------------------------
(* The rest of lexer_tokenize().                                             *)

EndOfFile ==
    /\ phase = "read" /\ Linked /\ AtEof
    /\ phase' = "discard"
    /\ UNCHANGED <<h, rd, lo, lk, tk, stack>>

Removable(t) == InList(h, t) /\ h.kind[t] # "eof"

Discard(t) ==
    /\ phase = "discard"
    /\ Removable(t)
    /\ h' = LexerRemove(h, t)
    /\ UNCHANGED readVars

BranchPurge ==
    /\ phase = "discard"
    /\ h' = RevertAll(h, Back(h, ToSet(stack)))
    /\ stack' = <<>>
    /\ phase' = "parse"
    /\ UNCHANGED <<rd, lo, lk, tk>>

-----------------------------------------------------------------------------
(* What the parser and the simplifications do to the links.                  *)

UnlinkPrefix(p) ==
    /\ phase = "parse"
    /\ \E t \in ToSet(h.toks) : p \in ToSet(h.pfx[t])
    /\ h' = Unlink(h, p)
    /\ UNCHANGED readVars

\* Prefixes are only dropped once unlinked.
DropPrefix(t, p) ==
    /\ phase = "parse"
    /\ InList(h, t)
    /\ p \in ToSet(h.pfx[t])
    /\ h.kind[p] = "cpp"
    /\ h' = RemovePrefix(h, t, p)
    /\ UNCHANGED readVars

LexerMovePrefixes(src, dst) ==
    /\ phase = "parse"
    /\ InList(h, src) /\ InList(h, dst) /\ src # dst
    /\ h' = MovePrefixes(h, src, dst)
    /\ UNCHANGED readVars

RemoveToken(t) ==
    /\ phase = "parse"
    /\ Removable(t)
    /\ h' = LexerRemove(h, t)
    /\ UNCHANGED readVars

-----------------------------------------------------------------------------
Read ==
    \/ \E kind \in BranchKinds \cup {"cpp"} : ReadPrefix(kind)
    \/ \E kind \in {"tok", "eof"} : ReadToken(kind)
    \/ BranchEnter
    \/ BranchLink
    \/ BranchLeave
    \/ SkipPrefix
    \/ EndOfFile

Next ==
    \/ Read
    \/ \E t \in Pos : Discard(t)
    \/ BranchPurge
    \/ \E p \in Pos : UnlinkPrefix(p)
    \/ \E t, p \in Pos : DropPrefix(t, p)
    \/ \E src, dst \in Pos : LexerMovePrefixes(src, dst)
    \/ \E t \in Pos : RemoveToken(t)

Spec == Init /\ [][Next]_vars
-----------------------------------------------------------------------------
(* Properties.                                                               *)

\* Types of the state.
TypeOK ==
    /\ h \in Heap
    /\ phase \in {"read", "discard", "parse"}
    /\ rd \in 1..(MaxLen + 1) /\ lo \in 1..rd
    /\ tk \in 0..MaxLen /\ lk \in 0..tk
    /\ tk < rd
    /\ stack \in Seq(Pos)

LinksInOrder(g) ==
    \A p \in Id :
        /\ g.pv[p] # Null =>
              /\ g.pv[p] < p /\ g.nx[g.pv[p]] = p
              /\ g.kind[p] \in {"else", "endif"}
        /\ g.nx[p] # Null =>
              /\ p < g.nx[p] /\ g.pv[g.nx[p]] = p
              /\ g.kind[p] \in {"if", "else"}
        /\ g.par[p] # Null =>
              /\ g.kind[p] \in BranchKinds
              /\ g.kind[p] \in {"else", "endif"} => g.pv[p] # Null
        /\ g.par[p] = Null => g.pv[p] = Null /\ g.nx[p] = Null

BranchesLinked(g) ==
    \A p \in Id : g.kind[p] \in BranchKinds =>
        /\ g.par[p] # Null
        /\ g.kind[p] \in {"if", "else"} => g.nx[p] # Null

\* The links of clang_token are those of well formed chains whatever was
\* unlinked and in whichever order: pv and nx are inverse, run in file order,
\* a chain starts with its only #if and ends with its only #endif, and a
\* prefix out of any chain has no link left.
ChainsWellFormed ==
    LinksInOrder(h) /\ (phase = "parse" => BranchesLinked(h))

\* branch.parent is the token the prefix hangs of, and that token is still in
\* lx_tokens: clang_branch() and clang_recover() take src and dst from it.
ParentsHold ==
    \A p \in Id : h.par[p] # Null =>
        InList(h, h.par[p]) /\ p \in ToSet(h.pfx[h.par[p]])

\* Once the file is read, TOKEN_FLAG_BRANCH tells exactly the tokens at which
\* token_branch_find() succeeds: lexer_pop() halts at each of them, and
\* clang_branch() and clang_end_of_branch() never find nothing there.
FlagsExact ==
    phase = "parse" => \A t \in Id : t \in h.flag <=> HasBranch(h, t)

\* A token is referenced by lx_tokens and by each branch it is the parent of,
\* no more and no less: lexer_free() asserts one reference to be left once all
\* branches are unlinked.
RefsExact ==
    \A t \in Id :
        h.refs[t] = Cardinality({p \in Id : h.par[p] = t})
                    + (IF InList(h, t) THEN 1 ELSE 0)

Groups == {Back(h, {p}) : p \in {q \in Pos : h.kind[q] = "endif"
                                             /\ h.par[q] # Null}}

\* The links implement the conditional groups of the file: a branch is linked
\* to the innermost open group, and unlinking one takes it out of its group
\* and nothing else.
Grouping == INSTANCE Conditionals WITH
    open   <- [i \in DOMAIN stack |-> Back(h, {stack[i]})],
    closed <- Groups

\* The links are those groups at any time.
ImplementsConditionals == Grouping!Spec

\* Two groups never cross, however many branches were unlinked: a group lies
\* between two consecutive directives of any other one.
NoCrossing ==
    \A C, D \in Groups : C # D =>
        \A a, c \in C, b, d \in D : ~(a < b /\ b < c /\ c < d)
=============================================================================
