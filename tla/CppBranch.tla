------------------------------ MODULE CppBranch ------------------------------
(***************************************************************************)
(* The tokens of one source file and the preprocessor branches hanging of  *)
(* them, as the pure operators of clang.c and lexer.c that rewrite both.   *)
(*                                                                         *)
(* A source file is a sequence of positions 1..MaxLen, each holding a      *)
(* token or a prefix (comment or preprocessor directive); the number of a  *)
(* position plays the role of tk_off/tk_lno.  Prefixes are attached to the *)
(* token that follows them.  A prefix made by clang_branch_fold() out of   *)
(* the text starting at position p is numbered MaxLen + p.                 *)
(*                                                                         *)
(* The heap is one record:                                                 *)
(*   kind   tk_type as normalised by token_type_normalize(): "tok", "eof", *)
(*          "if", "else", "endif" or "cpp" (any other prefix); "none" is   *)
(*          a position not read yet                                        *)
(*   pv,nx  branch.pv and branch.nx of struct clang_token                  *)
(*   par    branch.parent of struct clang_token                            *)
(*   pfx    tk_prefixes of each token                                      *)
(*   flag   the tokens having TOKEN_FLAG_BRANCH                            *)
(*   refs   tk_refs of each token                                          *)
(*   toks   lx_tokens, the list of tokens                                  *)
(***************************************************************************)
EXTENDS Integers, Sequences, FiniteSets, SequencesExt

CONSTANT MaxLen  \* bound on the number of positions of the source file

ASSUME MaxLenAssumption == MaxLen \in Nat

Null == 0

Pos == 1..MaxLen        \* positions of the source file
Id  == 1..(2 * MaxLen)  \* positions and folded prefixes

BranchKinds == {"if", "else", "endif"}
Kinds == BranchKinds \cup {"none", "tok", "eof", "cpp"}

Heap ==
    [kind : [Id -> Kinds],
     pv   : [Id -> Id \cup {Null}],
     nx   : [Id -> Id \cup {Null}],
     par  : [Id -> Id \cup {Null}],
     pfx  : [Id -> Seq(Id)],
     flag : SUBSET Id,
     refs : [Id -> Int],
     toks : Seq(Id)]

EmptyHeap ==
    [kind |-> [i \in Id |-> "none"],
     pv   |-> [i \in Id |-> Null],
     nx   |-> [i \in Id |-> Null],
     par  |-> [i \in Id |-> Null],
     pfx  |-> [i \in Id |-> <<>>],
     flag |-> {},
     refs |-> [i \in Id |-> 0],
     toks |-> <<>>]

-----------------------------------------------------------------------------
(* token_branch_find(): the first #else hanging of t that belongs to a       *)
(* chain coming from another token; the result is the link it comes from.    *)

IsAlternative(h, p) ==
    /\ h.kind[p] = "else"
    /\ h.pv[p] # Null
    /\ h.par[p] # h.par[h.pv[p]]

HasBranch(h, t) == \E p \in ToSet(h.pfx[t]) : IsAlternative(h, p)

BranchFind(h, t) ==
    LET alts  == {i \in DOMAIN h.pfx[t] : IsAlternative(h, h.pfx[t][i])}
        first == CHOOSE i \in alts : \A j \in alts : i <= j
    IN IF alts = {} THEN Null ELSE h.pv[h.pfx[t][first]]

UpdateFlags(h, t) ==
    [h EXCEPT !.flag = IF HasBranch(h, t) THEN @ \cup {t} ELSE @ \ {t}]

UpdateFlagsOf(h, T) ==
    [h EXCEPT !.flag = (@ \ T) \cup {t \in T : HasBranch(h, t)}]

Ref(h, t)  == [h EXCEPT !.refs[t] = @ + 1]
Rele(h, t) == [h EXCEPT !.refs[t] = @ - 1]

-----------------------------------------------------------------------------
(* Making and breaking the links of a chain.                                 *)

\* Mutant: the former parent is kept referenced.
SetParentWithoutRef(h, p, t) == [h EXCEPT !.par[p] = t]

SetParent(h, p, t) ==
    LET g == IF h.par[p] # Null THEN Rele(h, h.par[p]) ELSE h
    IN [Ref(g, t) EXCEPT !.par[p] = t]

Link(h, src, dst) == [h EXCEPT !.nx[src] = dst, !.pv[dst] = src]

Exhaust(h, p) ==
    LET t == h.par[p]
        g == [h EXCEPT !.kind[p] = "cpp", !.pv[p] = Null, !.nx[p] = Null]
    IN [Rele(UpdateFlags(g, t), t) EXCEPT !.par[p] = Null]

\* Mutant: the flag of the alternative turned into an #if is not updated.
UnlinkIfStaleFlag(h, p) ==
    LET nx == h.nx[p]
        g  == IF h.kind[nx] = "endif"
              THEN Exhaust(h, nx)
              ELSE [h EXCEPT !.pv[nx] = Null, !.kind[nx] = "if"]
    IN Exhaust(g, p)

UnlinkIf(h, p) ==
    LET nx == h.nx[p]
        g  == IF h.kind[nx] = "endif"
              THEN Exhaust(h, nx)
              ELSE UpdateFlags([h EXCEPT !.pv[nx] = Null, !.kind[nx] = "if"],
                               h.par[nx])
    IN Exhaust(g, p)

\* Mutant: only one of the two neighbours is told.
UnlinkElseOneWay(h, p) ==
    LET g == [h EXCEPT !.nx[h.pv[p]] = h.nx[p]]
    IN Exhaust(UpdateFlags(g, h.par[h.nx[p]]), p)

UnlinkElse(h, p) ==
    LET pv == h.pv[p]
        nx == h.nx[p]
        g  == [h EXCEPT !.nx[pv] = nx, !.pv[nx] = pv]
    IN Exhaust(UpdateFlags(UpdateFlags(g, h.par[pv]), h.par[nx]), p)

UnlinkEndif(h, p) ==
    LET pv == h.pv[p]
        g  == IF h.kind[pv] = "if"
              THEN Exhaust(h, pv)
              ELSE UpdateFlags([h EXCEPT !.nx[pv] = Null, !.kind[pv] = "endif"],
                               h.par[pv])
    IN Exhaust(g, p)

\* Mutant: an #if is left linked.
UnlinkButIf(h, p) ==
    CASE h.kind[p] = "else"  -> UnlinkElse(h, p)
      [] h.kind[p] = "endif" -> UnlinkEndif(h, p)
      [] OTHER               -> h

\* clang_token_branch_unlink(): nothing happens to a prefix out of any chain.
Unlink(h, p) ==
    CASE h.kind[p] = "if"    -> UnlinkIf(h, p)
      [] h.kind[p] = "else"  -> UnlinkElse(h, p)
      [] h.kind[p] = "endif" -> UnlinkEndif(h, p)
      [] OTHER               -> h

-----------------------------------------------------------------------------
(* Chains by the walks the code does along pv: the least set holding S that  *)
(* is closed under pv.                                                       *)

ClosedUnderPv(h, C) == \A q \in C : h.pv[q] # Null => h.pv[q] \in C

Back(h, S) ==
    LET closures == {C \in SUBSET Pos : S \subseteq C /\ ClosedUnderPv(h, C)}
    IN {p \in Pos : \A C \in closures : p \in C}

\* Mutant: the walk is done along pv, to the #if.
StartOfBranch(h, t) ==
    LET if == CHOOSE p \in Pos : h.kind[p] = "if"
                                 /\ p \in Back(h, {BranchFind(h, t)})
    IN h.par[if]

\* clang_end_of_branch(): where the chain of the alternative in front of t ends.
EndOfBranch(h, t) ==
    LET endif == CHOOSE p \in Pos : h.kind[p] = "endif"
                                    /\ BranchFind(h, t) \in Back(h, {p})
    IN h.par[endif]

ParentsOf(h, S) == {h.par[p] : p \in S} \ {Null}

\* token_branch_revert() of every prefix of S.
RevertAll(h, S) ==
    LET g == [h EXCEPT
        !.kind = [p \in Id |-> IF p \in S THEN "cpp" ELSE @[p]],
        !.pv   = [p \in Id |-> IF p \in S THEN Null ELSE @[p]],
        !.nx   = [p \in Id |-> IF p \in S THEN Null ELSE @[p]],
        !.par  = [p \in Id |-> IF p \in S THEN Null ELSE @[p]],
        !.refs = [t \in Id |-> @[t] - Cardinality({p \in S : h.par[p] = t})]]
    IN UpdateFlagsOf(g, ParentsOf(h, S))

-----------------------------------------------------------------------------
(* The list of tokens.                                                       *)

InList(h, t) == t \in ToSet(h.toks)

IndexOf(s, e) == CHOOSE i \in DOMAIN s : s[i] = e

Index(h, t) == IndexOf(h.toks, t)

TokenNext(h, t) ==
    IF InList(h, t) /\ Index(h, t) < Len(h.toks)
    THEN h.toks[Index(h, t) + 1] ELSE Null

TokenPrev(h, t) ==
    IF InList(h, t) /\ Index(h, t) > 1 THEN h.toks[Index(h, t) - 1] ELSE Null

\* Mutant: the branches moved keep their parent.
MoveWithoutParent(h, n, src, dst) ==
    LET kept == SubSeq(h.pfx[src], n + 1, Len(h.pfx[src]))
    IN [h EXCEPT !.pfx = [h.pfx EXCEPT
           ![dst] = SubSeq(h.pfx[src], 1, n) \o @, ![src] = kept]]

\* token_move_prefix() of the first n prefixes of src, from the last of them to
\* the first: they get to the head of dst in order, and the branches among
\* them get a new parent.
MoveFirstPrefixes(h, n, src, dst) ==
    LET moved    == SubSeq(h.pfx[src], 1, n)
        kept     == SubSeq(h.pfx[src], n + 1, Len(h.pfx[src]))
        branches == {p \in ToSet(moved) : h.kind[p] \in BranchKinds}
        g == [h EXCEPT
            !.pfx  = [h.pfx EXCEPT ![dst] = moved \o @, ![src] = kept],
            !.par  = [p \in Id |-> IF p \in branches THEN dst ELSE h.par[p]],
            !.refs = [h.refs EXCEPT
                ![dst] = @ + Cardinality(branches),
                ![src] = @ - Cardinality({p \in branches : h.par[p] = src})]]
    IN IF branches = {} THEN g ELSE UpdateFlagsOf(g, {src, dst})

\* clang_token_move_prefixes()
MovePrefixes(h, src, dst) == MoveFirstPrefixes(h, Len(h.pfx[src]), src, dst)

\* lexer_remove(), without the cursor.
LexerRemove(h, t) ==
    LET g == MovePrefixes(h, t, TokenNext(h, t))
    IN Rele([g EXCEPT !.toks = RemoveAt(@, Index(h, t))], t)

\* token_list_remove() of the prefix p of t.
RemovePrefix(h, t, p) == [h EXCEPT !.pfx[t] = RemoveAt(@, IndexOf(@, p))]
=============================================================================
