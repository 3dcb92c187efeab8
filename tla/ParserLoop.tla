----------------------------- MODULE ParserLoop ------------------------------
(***************************************************************************)
(* parser_exec() over a file having preprocessor branches.                 *)
(*                                                                         *)
(* The file is read and linked as in BranchLinks.  The parser then takes   *)
(* the tokens one by one and emits a document for each; the grammar is     *)
(* abstracted to a choice: a unit (declaration, statement, function) may   *)
(* end well or be invalid after any token.  The lexer halts in front of an *)
(* alternative (#else) of a branch; clang_branch() then removes the        *)
(* alternative already emitted, rewinds to the last stamped token and      *)
(* parses the next alternative as if it was the only one, emission being   *)
(* muted until it is reached.  On invalid source, clang_recover() folds an *)
(* alternative into a single verbatim prefix and rewinds.                  *)
(***************************************************************************)
EXTENDS BranchLinks

CONSTANT PrefixKinds  \* kinds of prefixes to be found in the file

ASSUME PrefixKindsAssumption == PrefixKinds \subseteq BranchKinds \cup {"cpp"}

VARIABLES
    pc,       \* "read", "loop", "unit", "done", "error" or "freed"
    st,       \* lx_st.st_tk, the last token consumed or Null
    unmute,   \* pr_token.unmute
    stamps,   \* cl->stamps
    docs,     \* the documents below the root, each a sequence of items
    cover,    \* last position covered by the text of a prefix
    shared,    \* whether two alternatives started at the same token of the
               \* file (history)
    branched,  \* times clang_branch() succeeded, up to Many (history)
    recovered  \* times clang_recover() succeeded, up to Many (history)

parseVars == <<pc, st, unmute, stamps, docs, cover, shared, branched, recovered>>
loopVars == <<vars, parseVars>>

Many == 2  \* bound of the history counters

CountTo(n) == IF n = Many THEN Many ELSE n + 1

LoopInit ==
    /\ Init
    /\ pc = "read"
    /\ st = Null
    /\ unmute = Null
    /\ stamps = <<>>
    /\ docs = <<>>
    /\ cover = [i \in Id |-> i]
    /\ shared = FALSE
    /\ branched = 0 /\ recovered = 0

ReadFile ==
    /\ \/ \E kind \in PrefixKinds : ReadPrefix(kind)
       \/ \E kind \in {"tok", "eof"} : ReadToken(kind)
       \/ BranchEnter \/ BranchLink \/ BranchLeave \/ SkipPrefix \/ EndOfFile
    /\ UNCHANGED parseVars

StartParsing ==
    /\ BranchPurge
    /\ pc' = "loop"
    /\ shared' = \E t \in ToSet(h'.toks) :
           Cardinality({p \in ToSet(h'.pfx[t]) : IsAlternative(h', p)}) > 1
    /\ UNCHANGED <<st, unmute, stamps, docs, cover, branched, recovered>>

-----------------------------------------------------------------------------
(* lexer_pop() while not peeking.                                            *)

IsBranch == st # Null /\ st \in h.flag

Upcoming ==
    IF st = Null THEN Head(h.toks)
    ELSE IF h.kind[st] = "eof" THEN st
    ELSE TokenNext(h, st)

\* The cursor has been left on a branch, or is about to be.
Halts ==
    /\ st # Null
    /\ h.kind[st] # "eof"
    /\ IsBranch \/ Upcoming \in h.flag

AfterHalt == IF IsBranch THEN st ELSE Upcoming

-----------------------------------------------------------------------------
(* parser_doc_token(): an item <<lo, hi>> is the source text of positions    *)
(* lo..hi, an item <<0, n>> a DOC_MUTE.                                      *)

Mute(n) == <<0, n>>

DocToken(t) ==
    LET unmuted == IF t = unmute THEN <<Mute(-1)>> ELSE <<>>
        text(p) == <<IF p > MaxLen THEN p - MaxLen ELSE p, cover[p]>>
        prefixes == [i \in DOMAIN h.pfx[t] |-> text(h.pfx[t][i])]
        nx == TokenNext(h, t)
        muted == IF nx # Null /\ nx \in h.flag THEN <<Mute(1)>> ELSE <<>>
    IN unmuted \o prefixes \o <<text(t)>> \o muted

EmitInto(ds, t) == [ds EXCEPT ![Len(ds)] = @ \o DocToken(t)]

-----------------------------------------------------------------------------
(* One iteration of the loop of parser_exec().                               *)

\* lexer_if(LEXER_EOF): the end of file is emitted when it has prefixes.
ParseEof ==
    /\ pc = "loop"
    /\ ~Halts /\ h.kind[Upcoming] = "eof"
    /\ st' = Upcoming
    /\ docs' = IF h.pfx[Upcoming] = <<>> THEN docs
               ELSE Append(docs, DocToken(Upcoming))
    /\ unmute' = IF h.pfx[Upcoming] # <<>> /\ Upcoming = unmute
                 THEN Null ELSE unmute
    /\ pc' = "done"
    /\ UNCHANGED <<vars, stamps, cover, shared, branched, recovered>>

\* Otherwise a document is allocated and parser_root() called.  The lexer
\* state is restored unless the lexer halted.
EnterUnit ==
    /\ pc = "loop"
    /\ Halts \/ h.kind[Upcoming] # "eof"
    /\ st' = IF Halts THEN AfterHalt ELSE st
    /\ docs' = Append(docs, <<>>)
    /\ pc' = "unit"
    /\ UNCHANGED <<vars, unmute, stamps, cover, shared, branched, recovered>>

\* Mutant: the token to unmute at is not forgotten once reached.
ConsumeKeepsUnmute ==
    /\ pc = "unit"
    /\ ~Halts /\ h.kind[Upcoming] # "eof"
    /\ st' = Upcoming
    /\ docs' = EmitInto(docs, Upcoming)
    /\ UNCHANGED <<vars, pc, unmute, stamps, cover, shared, branched, recovered>>

Consume ==
    /\ pc = "unit"
    /\ ~Halts /\ h.kind[Upcoming] # "eof"
    /\ st' = Upcoming
    /\ docs' = EmitInto(docs, Upcoming)
    /\ unmute' = IF Upcoming = unmute THEN Null ELSE unmute
    /\ UNCHANGED <<vars, pc, stamps, cover, shared, branched, recovered>>

Halt ==
    /\ pc = "unit"
    /\ Halts /\ ~IsBranch
    /\ st' = AfterHalt
    /\ UNCHANGED <<vars, pc, unmute, stamps, docs, cover, shared, branched, recovered>>

\* parser_root() returned GOOD: clang_stamp().
Good ==
    /\ pc = "unit"
    /\ ~IsBranch
    /\ Last(docs) # <<>>
    /\ stamps' = Append(stamps, st)
    /\ h' = Ref(h, st)
    /\ pc' = "loop"
    /\ UNCHANGED <<readVars, st, unmute, docs, cover, shared, branched, recovered>>

-----------------------------------------------------------------------------
(* parser_root() returned BRCH: clang_branch().                              *)

\* Mutant: the prefixes are dropped still linked.
RemoveWithLinks(g, t) == LexerRemove([g EXCEPT !.pfx[t] = <<>>], t)

UnlinkPrefixes(g, t) == FoldLeft(Unlink, g, g.pfx[t])

\* remove_token(): the prefixes are unlinked and dropped with their token.
RemoveWithPrefixes(g, t) ==
    LexerRemove([UnlinkPrefixes(g, t) EXCEPT !.pfx[t] = <<>>], t)

\* The tokens from src up to, not including, dst.
RemoveRange(g, src, dst) ==
    FoldLeft(RemoveWithPrefixes, g,
             SubSeq(g.toks, Index(g, src), Index(g, dst) - 1))

\* Mutant: stamps whose token was removed are not skipped.
LastStampEver(g, limit) ==
    LET ok == {i \in DOMAIN stamps : stamps[i] < limit}
    IN IF ok = {} THEN Null ELSE stamps[Max(ok)]

\* The last stamp still in the list and before limit, or Null.
LastStamp(g, limit) ==
    LET ok == {i \in DOMAIN stamps : InList(g, stamps[i]) /\ stamps[i] < limit}
    IN IF ok = {} THEN Null ELSE stamps[Max(ok)]

NoLimit == MaxLen + 1  \* beyond every token

\* Mutant: the document stays muted.
BranchWithoutUnmute ==
    /\ pc = "unit"
    /\ IsBranch
    /\ LET cpp_src == BranchFind(h, st)
           g == RemoveRange(Unlink(h, cpp_src), h.par[cpp_src],
                            h.par[h.nx[cpp_src]])
       IN h' = g /\ st' = LastStamp(g, NoLimit)
    /\ pc' = "loop"
    /\ branched' = CountTo(branched)
    /\ UNCHANGED <<readVars, unmute, stamps, docs, cover, shared, recovered>>

\* lexer_seek_after() of a stamp, or lexer_seek() to the first token: the
\* cursor ends up on the stamp, or before the first token.
Branch ==
    /\ pc = "unit"
    /\ IsBranch
    /\ LET cpp_src == BranchFind(h, st)
           src == h.par[cpp_src]
           dst == h.par[h.nx[cpp_src]]
           g == RemoveRange(Unlink(h, cpp_src), src, dst)
       IN /\ h' = g
          /\ unmute' = dst
          /\ st' = LastStamp(g, NoLimit)
    /\ pc' = "loop"
    /\ branched' = CountTo(branched)
    /\ UNCHANGED <<readVars, stamps, docs, cover, shared, recovered>>

-----------------------------------------------------------------------------
(* parser_root() returned FAIL: clang_recover().                             *)

\* The branch prefix p stands for: #endif means the alternative it closes.
BranchOf(p) == IF h.kind[p] = "endif" THEN h.pv[p] ELSE p

\* A branch between two prefixes of the same token covers nothing.
Foldable(p) ==
    /\ h.kind[p] \in BranchKinds
    /\ h.par[BranchOf(p)] # h.par[h.nx[BranchOf(p)]]

\* clang_recover_find_branch(): the tokens examined, starting with t, up to
\* but not including the threshold.
Backward(t, threshold) ==
    LET i == Index(h, t)
        stop == IF threshold # Null /\ Index(h, threshold) < i
                THEN Index(h, threshold) ELSE 0
    IN Reverse(SubSeq(h.toks, stop + 1, i))

Forward(t, threshold) ==
    LET i == Index(h, t)
        stop == IF threshold # Null /\ i < Index(h, threshold)
                THEN Index(h, threshold) ELSE Len(h.toks) + 1
    IN SubSeq(h.toks, i, stop - 1)

\* The last foldable prefix of the first token having one, or Null.
FirstFoldable(tokens) ==
    LET foldable(t) == {i \in DOMAIN h.pfx[t] : Foldable(h.pfx[t][i])}
        some == {i \in DOMAIN tokens : foldable(tokens[i]) # {}}
        first == tokens[Min(some)]
    IN IF some = {} THEN Null ELSE BranchOf(h.pfx[first][Max(foldable(first))])

RecoverFindBranch ==
    LET back == IF st = Null THEN Head(h.toks) ELSE st
        threshold == LastStamp(h, NoLimit)
        found == FirstFoldable(Backward(back, threshold))
    IN IF found # Null THEN found
       ELSE FirstFoldable(Forward(back, threshold))

\* Mutant: nothing is folded.
BranchFoldNothing(cpp_src) == h

\* clang_branch_fold(): the text from cpp_src to cpp_dst becomes a prefix of
\* dst, replacing the prefixes of dst up to cpp_dst; the prefixes of src in
\* front of cpp_src are kept in front of it.
BranchFold(cpp_src) ==
    LET src == h.par[cpp_src]
        cpp_dst == h.nx[cpp_src]
        dst == h.par[cpp_dst]
        folded == MaxLen + cpp_src
        n == IndexOf(h.pfx[dst], cpp_dst)
        g1 == FoldLeft(Unlink, h, SubSeq(h.pfx[dst], 1, n))
        g2 == [g1 EXCEPT !.kind[folded] = "cpp",
                         !.pfx[dst] = <<folded>> \o SubSeq(@, n + 1, Len(@))]
        before == IndexOf(h.pfx[src], cpp_src) - 1
        g3 == MoveFirstPrefixes(g2, before, src, dst)
    IN RemoveRange(g3, src, dst)

\* The index returned by clang_recover(): the number of documents to remove.
RecoverDocs(cpp_src) ==
    LET ok == {i \in DOMAIN stamps : InList(h, stamps[i])
                                     /\ stamps[i] < cpp_src}
    IN 1 + Len(stamps) - (IF ok = {} THEN 0 ELSE Max(ok))

\* doc_remove_tail() does nothing once the root is empty.
RemoveTail(n) == SubSeq(docs, 1, Len(docs) - n)

Recover ==
    /\ pc = "unit"
    /\ ~IsBranch
    /\ LET cpp_src == RecoverFindBranch IN
       /\ cpp_src # Null
       /\ h' = BranchFold(cpp_src)
       /\ unmute' = h.par[h.nx[cpp_src]]
       /\ cover' = [cover EXCEPT ![MaxLen + cpp_src] = cover[h.nx[cpp_src]]]
       /\ docs' = RemoveTail(RecoverDocs(cpp_src))
       /\ st' = LastStamp(BranchFold(cpp_src), cpp_src)
    /\ pc' = "loop"
    /\ recovered' = CountTo(recovered)
    /\ UNCHANGED <<readVars, stamps, shared, branched>>

Fail ==
    /\ pc = "unit"
    /\ ~IsBranch
    /\ RecoverFindBranch = Null
    /\ pc' = "error"
    /\ UNCHANGED <<vars, st, unmute, stamps, docs, cover, shared, branched, recovered>>

-----------------------------------------------------------------------------
(* lexer_free(): clang_before_free() unlinks every branch and releases the   *)
(* stamps.                                                                   *)

\* Mutant: the stamps are not released.
FreeButStamps ==
    /\ pc \in {"done", "error"}
    /\ h' = FoldLeft(UnlinkPrefixes, h, h.toks)
    /\ stamps' = <<>>
    /\ pc' = "freed"
    /\ UNCHANGED <<readVars, st, unmute, docs, cover, shared, branched, recovered>>

Free ==
    /\ pc \in {"done", "error"}
    /\ h' = FoldLeft(Rele, FoldLeft(UnlinkPrefixes, h, h.toks), stamps)
    /\ stamps' = <<>>
    /\ pc' = "freed"
    /\ UNCHANGED <<readVars, st, unmute, docs, cover, shared, branched, recovered>>

LoopNext ==
    \/ ReadFile
    \/ StartParsing
    \/ ParseEof
    \/ EnterUnit
    \/ Consume
    \/ Halt
    \/ Good
    \/ Branch
    \/ Recover
    \/ Fail
    \/ Free
    \/ pc = "freed" /\ UNCHANGED loopVars

\* A single thread that never waits takes its next step as long as there is
\* one: weak fairness of LoopNext, every state but the last one having a step
\* (no run deadlocks).
Fairness == []<>(pc = "freed") \/ []<><<LoopNext>>_loopVars

LoopSpec == LoopInit /\ [][LoopNext]_loopVars /\ Fairness

-----------------------------------------------------------------------------
(* doc_exec(): the text of the documents, less what is muted.                *)

ExecItem(state, item) ==
    IF item[1] # 0
    THEN IF state.mute = 0
         THEN [state EXCEPT !.out = @ \o [i \in 1..(item[2] - item[1] + 1) |->
                                             item[1] + i - 1]]
         ELSE state
    ELSE IF item[2] > 0 \/ state.mute >= -item[2]
         THEN [state EXCEPT !.mute = @ + item[2]]
         ELSE state

ExecDoc(state, doc) == FoldLeft(ExecItem, state, doc)

Exec == FoldLeft(ExecDoc, [mute |-> 0, out |-> <<>>], docs)

SourceText == [i \in 1..(tk - 1) |-> i]

\* The end of file has no text.
Output ==
    LET out == Exec.out
    IN IF out # <<>> /\ Last(out) = tk THEN Front(out) ELSE out

-----------------------------------------------------------------------------
(* Properties.                                                               *)

Running == pc \in {"loop", "unit"}

\* The links of BranchLinks hold through everything the loop does: branches are
\* linked in order and for good, their parents are in the list, and the flags
\* lexer_pop() halts at tell them.
LinksHold == ChainsWellFormed /\ ParentsHold /\ FlagsExact

Complete == pc = "done" => Output = SourceText

\* Whatever branches were taken and wherever units end, every line of the file
\* is emitted once and in order, in spite of the tokens emitted again after
\* each rewind and of those removed while muted.  Holds as long as no two
\* alternatives start at the same token and the source is valid, or needs a
\* single clang_recover() and no clang_branch(): see MCParserLoop for the rest.
OutputComplete ==
    ~shared /\ (recovered = 0 \/ (branched = 0 /\ recovered = 1)) => Complete

\* The token emission is to be unmuted at is neither gone nor already behind:
\* parser_doc_token() compares it by address, a raw pointer without reference,
\* and the rest of the file is lost if it is never met.
UnmuteAhead ==
    unmute # Null /\ Running =>
        /\ InList(h, unmute)
        /\ st # Null => \/ Index(h, st) < Index(h, unmute)
                        \/ IsBranch /\ st = unmute

\* The lexer never stands on a removed token: token_next() of one is NULL, and
\* the stamps it is sent back to may have been removed in the meantime.
CursorInList == Running /\ st # Null => InList(h, st)

\* lexer_pop() never goes backwards when it crosses a branch while peeking, or
\* the loops that peek until some token would not end.
PeekForward ==
    Running => \A t \in h.flag : Index(h, t) <= Index(h, EndOfBranch(h, t))

\* lexer_free() finds every token of the list with its last reference, and the
\* tokens removed before have none: nothing leaks and nothing is freed twice.
Freed ==
    pc = "freed" =>
        \A t \in Pos : h.refs[t] = IF InList(h, t) THEN 1 ELSE 0

LinkedPrefixes == {p \in Id : h.par[p] # Null}

Rewinding == pc = "unit" /\ pc' = "loop" /\ stamps' = stamps

\* Each time parser_exec() starts over after clang_branch() or clang_recover(),
\* some branch is gone for good and none is back.
RewindsConsumeBranches ==
    [][Rewinding => LinkedPrefixes' \subseteq LinkedPrefixes
                    /\ LinkedPrefixes' # LinkedPrefixes]_loopVars

\* However often it rewinds, parser_exec() gets to the end or gives up.
Terminates == <>(pc = "freed")
=============================================================================
