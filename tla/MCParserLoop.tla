---------------------------- MODULE MCParserLoop -----------------------------
(***************************************************************************)
(* Instances of ParserLoop, and the claims of the documentation that the   *)
(* code does not live up to.                                               *)
(***************************************************************************)
EXTENDS ParserLoop

Directives == BranchKinds
AllPrefixes == BranchKinds \cup {"cpp"}

\* On valid source all of the file is emitted, whatever branches it has.
\* DESIGN: while traversing a branch continuation nothing is emitted "until
\* unexamined tokens have been reached"; from there on everything should be.
BranchedOutput == recovered = 0 => Complete

\* The documents clang_recover() asks to remove are those of the tokens "we're
\* about to parse [...] again", in a file where no branch was taken.
RecoveredOutput == branched = 0 => Complete

\* The same after some branch was taken.
MixedOutput == ~shared /\ recovered = 1 => Complete

\* "While peeking, act as taking the current branch": the token peeked behind
\* the end of a branch does not belong to another alternative.
PeekTakesBranch ==
    Running => \A t \in h.flag :
        LET e == EndOfBranch(h, t)
        IN \A p \in ToSet(h.pfx[e]) :
               IsAlternative(h, p) => BranchFind(h, t) \in Back(h, {p})
=============================================================================
