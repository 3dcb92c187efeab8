--------------------------- MODULE Program_proofs ---------------------------
(***************************************************************************)
(* What is proved of the parts for all values of their constants holds of  *)
(* Program, whose behaviours are those of one part: its steps are steps of *)
(* the part chosen in the initial state, and preserve the part's inductive *)
(* invariant.                                                              *)
(***************************************************************************)
EXTENDS Program, Containers_proofs

-----------------------------------------------------------------------------
(* The containers.                                                         *)

LEMMA ContainersStart ==
  ASSUME ProgramInit
  PROVE  MapInv /\ Dict!Init /\ (part = "buffer" => BufferInv)
<1>1. Init /\ (part = "buffer" => BufferInit)
  BY DEF ProgramInit
<1>2. QED
  BY <1>1, MapInit, BufferStart

LEMMA MapMoves == [ProgramNext]_all => [Next]_vars
BY DEF ProgramNext, all, behind3, behind4, behind8

LEMMA BufferMoves ==
  ASSUME [ProgramNext]_all, part = "buffer" => BufferInv
  PROVE  (part = "buffer" => BufferInv)'
<1> SUFFICES ASSUME part' = "buffer"
             PROVE  BufferInv'
  OBVIOUS
<1>1. part = "buffer"
  BY DEF ProgramNext, all, own, behind3, behind4, behind8
<1>2. [BufferNext]_bufferVars
  BY <1>1 DEF ProgramNext, all
<1>3. QED
  BY <1>1, <1>2, BufferStep

\* In every behaviour of Program, the buffer holds what was appended, files are
\* read as a whole and the lines got are theirs; the list of the map links its
\* elements in the order of insertion, and each is found in its bucket.
THEOREM ContainersAlwaysExact ==
  ProgramSpec => []ContainersExact
<1> DEFINE I == MapInv /\ (part = "buffer" => BufferInv)
<1>1. ProgramInit => I
  BY ContainersStart
<1>2. I /\ [ProgramNext]_all => I'
  BY MapMoves, MapStep, BufferMoves
<1>3. I => ContainersExact
  BY MapPromises, BufferPromises DEF ContainersExact
<1>4. QED
  BY <1>1, <1>2, <1>3, PTL DEF ProgramSpec

\* In every behaviour of Program, the map is a dictionary: its list is the order of
\* insertion, and a walk meets the keys a dictionary's would, although the one just
\* met may be removed.
THEOREM MapAlwaysDictionary ==
  ProgramSpec => ImplementsDictionary
<1>1. ProgramInit => MapInv /\ Dict!Init
  BY ContainersStart
<1>2. MapInv /\ [ProgramNext]_all =>
         MapInv' /\ [Dict!Next]_<<KeysFrom(head), it # NoIterator, KeysFrom(it.nx)>>
  BY MapMoves, MapStep
<1>3. QED
  BY <1>1, <1>2, PTL DEF ProgramSpec, ImplementsDictionary, Dict!Spec

-----------------------------------------------------------------------------
(* The main program.                                                       *)

M1 == INSTANCE Knfmt_proofs WITH
        Procs <- {1}, Args <- {<<File1, File2>>, <<File2, File2>>}, MaxEdits <- 1,
        Modes <- {"print", "diff", "inplace"}, Texts <- {"raw", "neat", "bad"},
        dir <- v1, inodes <- v2, ps <- v3, edits <- v4
M2 == INSTANCE Knfmt_proofs WITH
        Procs <- {1, 2}, Args <- {<<File1>>}, MaxEdits <- 1,
        Modes <- {"inplace"}, Texts <- {"raw"},
        dir <- v1, inodes <- v2, ps <- v3, edits <- v4

\* The definitions of Knfmt are those Knfmt_proofs is about.
LEMMA OneNext ==
  K1!Next <=> M1!Next
BY DEF K1!Next, M1!Next, K1!NoText, M1!NoText, K1!Path, M1!Path, K1!At, M1!At, K1!Set,
       M1!Set, K1!Go, M1!Go, K1!Disk, M1!Disk, K1!Return, M1!Return, K1!Style, M1!Style,
       K1!NextFile, M1!NextFile, K1!Open, M1!Open, K1!Read, M1!Read, K1!Formatted,
       M1!Formatted, K1!Format, M1!Format, K1!PrintFile, M1!PrintFile, K1!Diff, M1!Diff,
       K1!Close, M1!Close, K1!Out, M1!Out, K1!OpenSrc, M1!OpenSrc, K1!Mkstemp, M1!Mkstemp,
       K1!Write, M1!Write, K1!Inherit, M1!Inherit, K1!Rename, M1!Rename, K1!Unlink,
       M1!Unlink, K1!Kill, M1!Kill, K1!Edit, M1!Edit, K1!Step, M1!Step, K1!Paths, M1!Paths

LEMMA OneSame ==
  /\ K1!KnfmtAssumption => M1!KnfmtAssumption
  /\ K1!Init <=> M1!Init
  /\ K1!vars = M1!vars
  /\ M1!FilesIntact => K1!FilesIntact
<1>1. /\ \A S : K1!IsFiniteSet(S) <=> M1!IsFiniteSet(S)
      /\ \A S : K1!Cardinality(S) = M1!Cardinality(S)
  BY DEF K1!IsFiniteSet, M1!IsFiniteSet, K1!Cardinality, M1!Cardinality
<1>2. K1!KnfmtAssumption => M1!KnfmtAssumption
  BY <1>1 DEF K1!KnfmtAssumption, M1!KnfmtAssumption, K1!Paths, M1!Paths
<1>3. K1!Init <=> M1!Init
  BY DEF K1!Init, M1!Init, K1!Paths, M1!Paths, K1!Start, M1!Start, K1!NoText, M1!NoText,
         K1!Cardinality, M1!Cardinality, K1!IsFiniteSet, M1!IsFiniteSet
<1>4. M1!FilesIntact => K1!FilesIntact
  BY <1>1 DEF K1!FilesIntact, M1!FilesIntact, K1!TypeOK, M1!TypeOK, K1!Intact, M1!Intact,
              K1!NoLitter, M1!NoLitter, K1!FdsClosed, M1!FdsClosed, K1!Success, M1!Success,
              K1!Temps, M1!Temps, K1!Stopped, M1!Stopped, K1!At, M1!At, K1!Paths, M1!Paths
<1>5. QED
  BY <1>2, <1>3, <1>4 DEF K1!vars, M1!vars

LEMMA OneStep ==
  ASSUME [ProgramNext]_all, part = "one" => M1!IInv
  PROVE  (part = "one" => M1!IInv)'
<1> SUFFICES ASSUME part' = "one"
             PROVE  M1!IInv'
  OBVIOUS
<1>1. part = "one"
  BY DEF ProgramNext, all, own, behind3, behind4, behind8
<1>2. K1!Next \/ UNCHANGED K1!vars
  BY <1>1 DEF ProgramNext, all, own, K1!vars
<1>3. [M1!Next]_(M1!vars)
  BY <1>2, OneNext DEF K1!vars, M1!vars
<1>4. M1!KnfmtAssumption
  BY PartsAssumption, OneSame
<1>5. QED
  BY <1>1, <1>3, <1>4, M1!NextOK

LEMMA TwoNext ==
  K2!Next <=> M2!Next
BY DEF K2!Next, M2!Next, K2!NoText, M2!NoText, K2!Path, M2!Path, K2!At, M2!At, K2!Set,
       M2!Set, K2!Go, M2!Go, K2!Disk, M2!Disk, K2!Return, M2!Return, K2!Style, M2!Style,
       K2!NextFile, M2!NextFile, K2!Open, M2!Open, K2!Read, M2!Read, K2!Formatted,
       M2!Formatted, K2!Format, M2!Format, K2!PrintFile, M2!PrintFile, K2!Diff, M2!Diff,
       K2!Close, M2!Close, K2!Out, M2!Out, K2!OpenSrc, M2!OpenSrc, K2!Mkstemp, M2!Mkstemp,
       K2!Write, M2!Write, K2!Inherit, M2!Inherit, K2!Rename, M2!Rename, K2!Unlink,
       M2!Unlink, K2!Kill, M2!Kill, K2!Edit, M2!Edit, K2!Step, M2!Step, K2!Paths, M2!Paths

LEMMA TwoSame ==
  /\ K2!KnfmtAssumption => M2!KnfmtAssumption
  /\ K2!Init <=> M2!Init
  /\ K2!vars = M2!vars
  /\ M2!FilesIntact => K2!FilesIntact
<1>1. /\ \A S : K2!IsFiniteSet(S) <=> M2!IsFiniteSet(S)
      /\ \A S : K2!Cardinality(S) = M2!Cardinality(S)
  BY DEF K2!IsFiniteSet, M2!IsFiniteSet, K2!Cardinality, M2!Cardinality
<1>2. K2!KnfmtAssumption => M2!KnfmtAssumption
  BY <1>1 DEF K2!KnfmtAssumption, M2!KnfmtAssumption, K2!Paths, M2!Paths
<1>3. K2!Init <=> M2!Init
  BY DEF K2!Init, M2!Init, K2!Paths, M2!Paths, K2!Start, M2!Start, K2!NoText, M2!NoText,
         K2!Cardinality, M2!Cardinality, K2!IsFiniteSet, M2!IsFiniteSet
<1>4. M2!FilesIntact => K2!FilesIntact
  BY <1>1 DEF K2!FilesIntact, M2!FilesIntact, K2!TypeOK, M2!TypeOK, K2!Intact, M2!Intact,
              K2!NoLitter, M2!NoLitter, K2!FdsClosed, M2!FdsClosed, K2!Success, M2!Success,
              K2!Temps, M2!Temps, K2!Stopped, M2!Stopped, K2!At, M2!At, K2!Paths, M2!Paths
<1>5. QED
  BY <1>2, <1>3, <1>4 DEF K2!vars, M2!vars

LEMMA TwoStep ==
  ASSUME [ProgramNext]_all, part = "two" => M2!IInv
  PROVE  (part = "two" => M2!IInv)'
<1> SUFFICES ASSUME part' = "two"
             PROVE  M2!IInv'
  OBVIOUS
<1>1. part = "two"
  BY DEF ProgramNext, all, own, behind3, behind4, behind8
<1>2. K2!Next \/ UNCHANGED K2!vars
  BY <1>1 DEF ProgramNext, all, own, K2!vars
<1>3. [M2!Next]_(M2!vars)
  BY <1>2, TwoNext DEF K2!vars, M2!vars
<1>4. M2!KnfmtAssumption
  BY PartsAssumption, TwoSame
<1>5. QED
  BY <1>1, <1>3, <1>4, M2!NextOK

\* In every behaviour of Program, files are whole and keep their permissions,
\* no temporary file is left by a process that is not using it, none is left
\* open, and success is true, also with two processes at the same file.
THEOREM FilesAlwaysIntact ==
  ProgramSpec => []FilesIntact
<1> DEFINE I == (part = "one" => M1!IInv) /\ (part = "two" => M2!IInv)
<1>1. M1!KnfmtAssumption /\ M2!KnfmtAssumption
  BY PartsAssumption, OneSame, TwoSame
<1>2. ASSUME ProgramInit
      PROVE  I
  <2>1. (part = "one" => M1!Init) /\ (part = "two" => M2!Init)
    BY <1>2, OneSame, TwoSame DEF ProgramInit
  <2>2. QED
    BY <1>1, <2>1, M1!InitOK, M2!InitOK
<1>3. ASSUME I, [ProgramNext]_all
      PROVE  I'
  BY <1>3, OneStep, TwoStep
<1>4. ASSUME I
      PROVE  FilesIntact
  <2>1. (part = "one" => M1!FilesIntact) /\ (part = "two" => M2!FilesIntact)
    BY <1>1, <1>4, M1!Sound, M2!Sound
  <2>2. QED
    BY <2>1, OneSame, TwoSame DEF FilesIntact
<1>5. QED
  BY <1>2, <1>3, <1>4, PTL DEF ProgramSpec

\* In every behaviour of Program, a file is replaced by formatted text of a process
\* editing in place only: the part of FilesReplaced that is not liveness.
THEOREM FilesOnlyReplaced ==
  ProgramSpec => [][(part = "one" => K1!Replaces) /\ (part = "two" => K2!Replaces)]_all
<1> DEFINE I == (part = "one" => M1!IInv) /\ (part = "two" => M2!IInv)
           R == (part = "one" => K1!Replaces) /\ (part = "two" => K2!Replaces)
<1>1. M1!KnfmtAssumption /\ M2!KnfmtAssumption
  BY PartsAssumption, OneSame, TwoSame
<1>2. ProgramInit => I
  <2>1. ASSUME ProgramInit
        PROVE  (part = "one" => M1!Init) /\ (part = "two" => M2!Init)
    BY <2>1, OneSame, TwoSame DEF ProgramInit
  <2>2. QED
    BY <1>1, <2>1, M1!InitOK, M2!InitOK
<1>3. I /\ [ProgramNext]_all => I'
  BY OneStep, TwoStep
<1>4. ASSUME part = "one", M1!IInv, ProgramNext
      PROVE  K1!Replaces \/ UNCHANGED all
  <2>1. K1!Next /\ UNCHANGED behind4
    BY <1>4 DEF ProgramNext
  <2>2. [M1!Next]_(M1!vars)
    BY <2>1, OneNext
  <2>3. [M1!Replaces]_(M1!vars)
    BY <1>1, <1>4, <2>2, M1!ReplacesOK
  <2>4. CASE M1!Replaces
    BY <2>4 DEF K1!Replaces, M1!Replaces, K1!Paths, M1!Paths, K1!At, M1!At, K1!Path, M1!Path
  <2>5. CASE UNCHANGED M1!vars
    BY <2>1, <2>5 DEF M1!vars, behind4, all, own
  <2>6. QED
    BY <2>3, <2>4, <2>5
<1>5. ASSUME part = "two", M2!IInv, ProgramNext
      PROVE  K2!Replaces \/ UNCHANGED all
  <2>1. K2!Next /\ UNCHANGED behind4
    BY <1>5 DEF ProgramNext
  <2>2. [M2!Next]_(M2!vars)
    BY <2>1, TwoNext
  <2>3. [M2!Replaces]_(M2!vars)
    BY <1>1, <1>5, <2>2, M2!ReplacesOK
  <2>4. CASE M2!Replaces
    BY <2>4 DEF K2!Replaces, M2!Replaces, K2!Paths, M2!Paths, K2!At, M2!At, K2!Path, M2!Path
  <2>5. CASE UNCHANGED M2!vars
    BY <2>1, <2>5 DEF M2!vars, behind4, all, own
  <2>6. QED
    BY <2>3, <2>4, <2>5
<1>6. I /\ [ProgramNext]_all => [R]_all
  BY <1>4, <1>5
<1>7. QED
  BY <1>2, <1>3, <1>6, PTL DEF ProgramSpec

-----------------------------------------------------------------------------
(* The gate of the passes.                                                 *)

MP == INSTANCE SimplePasses_proofs WITH
        MaxDepth <- 4, ps <- v1, enable <- v2, stack <- v3

LEMMA GateNext ==
  P!Next <=> MP!Next
BY DEF P!Next, MP!Next, P!Enter, MP!Enter, P!Within, MP!Within, P!Top, MP!Top, P!IsPass,
       MP!IsPass, P!Printing, MP!Printing, P!Leaves, MP!Leaves, P!Flags, MP!Flags,
       P!RootDecl, MP!RootDecl, P!Entered, MP!Entered, P!Exclusive, MP!Exclusive,
       P!Exceptions, MP!Exceptions, P!Passes, MP!Passes, P!Granted, MP!Granted,
       P!LeaveEarly, MP!LeaveEarly, P!LeavePass, MP!LeavePass, P!Return, MP!Return, P!Peek,
       MP!Peek, P!PeekDone, MP!PeekDone

LEMMA GateSame ==
  /\ P!DepthAssumption => MP!DepthAssumption
  /\ P!Init <=> MP!Init
  /\ MP!PassesGated => P!PassesGated
<1>1. P!DepthAssumption => MP!DepthAssumption
  BY DEF P!DepthAssumption, MP!DepthAssumption
<1>2. P!Init <=> MP!Init
  BY DEF P!Init, MP!Init, P!Idle, MP!Idle, P!Passes, MP!Passes
<1>3. MP!PassesGated => P!PassesGated
  BY DEF P!PassesGated, MP!PassesGated, P!TypeOK, MP!TypeOK, P!EnabledOnce, MP!EnabledOnce,
         P!LonersAlone, MP!LonersAlone, P!PeekIsReadOnly, MP!PeekIsReadOnly, P!AllLeft,
         MP!AllLeft, P!IgnoredAtRoot, MP!IgnoredAtRoot, P!Active, MP!Active, P!Loners,
         MP!Loners, P!Exceptions, MP!Exceptions, P!Passes, MP!Passes, P!IsPass, MP!IsPass,
         P!Frame, MP!Frame, P!PeekFrame, MP!PeekFrame
<1>4. QED
  BY <1>1, <1>2, <1>3

LEMMA GateStep ==
  ASSUME [ProgramNext]_all, part = "passes" => MP!IInv
  PROVE  (part = "passes" => MP!IInv)'
<1> SUFFICES ASSUME part' = "passes"
             PROVE  MP!IInv'
  OBVIOUS
<1>1. part = "passes"
  BY DEF ProgramNext, all, own, behind3, behind4, behind8
<1>2. P!Next \/ UNCHANGED P!vars
  BY <1>1 DEF ProgramNext, all, own, P!vars
<1>3. [MP!Next]_(MP!vars)
  BY <1>2, GateNext DEF P!vars, MP!vars
<1>4. MP!DepthAssumption
  BY PartsAssumption, GateSame
<1>5. QED
  BY <1>1, <1>3, <1>4, MP!NextOK

\* In every behaviour of Program, passes are gated however they are entered, left
\* early and peeked past.
THEOREM PassesAlwaysGated ==
  ProgramSpec => []PassesGated
<1>1. MP!DepthAssumption
  BY PartsAssumption, GateSame
<1>2. ProgramInit => (part = "passes" => MP!IInv)
  <2>1. ProgramInit /\ part = "passes" => MP!Init
    BY GateSame DEF ProgramInit
  <2>2. QED
    BY <1>1, <2>1, MP!InitOK
<1>3. (part = "passes" => MP!IInv) /\ [ProgramNext]_all => (part = "passes" => MP!IInv)'
  BY GateStep
<1>4. (part = "passes" => MP!IInv) => PassesGated
  <2>1. part = "passes" /\ MP!IInv => MP!PassesGated
    BY <1>1, MP!Gated
  <2>2. QED
    BY <2>1, GateSame DEF PassesGated
<1>5. QED
  BY <1>2, <1>3, <1>4, PTL DEF ProgramSpec

-----------------------------------------------------------------------------
(* The arena.                                                              *)

MA == INSTANCE Arena_proofs WITH
        Align <- 2, Poison <- 2, Header <- 2, FrameSize <- 10, Record <- 1,
        Sizes <- {0, 1, 3, 9}, MaxObjects <- 4, MaxScopes <- 2, GrowOuter <- FALSE,
        frames <- v1, scopes <- v2, refs <- v3, freed <- v4,
        objs <- v5, made <- v6, ran <- v7, state <- v8

LEMMA ArenaNext ==
  A!Next <=> MA!Next
BY DEF A!Next, MA!Next, A!ScopeEnter, MA!ScopeEnter, A!Valid, MA!Valid, A!AlignUp,
       MA!AlignUp, A!AlignAddress, MA!AlignAddress, A!Fits, MA!Fits, A!Push, MA!Push,
       A!NewFrame, MA!NewFrame, A!FrameFor, MA!FrameFor, A!Object, MA!Object, A!Allocate,
       MA!Allocate, A!Trap, MA!Trap, A!MayAllocate, MA!MayAllocate, A!Malloc, MA!Malloc,
       A!Strndup, MA!Strndup, A!Cleanup, MA!Cleanup, A!IsLast, MA!IsLast, A!Regrown,
       MA!Regrown, A!GrowsInPlace, MA!GrowsInPlace, A!IsRecord, MA!IsRecord, A!Realloc,
       MA!Realloc, A!CutBack, MA!CutBack, A!FramesLeft, MA!FramesLeft, A!ScopeLeave,
       MA!ScopeLeave, A!ArenaFree, MA!ArenaFree, A!Range, MA!Range, A!Last, MA!Last,
       A!Front, MA!Front

LEMMA ArenaSame ==
  /\ A!ArenaAssumption => MA!ArenaAssumption
  /\ A!Init <=> MA!Init
  /\ MA!ArenaSound => A!ArenaSound
<1>1. A!ArenaAssumption => MA!ArenaAssumption
  BY DEF A!ArenaAssumption, MA!ArenaAssumption
<1>2. A!Init <=> MA!Init
  BY DEF A!Init, MA!Init, A!NewFrame, MA!NewFrame, A!Push, MA!Push, A!AlignUp, MA!AlignUp,
         A!AlignAddress, MA!AlignAddress
<1>3. MA!ArenaSound => A!ArenaSound
  BY DEF A!ArenaSound, MA!ArenaSound, A!TypeOK, MA!TypeOK, A!LiveAllocated,
         MA!LiveAllocated, A!LiveDisjoint, MA!LiveDisjoint, A!ScopesNested, MA!ScopesNested,
         A!CleanupsOnce, MA!CleanupsOnce, A!NoError, MA!NoError, A!FrameOf, MA!FrameOf,
         A!Range, MA!Range
<1>4. QED
  BY <1>1, <1>2, <1>3

LEMMA ArenaStep ==
  ASSUME [ProgramNext]_all, part = "arena" => MA!IInv
  PROVE  (part = "arena" => MA!IInv)'
<1> SUFFICES ASSUME part' = "arena"
             PROVE  MA!IInv'
  OBVIOUS
<1>1. part = "arena"
  BY DEF ProgramNext, all, own, behind3, behind4, behind8
<1>2. A!Next \/ UNCHANGED A!vars
  BY <1>1 DEF ProgramNext, all, own, A!vars
<1>3. [MA!Next]_(MA!vars)
  BY <1>2, ArenaNext DEF A!vars, MA!vars
<1>4. MA!ArenaAssumption
  BY PartsAssumption, ArenaSame
<1>5. QED
  BY <1>1, <1>3, <1>4, MA!NextOK

\* In every behaviour of Program, what a scope of the arena holds is memory in use
\* that nobody shares, cleanups run once and allocations do not fail.
THEOREM ArenaAlwaysSound ==
  ProgramSpec => []ArenaSound
<1>1. MA!ArenaAssumption
  BY PartsAssumption, ArenaSame
<1>2. ProgramInit => (part = "arena" => MA!IInv)
  <2>1. ProgramInit /\ part = "arena" => MA!Init
    BY ArenaSame DEF ProgramInit
  <2>2. QED
    BY <1>1, <2>1, MA!InitOK
<1>3. (part = "arena" => MA!IInv) /\ [ProgramNext]_all => (part = "arena" => MA!IInv)'
  BY ArenaStep
<1>4. (part = "arena" => MA!IInv) => ArenaSound
  <2>1. part = "arena" /\ MA!IInv => MA!ArenaSound
    BY <1>1, MA!Sound
  <2>2. QED
    BY <2>1, ArenaSame DEF ArenaSound
<1>5. QED
  BY <1>2, <1>3, <1>4, PTL DEF ProgramSpec

\* In every behaviour of Program, leaving a scope gives back exactly what was taken
\* since it was entered.
THEOREM ArenaAlwaysRestores ==
  ProgramSpec => [][part = "arena" => A!Restores]_all
<1>1. MA!ArenaAssumption
  BY PartsAssumption, ArenaSame
<1>2. ProgramInit => (part = "arena" => MA!IInv)
  <2>1. ProgramInit /\ part = "arena" => MA!Init
    BY ArenaSame DEF ProgramInit
  <2>2. QED
    BY <1>1, <2>1, MA!InitOK
<1>3. (part = "arena" => MA!IInv) /\ [ProgramNext]_all => (part = "arena" => MA!IInv)'
  BY ArenaStep
<1>4. (part = "arena" => MA!IInv) /\ [ProgramNext]_all => [part = "arena" => A!Restores]_all
  <2> SUFFICES ASSUME part = "arena", MA!IInv, ProgramNext
               PROVE  A!Restores \/ UNCHANGED all
    OBVIOUS
  <2>1. A!Next /\ UNCHANGED behind8
    BY DEF ProgramNext
  <2>2. [MA!Next]_(MA!vars)
    BY <2>1, ArenaNext
  <2>3. [MA!Restores]_(MA!vars)
    BY <2>2, MA!RestoresOK
  <2>4. CASE MA!Restores
    BY <2>4 DEF A!Restores, MA!Restores, A!Last, MA!Last
  <2>5. CASE UNCHANGED MA!vars
    BY <2>1, <2>5 DEF MA!vars, behind8, all, own
  <2>6. QED
    BY <2>3, <2>4, <2>5
<1>5. QED
  BY <1>2, <1>3, <1>4, PTL DEF ProgramSpec

-----------------------------------------------------------------------------
(* The chunks of a diff.                                                   *)

MC == INSTANCE DiffChunks_proofs WITH
        MaxLine <- 5, MaxCount <- 4, MaxRead <- 9,
        files <- v1, sl <- v2, el <- v3, inHunk <- v4, status <- v5, due <- v6, lno <- v7,
        rows <- v8, added <- v9, read <- v10, marked <- v11

LEMMA ChunksNext ==
  C!Next <=> MC!Next
BY DEF C!Next, MC!Next, C!U, MC!U, C!DiffEnd, MC!DiffEnd, C!Opens, MC!Opens, C!MatchLine,
       MC!MatchLine, C!ReadRow, MC!ReadRow, C!ReadHunk, MC!ReadHunk, C!ReadPath,
       MC!ReadPath, C!Read, MC!Read, C!End, MC!End, C!Count, MC!Count, C!Writes, MC!Writes,
       C!Path, MC!Path, C!Hunk, MC!Hunk, C!Orphan, MC!Orphan, C!Row, MC!Row, C!NoNewline,
       MC!NoNewline, C!parser, MC!parser, C!env, MC!env, C!Omitted, MC!Omitted, C!Last,
       MC!Last

LEMMA ChunksSame ==
  /\ C!DiffAssumption => MC!DiffAssumption
  /\ C!Init <=> MC!Init
  /\ MC!ChunksExact => C!ChunksExact
<1>1. C!DiffAssumption => MC!DiffAssumption
  BY DEF C!DiffAssumption, MC!DiffAssumption
<1>2. C!Init <=> MC!Init
  BY DEF C!Init, MC!Init
<1>3. MC!ChunksExact => C!ChunksExact
  BY DEF C!ChunksExact, MC!ChunksExact, C!TypeOK, MC!TypeOK, C!AddedCovered,
         MC!AddedCovered, C!ChangesCovered, MC!ChangesCovered, C!Covered, MC!Covered,
         C!GetChunk, MC!GetChunk, C!ChunksOrdered, MC!ChunksOrdered, C!InStep, MC!InStep
<1>4. QED
  BY <1>1, <1>2, <1>3

LEMMA ChunksStep ==
  ASSUME [ProgramNext]_all, part = "chunks" => MC!IInv
  PROVE  (part = "chunks" => MC!IInv)'
<1> SUFFICES ASSUME part' = "chunks"
             PROVE  MC!IInv'
  OBVIOUS
<1>1. part = "chunks"
  BY DEF ProgramNext, all, own, behind3, behind4, behind8
<1>2. C!Next \/ UNCHANGED C!vars
  BY <1>1 DEF ProgramNext, all, own, C!vars, C!parser, C!env
<1>3. [MC!Next]_(MC!vars)
  BY <1>2, ChunksNext DEF C!vars, MC!vars, C!parser, MC!parser, C!env, MC!env
<1>4. MC!DiffAssumption
  BY PartsAssumption, ChunksSame
<1>5. QED
  BY <1>1, <1>3, <1>4, MC!NextOK

\* In every behaviour of Program, the chunks diff_parse() reads are the lines the
\* diff adds.
THEOREM ChunksAlwaysExact ==
  ProgramSpec => []ChunksExact
<1>1. MC!DiffAssumption
  BY PartsAssumption, ChunksSame
<1>2. ProgramInit => (part = "chunks" => MC!IInv)
  <2>1. ProgramInit /\ part = "chunks" => MC!Init
    BY ChunksSame DEF ProgramInit
  <2>2. QED
    BY <1>1, <2>1, MC!InitOK
<1>3. (part = "chunks" => MC!IInv) /\ [ProgramNext]_all => (part = "chunks" => MC!IInv)'
  BY ChunksStep
<1>4. (part = "chunks" => MC!IInv) => ChunksExact
  <2>1. part = "chunks" /\ MC!IInv => MC!ChunksExact
    BY <1>1, MC!ExactOK
  <2>2. QED
    BY <2>1, ChunksSame DEF ChunksExact
<1>5. QED
  BY <1>2, <1>3, <1>4, PTL DEF ProgramSpec
=============================================================================
