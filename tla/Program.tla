------------------------------ MODULE Program ------------------------------
(***************************************************************************)
(* What is around the formatting: the main program (Knfmt), the lines it   *)
(* is told to format (DiffChunks), the gate of the passes it enables       *)
(* (SimplePasses), and the memory and containers all rest on, used the way *)
(* their callers may: the arena (Arena), the buffer (Buffer) and the map   *)
(* (HashMap).  A behaviour is one of a single part: `part' tells which; v1 *)
(* to v11 are the variables of the parts but for the buffer and the map,   *)
(* and what the part does not use stands still.  The parts have no         *)
(* RECURSIVE operators: Program_proofs proves what it states.              *)
(***************************************************************************)
EXTENDS HashMap, Buffer, TLC

CONSTANTS File1, File2

VARIABLES part, v1, v2, v3, v4, v5, v6, v7, v8, v9, v10, v11

MCHash == "k1" :> 0 @@ "k2" :> 4 @@ "k3" :> 8 @@ "k4" :> 1

\* Empty strings, ends of lines, and ends of strings within them; a text that is
\* longer than the buffer it is read into.
BufferStrings == {<<>>, <<"a">>, <<"nl", "a", "nl">>, <<"a", "nul">>}
BufferText == <<"a", "nl", "a", "a", "nl", "nl", "a", "a", "a", "a", "nl", "a">>

A == INSTANCE Arena WITH
        Align <- 2, Poison <- 2, Header <- 2, FrameSize <- 10, Record <- 1,
        Sizes <- {0, 1, 3, 9}, MaxObjects <- 4, MaxScopes <- 2, GrowOuter <- FALSE,
        frames <- v1, scopes <- v2, refs <- v3, freed <- v4,
        objs <- v5, made <- v6, ran <- v7, state <- v8
C == INSTANCE DiffChunks WITH
        MaxLine <- 5, MaxCount <- 4, MaxRead <- 9,
        files <- v1, sl <- v2, el <- v3, inHunk <- v4, status <- v5, due <- v6, lno <- v7,
        rows <- v8, added <- v9, read <- v10, marked <- v11
P == INSTANCE SimplePasses WITH
        MaxDepth <- 4, ps <- v1, enable <- v2, stack <- v3
K1 == INSTANCE Knfmt WITH
        Procs <- {1}, Args <- {<<File1, File2>>, <<File2, File2>>}, MaxEdits <- 1,
        Modes <- {"print", "diff", "inplace"}, Texts <- {"raw", "neat", "bad"},
        dir <- v1, inodes <- v2, ps <- v3, edits <- v4
K2 == INSTANCE Knfmt WITH
        Procs <- {1, 2}, Args <- {<<File1>>}, MaxEdits <- 1,
        Modes <- {"inplace"}, Texts <- {"raw"},
        dir <- v1, inodes <- v2, ps <- v3, edits <- v4

ASSUME PartsAssumption ==
    /\ A!ArenaAssumption /\ C!DiffAssumption /\ P!DepthAssumption
    /\ K1!KnfmtAssumption /\ K2!KnfmtAssumption

own == <<v1, v2, v3, v4, v5, v6, v7, v8, v9, v10, v11>>
all == <<part, vars, bufferVars, own>>
behind3 == <<part, vars, bufferVars, v4, v5, v6, v7, v8, v9, v10, v11>>
behind4 == <<part, vars, bufferVars, v5, v6, v7, v8, v9, v10, v11>>
behind8 == <<part, vars, bufferVars, v9, v10, v11>>

Idle8 == v9 = 0 /\ v10 = 0 /\ v11 = 0
Idle4 == v5 = 0 /\ v6 = 0 /\ v7 = 0 /\ v8 = 0 /\ Idle8
Idle3 == v4 = 0 /\ Idle4
Idle == v1 = 0 /\ v2 = 0 /\ v3 = 0 /\ Idle3
BufferIdle ==
    /\ mem = <<>> /\ len = 0 /\ pc = "idle" /\ exact = FALSE /\ doreserve = FALSE
    /\ file = NoFile /\ off = 0 /\ changed = FALSE /\ text = <<>>
    /\ goff = 0 /\ line = <<>> /\ lines = <<>>

ProgramInit ==
    /\ Init
    /\ \/ part \in {"map", "buffer"} /\ Idle
       \/ part = "arena" /\ A!Init /\ Idle8
       \/ part = "chunks" /\ C!Init
       \/ part = "passes" /\ P!Init /\ Idle3
       \/ part = "one" /\ K1!Init /\ Idle4
       \/ part = "two" /\ K2!Init /\ Idle4
    /\ IF part = "buffer" THEN BufferInit ELSE BufferIdle

ProgramNext ==
    \/ part = "map" /\ Next /\ UNCHANGED <<part, bufferVars, own>>
    \/ part = "buffer" /\ BufferNext /\ UNCHANGED <<part, vars, own>>
    \/ part = "arena" /\ A!Next /\ UNCHANGED behind8
    \/ part = "chunks" /\ C!Next /\ UNCHANGED <<part, vars, bufferVars>>
    \/ part = "passes" /\ P!Next /\ UNCHANGED behind3
    \/ part = "one" /\ K1!Next /\ UNCHANGED behind4
    \/ part = "two" /\ K2!Next /\ UNCHANGED behind4

\* The fairness of the parts: scopes are left and arenas freed, loops go on, and
\* a process goes on until it exits or is killed.
ProgramSpec ==
    /\ ProgramInit /\ [][ProgramNext]_all
    /\ WF_all(part = "arena" /\ A!ScopeLeave /\ UNCHANGED behind8)
    /\ WF_all(part = "arena" /\ A!ArenaFree /\ UNCHANGED behind8)
    /\ WF_all(part = "buffer" /\ Reading /\ UNCHANGED <<part, vars, own>>)
    /\ WF_all(part = "buffer" /\ Lines /\ UNCHANGED <<part, vars, own>>)
    /\ WF_all(part = "map" /\ IterateNext /\ UNCHANGED <<part, bufferVars, own>>)
    /\ WF_all(part = "one" /\ K1!Step(1) /\ UNCHANGED behind4)

-----------------------------------------------------------------------------
\* The chunks diff_parse() reads are the lines the diff adds.
ChunksExact == part = "chunks" => C!ChunksExact

\* However passes are entered, left early and peeked past, one collects tokens
\* for one function at a time, those that go with no other are alone, nothing
\* is changed while peeking, what is ignored stays so, and no pass is left
\* enabled (simple.c).
PassesGated == part = "passes" => P!PassesGated

\* Whichever system call fails and whoever is killed, files are whole and keep
\* their permissions, no temporary file is left behind by a process that is not
\* using it, none is left open, and who reports success left files formatted,
\* also with two processes at the same files (knfmt.c, file.c, libks/fs.c).
FilesIntact ==
    /\ part = "one" => K1!FilesIntact
    /\ part = "two" => K2!FilesIntact

\* A file is replaced by formatted text of a process editing in place only, and
\* processes come to an end, whatever fails (knfmt.c, libks/fs.c).
FilesReplaced ==
    /\ [][(part = "one" => K1!Replaces) /\ (part = "two" => K2!Replaces)]_all
    /\ <>(part = "one" => K1!Stopped(1))

\* What a scope of an arena holds is memory in use, shared with nobody; scopes
\* nest in frames, each cleanup runs once, while its record is still there, and
\* an allocation of the innermost scope does not fail (libks/arena.c).
ArenaSound == part = "arena" => A!ArenaSound

\* Leaving a scope gives back exactly what was taken since it was entered, and
\* whichever of the arena and its scopes goes last, every frame is freed
\* (arena_scope_leave(), arena_free()).
ArenaGivesBack ==
    /\ [][part = "arena" => A!Restores]_all
    /\ <>[](part = "arena" => A!Ended)

\* A buffer holds what was appended to it, whichever growth failed; a file is
\* read as a whole unless it grows meanwhile, and the lines got are its lines
\* (libks/buffer.c).  The list of a map links its elements in the order they
\* were inserted, and each is found by its key in the bucket it was left in,
\* whatever was expanded and removed (libks/map.c).
ContainersExact ==
    /\ part = "buffer" =>
          /\ BufferTypeOK /\ Appended /\ ReadsAll /\ ReadsPrefix
          /\ LinesPartition /\ LinesSplit
    /\ part = "map" => TypeOK /\ ListExact /\ FindExact

\* Reading a file, getting lines and walking along a map come to an end
\* (buffer_read_fd_impl(), buffer_getline_impl(), map_iterate()).
LoopsEnd ==
    /\ []((part = "buffer" /\ Busy) => <>(part = "buffer" => ~Busy))
    /\ WalkEnds
=============================================================================
