------------------------------- MODULE Arena -------------------------------
(***************************************************************************)
(* The arena allocator of libks/arena.c: a list of frames, filled from     *)
(* their start, and scopes that give everything allocated since they were  *)
(* entered back at once.  Sizes are counted in words; an object is a range *)
(* of a frame.                                                             *)
(***************************************************************************)
EXTENDS Integers, Sequences, SequencesExt, FiniteSets

CONSTANTS
    Align,        \* maxalign
    Poison,       \* poison_size(): zero, or one word while memory is checked
    Header,       \* sizeof(struct arena_frame)
    FrameSize,    \* a->frame_size
    Record,       \* sizeof(struct arena_cleanup)
    Sizes,        \* sizes asked for
    MaxObjects,   \* bound: objects ever allocated
    MaxScopes,    \* bound: scopes alive
    GrowOuter     \* whether objects of outer scopes are grown in a nested one

\* What is assumed of them, and checked by Libks.
ArenaAssumption ==
    /\ {Align, Header, FrameSize, Record} \subseteq Nat \ {0}
    /\ Poison \in {0, Align} /\ Header % Align = 0 /\ FrameSize > Header + Poison
    /\ Sizes \subseteq Nat /\ MaxObjects \in Nat /\ MaxScopes \in Nat
    /\ GrowOuter \in BOOLEAN

VARIABLES
    frames,       \* a->frame and those behind it: the newest first
    scopes,       \* the scopes alive, the innermost last
    refs,         \* a->refs
    freed,        \* arena_free() was called
    objs,         \* history: the objects of scopes that are alive
    made,         \* history: number of objects and frames made so far
    ran,          \* history: the cleanups that ran
    state         \* "ok", or how the program ended: "trap", "error"

vars == <<frames, scopes, refs, freed, objs, made, ran, state>>

AlignUp(n) == ((n + Align - 1) \div Align) * Align

AlignAddress(n) ==
    LET up == AlignUp(n) IN IF Poison > 0 /\ up - n < Poison THEN up + Poison ELSE up

\* The frame with size words more, and whether they fit.
Fits(f, size) == f.len + size <= f.size
Push(f, size) ==
    LET new == AlignAddress(f.len + size)
    IN  [f EXCEPT !.len = IF new > f.size THEN f.size ELSE new]

NewFrame(id, size) == Push([id |-> id, size |-> size, len |-> 0], Header)

\* The smallest power of two times frame_size that holds size.
FrameFor(size) ==
    LET need == size + Header + Poison
        k    == CHOOSE i \in 0..need : /\ FrameSize * 2^i >= need
                                       /\ \A j \in 0..i-1 : FrameSize * 2^j < need
    IN  FrameSize * 2^k

Object(id, scope, f, size) ==
    [id |-> id, scope |-> scope, frame |-> f.id, off |-> f.len, size |-> size]

Init ==
    /\ frames = <<NewFrame(0, FrameSize)>>
    /\ scopes = <<>> /\ refs = 1 /\ freed = FALSE
    /\ objs = {} /\ made = 1 /\ ran = <<>> /\ state = "ok"

ScopeEnter ==
    /\ state = "ok" /\ ~freed /\ Len(scopes) < MaxScopes
    /\ refs' = refs + 1
    /\ scopes' = Append(scopes, [id |-> refs + 1, frame |-> Head(frames).id,
                                 len |-> Head(frames).len, cleanup |-> <<>>,
                                 entry |-> frames])
    /\ UNCHANGED <<frames, freed, objs, made, ran, state>>

\* arena_scope_validate(): only the innermost scope may allocate.
Valid(s) == scopes[s].id = refs

\* An object of size words for scope s, in the current frame or a new one.
Allocate(s, size, keep) ==
    LET f   == Head(frames)
        new == NewFrame(made + 1, FrameFor(size))
    IN  /\ made' = made + 2
        /\ IF Fits(f, size)
           THEN /\ frames' = <<Push(f, size)>> \o Tail(frames)
                /\ objs' = keep \cup {Object(made, scopes[s].id, f, size)}
                /\ state' = state
           ELSE IF Fits(new, size)
           THEN /\ frames' = <<Push(new, size)>> \o frames
                /\ objs' = keep \cup {Object(made, scopes[s].id, new, size)}
                /\ state' = state
           ELSE /\ state' = "error" /\ frames' = <<new>> \o frames /\ objs' = keep

Trap == state' = "trap" /\ UNCHANGED <<frames, scopes, refs, freed, objs, made, ran>>

MayAllocate == state = "ok" /\ made < 2 * MaxObjects /\ ~freed

\* arena_malloc(), and arena_calloc() but for the zeroes.
Malloc(s, size) ==
    /\ MayAllocate
    /\ IF Valid(s) THEN Allocate(s, size, objs) /\ UNCHANGED <<scopes, refs, freed, ran>>
                   ELSE Trap

\* A copy of a string or a formatted one, with its end.
Strndup(s, len) == Malloc(s, len + 1)

\* The callback is registered in a record that is an object itself.
Cleanup(s) ==
    /\ MayAllocate
    /\ IF Valid(s)
       THEN /\ Allocate(s, Record, objs)
            /\ scopes' = [scopes EXCEPT ![s].cleanup = <<made>> \o @]
            /\ UNCHANGED <<refs, freed, ran>>
       ELSE Trap

\* arena_realloc_fast(): shrink in place, or grow the last object of the
\* current frame.  The scope is not looked at.
IsLast(o) == o.frame = Head(frames).id /\ AlignAddress(o.off + o.size) = Head(frames).len
Regrown(o, size) == Push([Head(frames) EXCEPT !.len = o.off], size)
GrowsInPlace(o, size) ==
    IsLast(o) /\ Fits([Head(frames) EXCEPT !.len = o.off], size)

IsRecord(o) == \E i \in DOMAIN scopes : o.id \in Range(scopes[i].cleanup)

Realloc(s, o, size) ==
    /\ MayAllocate /\ o.scope = scopes[s].id /\ ~IsRecord(o)
    /\ GrowOuter \/ s = Len(scopes)
    /\ \/ /\ size <= o.size
          /\ objs' = (objs \ {o}) \cup {[o EXCEPT !.size = size]}
          /\ made' = made + 2
          /\ UNCHANGED <<frames, scopes, refs, freed, ran, state>>
       \/ /\ size > o.size /\ GrowsInPlace(o, size)
          /\ objs' = (objs \ {o}) \cup {[o EXCEPT !.size = size]}
          /\ frames' = <<Regrown(o, size)>> \o Tail(frames)
          /\ made' = made + 2
          /\ UNCHANGED <<scopes, refs, freed, ran, state>>
       \/ /\ size > o.size /\ ~GrowsInPlace(o, size)
          /\ IF Valid(s) THEN /\ Allocate(s, size, objs \ {o})
                              /\ UNCHANGED <<scopes, refs, freed, ran>>
                         ELSE Trap

\* Mutants: the frame the scope began in is freed too; its length is kept; the
\* frames are looked for as if the arena was not freed.
CutBackTooFar(frame, len) ==
    LET Old(i) == frames[i].id = frame
        at     == CHOOSE i \in DOMAIN frames : Old(i)
    IN  IF at < Len(frames) THEN SubSeq(frames, at + 1, Len(frames)) ELSE frames
FramesLeftAlways(s) ==
    SubSeq(frames, CHOOSE i \in DOMAIN frames : frames[i].id = s.frame, Len(frames))

\* The frames left once those made in a scope are freed, the current one cut
\* back to where the scope began.
CutBack(frame, len) ==
    LET Old(i)  == frames[i].id = frame
        left    == IF \E i \in DOMAIN frames : Old(i)
                   THEN SubSeq(frames, CHOOSE i \in DOMAIN frames : Old(i), Len(frames))
                   ELSE <<>>
    IN  IF left = <<>> THEN left
        ELSE <<[Head(left) EXCEPT !.len = IF len <= @ THEN len ELSE 0]>> \o Tail(left)

FramesLeft(s) == IF refs = 1 THEN <<>> ELSE CutBack(s.frame, s.len)

ScopeLeave ==
    /\ state = "ok" /\ scopes # <<>>
    /\ LET s == Last(scopes)
       IN  /\ ran' = ran \o s.cleanup
           /\ frames' = FramesLeft(s)
           /\ objs' = {o \in objs : o.scope # s.id}
    /\ scopes' = Front(scopes) /\ refs' = refs - 1
    /\ UNCHANGED <<freed, made, state>>

ArenaFree ==
    /\ state = "ok" /\ ~freed
    /\ freed' = TRUE /\ refs' = refs - 1
    /\ frames' = IF refs > 1 THEN frames ELSE <<>>
    /\ UNCHANGED <<scopes, objs, made, ran, state>>

Next ==
    \/ ScopeEnter \/ ScopeLeave \/ ArenaFree
    \/ \E s \in DOMAIN scopes : Cleanup(s) \/ \E size \in Sizes : Malloc(s, size) \/ Strndup(s, size)
    \/ \E s \in DOMAIN scopes, o \in objs, size \in Sizes : Realloc(s, o, size)

\* A scope is a variable with a cleanup attribute and main() frees its arenas.
Spec == Init /\ [][Next]_vars /\ WF_vars(ScopeLeave) /\ WF_vars(ArenaFree)

-----------------------------------------------------------------------------
\* Frames are filled within their size, and scopes count as references.
TypeOK ==
    /\ \A i \in DOMAIN frames : frames[i].len \in 0..frames[i].size
    /\ refs = Len(scopes) + (IF freed THEN 0 ELSE 1)
    /\ \A i \in DOMAIN scopes : scopes[i].id = i + 1
    /\ state \in {"ok", "trap", "error"}

FrameOf(o) == CHOOSE f \in Range(frames) : f.id = o.frame

\* What a scope that is alive was given is memory that is in use: inside of a
\* frame that was not freed, below its length, behind its header.
LiveAllocated ==
    \A o \in objs :
        /\ \E f \in Range(frames) : f.id = o.frame
        /\ Header <= o.off /\ o.off + o.size <= FrameOf(o).len

\* No two objects that are not empty share memory, whatever was grown, shrunk, moved or freed by
\* nested scopes in between, and poison separates them if there is any.
LiveDisjoint ==
    \A o, p \in {q \in objs : q.size > 0} : (o.frame = p.frame /\ o.id # p.id) =>
        \/ o.off + o.size + Poison <= p.off
        \/ p.off + p.size + Poison <= o.off

\* The fallback of arena_scope_leave(), which would reset the length of a frame
\* in front of its own header, is never taken: scopes are nested in frames.
ScopesNested ==
    \A i \in DOMAIN scopes :
        \E f \in Range(frames) : f.id = scopes[i].frame /\ scopes[i].len <= f.len

\* Every callback registered runs exactly once, those of a scope in reverse and
\* behind those of the scopes within, and their records are still allocated
\* until then.
CleanupsOnce ==
    /\ \A i, j \in DOMAIN ran : i # j => ran[i] # ran[j]
    /\ \A s \in DOMAIN scopes : LET mine == scopes[s].cleanup IN
          /\ \A i, j \in DOMAIN mine : i < j => mine[i] > mine[j]
          /\ \A i \in DOMAIN mine :
                /\ \A j \in DOMAIN ran : ran[j] # mine[i]
                /\ \E o \in objs : o.id = mine[i] /\ o.scope = scopes[s].id
                /\ \A t \in DOMAIN scopes : t > s =>
                      \A j \in DOMAIN scopes[t].cleanup : scopes[t].cleanup[j] > mine[i]

\* An allocation of the innermost scope does not fail: the frame made for it
\* is large enough.
NoError == state # "error"

\* What a scope holds is memory in use, shared with nobody; scopes nest in
\* frames, each cleanup runs once, while its record is still there, and an
\* allocation of the innermost scope does not fail.
ArenaSound ==
    TypeOK /\ LiveAllocated /\ LiveDisjoint /\ ScopesNested /\ CleanupsOnce /\ NoError

\* Leaving a scope of an arena in use gives back exactly what was taken since
\* it was entered: frames and lengths are those of then.
Restores == (Len(scopes') < Len(scopes) /\ refs > 1) => frames' = Last(scopes).entry
\* Whichever of the arena and its scopes goes last, every frame is freed; and
\* scopes being left and arenas freed, that time comes.
Ended == state # "ok" \/ (refs = 0 /\ frames = <<>>)
\* "allocating %zu bytes from scope #%d ... which will be freed by nested
\* scope(s)" (arena.c:520): such an allocation traps, so that leaving a scope
\* frees nothing that belongs to another.
NestedKeeps ==
    \A o \in objs : \E f \in Range(frames) : f.id = o.frame /\ o.off + o.size <= f.len
=============================================================================
