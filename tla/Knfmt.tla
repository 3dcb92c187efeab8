------------------------------- MODULE Knfmt -------------------------------
(***************************************************************************)
(* The main program: files are read, formatted and printed, compared or    *)
(* replaced in place (knfmt.c, file.c, libks/fs.c, libks/exec.c), by       *)
(* several processes at once while somebody edits them.  Any system call   *)
(* may fail, and a process may be killed at any time.                      *)
(*                                                                         *)
(* Text is "raw", "neat" once formatted or "bad" if it cannot be parsed;   *)
(* whole tells that all of it has been written.                            *)
(***************************************************************************)
EXTENDS Integers, Sequences, FiniteSets

CONSTANTS
    Procs,      \* processes
    Args,       \* their command lines: sequences of paths
    Modes,      \* "print", "diff", "inplace"
    Texts,      \* what files contain at first
    MaxEdits    \* bound of the number of edits

Paths == UNION {{a[i] : i \in DOMAIN a} : a \in Args}

\* What is assumed of them, and checked by Program: names of files are not those
\* of temporary ones.
KnfmtAssumption ==
    /\ Args \subseteq Seq(Paths) /\ IsFiniteSet(Paths) /\ Paths \cap Nat = {}
    /\ Modes \subseteq {"print", "diff", "inplace"}
    /\ Texts \subseteq {"raw", "neat", "bad"} /\ MaxEdits \in Nat

VARIABLES
    dir,        \* inode of each name, temporary ones being named for their inode
    inodes,     \* [text, whole, mode], never reused
    ps,         \* the processes
    edits
vars == <<dir, inodes, ps, edits>>

NoText == "none"

Start(a, m) ==
    [pc |-> "style", args |-> a, mode |-> m, i |-> 0, fds |-> {}, src |-> NoText,
     ino |-> 0, tmp |-> 0, res |-> 0, error |-> 0]

Init ==
    /\ edits = 0
    /\ \E text \in [Paths -> Texts], num \in [Paths -> 1..Cardinality(Paths)] :
           /\ \A f, g \in Paths : num[f] = num[g] => f = g
           /\ dir = [f \in Paths |-> num[f]]
           /\ inodes = [n \in 1..Cardinality(Paths) |->
                          [text |-> text[CHOOSE f \in Paths : num[f] = n], whole |-> TRUE, mode |-> "user"]]
    /\ \E a \in [Procs -> Args], m \in [Procs -> Modes] : ps = [p \in Procs |-> Start(a[p], m[p])]

-----------------------------------------------------------------------------
Path(p) == ps[p].args[ps[p].i]
At(p, pc) == ps[p].pc = pc
Set(p, r) == ps' = [ps EXCEPT ![p] = r]
Go(p, pc) == [ps[p] EXCEPT !.pc = pc]
Disk == <<dir, inodes, edits>>

\* fileformat() returns.
Return(p, res) == [ps[p] EXCEPT !.pc = "close", !.res = res]

Style(p) ==
    /\ At(p, "style")
    /\ \/ Set(p, Go(p, "next"))
       \/ Set(p, [ps[p] EXCEPT !.pc = "exit", !.error = 1])
    /\ UNCHANGED Disk

\* Mutant: the first file is formatted again after the last one.
NextFileAgain(p) ==
    /\ At(p, "next")
    /\ Set(p, [ps[p] EXCEPT !.pc = "open", !.i = IF @ = Len(ps[p].args) THEN 1 ELSE @ + 1])
    /\ UNCHANGED Disk
NextFile(p) ==
    /\ At(p, "next")
    /\ IF ps[p].i = Len(ps[p].args) THEN Set(p, Go(p, "exit"))
       ELSE Set(p, [ps[p] EXCEPT !.pc = "open", !.i = @ + 1])
    /\ UNCHANGED Disk

\* file_read()
Open(p) ==
    /\ At(p, "open")
    /\ \/ Set(p, [ps[p] EXCEPT !.pc = "read", !.ino = dir[Path(p)], !.fds = @ \cup {"in"}])
       \/ Set(p, Return(p, 1))
    /\ UNCHANGED Disk

Read(p) ==
    /\ At(p, "read")
    /\ \/ Set(p, [ps[p] EXCEPT !.pc = "format", !.src = inodes[ps[p].ino].text])
       \/ Set(p, [Return(p, 1) EXCEPT !.fds = @ \ {"in"}])
    /\ UNCHANGED Disk

Formatted(text) == IF text = "bad" THEN "bad" ELSE "neat"

\* lexer_tokenize() and parser_exec(); nothing is replaced by itself.
Format(p) ==
    /\ At(p, "format")
    /\ Set(p, IF ps[p].src = "bad" THEN Return(p, 1)
              ELSE IF ps[p].mode = "print" THEN Go(p, "print")
              ELSE IF ps[p].src = "neat" THEN Return(p, 0)
              ELSE Go(p, ps[p].mode))
    /\ UNCHANGED Disk

\* fileprint()
PrintFile(p) ==
    /\ At(p, "print")
    /\ \E res \in {0, 1} : Set(p, Return(p, res))
    /\ UNCHANGED Disk

\* KS_exec_diff(): two temporary files that have no name, and diff, which
\* exits with one if they differ.
Diff(p) ==
    /\ At(p, "diff")
    /\ \/ Set(p, [ps[p] EXCEPT !.fds = @ \cup {IF "a" \in @ THEN "b" ELSE "a"}])
          /\ ~{"a", "b"} \subseteq ps[p].fds
       \/ {"a", "b"} \subseteq ps[p].fds /\ Set(p, [Return(p, 1) EXCEPT !.fds = @ \ {"a", "b"}])
       \/ Set(p, [Return(p, -1) EXCEPT !.fds = @ \ {"a", "b"}])
    /\ UNCHANGED Disk

\* main() after fileformat(); file_close().
Close(p) ==
    /\ At(p, "close")
    /\ Set(p, [ps[p] EXCEPT !.pc = "next", !.error = IF ps[p].res = 0 THEN @ ELSE 1,
                            !.fds = @ \ {"in"}, !.src = NoText])
    /\ UNCHANGED Disk

-----------------------------------------------------------------------------
(* KS_fs_replace()                                                         *)

Out(p, res) == [ps[p] EXCEPT !.pc = "unlink", !.res = res]

OpenSrc(p) ==
    /\ At(p, "inplace")
    /\ \/ Set(p, [ps[p] EXCEPT !.pc = "mkstemp", !.ino = dir[Path(p)], !.fds = @ \cup {"src"}])
       \/ Set(p, Return(p, 1))
    /\ UNCHANGED Disk

\* The name is one that is not in use.
Mkstemp(p) ==
    /\ At(p, "mkstemp")
    /\ \/ LET n == Len(inodes) + 1
          IN  /\ inodes' = Append(inodes, [text |-> Formatted(ps[p].src), whole |-> FALSE, mode |-> "private"])
              /\ dir' = [f \in DOMAIN dir \cup {n} |-> IF f = n THEN n ELSE dir[f]]
              /\ Set(p, [ps[p] EXCEPT !.pc = "write", !.tmp = n, !.fds = @ \cup {"tmp"}])
       \/ Set(p, Out(p, 1)) /\ UNCHANGED <<dir, inodes>>
    /\ UNCHANGED edits

\* Nothing changes for others with a short write, which is gone on with.
Write(p) ==
    /\ At(p, "write")
    /\ \/ inodes' = [inodes EXCEPT ![ps[p].tmp].whole = TRUE] /\ Set(p, Go(p, "inherit"))
       \/ Set(p, Out(p, 1)) /\ UNCHANGED inodes
    /\ UNCHANGED <<dir, edits>>

\* inherit_ownership_and_permissions()
Inherit(p) ==
    /\ At(p, "inherit")
    /\ \/ inodes' = [inodes EXCEPT ![ps[p].tmp].mode = inodes[ps[p].ino].mode] /\ Set(p, Go(p, "rename"))
       \/ Set(p, Out(p, 1)) /\ UNCHANGED inodes
    /\ UNCHANGED <<dir, edits>>

Rename(p) ==
    /\ At(p, "rename")
    /\ \/ /\ dir' = [f \in DOMAIN dir \ {ps[p].tmp} |-> IF f = Path(p) THEN dir[ps[p].tmp] ELSE dir[f]]
          /\ Set(p, Out(p, 0))
       \/ Set(p, Out(p, 1)) /\ UNCHANGED dir
    /\ UNCHANGED <<inodes, edits>>

\* Mutant: done only if renaming failed.
UnlinkNever(p) ==
    /\ At(p, "unlink")
    /\ UNCHANGED dir
    /\ Set(p, [Return(p, ps[p].res) EXCEPT !.fds = @ \ {"src", "tmp"}, !.tmp = 0])
    /\ UNCHANGED <<inodes, edits>>
\* There is no such name any longer if it has been renamed.
Unlink(p) ==
    /\ At(p, "unlink")
    /\ dir' = [f \in DOMAIN dir \ {ps[p].tmp} |-> dir[f]]
    /\ Set(p, [Return(p, ps[p].res) EXCEPT !.fds = @ \ {"src", "tmp"}, !.tmp = 0])
    /\ UNCHANGED <<inodes, edits>>

-----------------------------------------------------------------------------
(* The environment.                                                        *)

Kill(p) ==
    /\ ~At(p, "exit") /\ ~At(p, "killed")
    /\ Set(p, [Go(p, "killed") EXCEPT !.fds = {}])
    /\ UNCHANGED Disk

Edit(f) ==
    /\ edits < MaxEdits
    /\ edits' = edits + 1
    /\ inodes' = [inodes EXCEPT ![dir[f]].text = "raw"]
    /\ UNCHANGED <<dir, ps>>

Step(p) ==
    \/ Style(p) \/ NextFile(p) \/ Open(p) \/ Read(p) \/ Format(p) \/ PrintFile(p) \/ Diff(p) \/ Close(p)
    \/ OpenSrc(p) \/ Mkstemp(p) \/ Write(p) \/ Inherit(p) \/ Rename(p) \/ Unlink(p)
Next ==
    \/ \E p \in Procs : Step(p) \/ Kill(p)
    \/ \E f \in Paths : Edit(f)

\* System calls return, and the system runs processes that can go on.
Spec == Init /\ [][Next]_vars /\ \A p \in Procs : WF_vars(Step(p))

-----------------------------------------------------------------------------
Stopped(p) == At(p, "exit") \/ At(p, "killed")
Temps == DOMAIN dir \ Paths

\* Types; names are those of the arguments and of temporary files.
TypeOK ==
    /\ Paths \subseteq DOMAIN dir /\ Temps \subseteq DOMAIN inodes
    /\ \A f \in DOMAIN dir : dir[f] \in DOMAIN inodes
    /\ \A p \in Procs : ps[p].i \in 0..Len(ps[p].args) /\ ps[p].tmp \in 0..Len(inodes)

\* Whatever fails and whoever is killed, a file is there, it is whole and has
\* the permissions it had.
Intact == \A f \in Paths : inodes[dir[f]].whole /\ inodes[dir[f]].mode = "user"

\* Temporary files are those of processes replacing a file or killed then.
NoLitter == \A n \in Temps : \E p \in Procs : ps[p].tmp = n

\* Nothing is left open between files, nor more than three files at once.
FdsClosed == \A p \in Procs :
    /\ Cardinality(ps[p].fds) <= 3
    /\ At(p, "next") \/ Stopped(p) => ps[p].fds = {}

\* Files are replaced by processes editing in place and by formatted text only,
\* and none that cannot be parsed is.
Replaces ==
    \A f \in Paths : dir'[f] # dir[f] =>
        /\ inodes[dir'[f]].text = "neat"
        /\ \E p \in Procs : ps[p].mode = "inplace" /\ At(p, "rename") /\ Path(p) = f
\* A process that reports success has left each of its files formatted, or
\* found it so, unless somebody edits them.
Success == \A p \in Procs :
    At(p, "exit") /\ ps[p].error = 0 /\ ps[p].mode # "print" /\ edits = 0 =>
        \A i \in DOMAIN ps[p].args : inodes[dir[ps[p].args[i]]].text = "neat"

\* Whichever system call fails and whoever is killed, files are whole and keep
\* their permissions, no temporary file is left behind by a process that is not
\* using it, none is left open, and who reports success left files formatted
\* (knfmt.c, file.c, libks/fs.c).
FilesIntact == TypeOK /\ Intact /\ NoLitter /\ FdsClosed /\ Success

\* Processes come to an end, whatever fails.
Terminates == \A p \in Procs : <>Stopped(p)
=============================================================================
