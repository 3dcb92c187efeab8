---------------------------- MODULE Knfmt_proofs ----------------------------
(***************************************************************************)
(* Proofs about Knfmt, for any number of processes, files and edits:       *)
(* whoever fails or is killed, files are whole, no temporary file is left  *)
(* behind, nothing stays open and success is true.                         *)
(***************************************************************************)
EXTENDS Knfmt, TLAPS, FiniteSetTheorems, SequenceTheorems

-----------------------------------------------------------------------------
(* The inductive invariant: what a process knows of the disk at each step,   *)
(* and what is true of the disk.                                             *)

Replacing == {"mkstemp", "write", "inherit", "rename", "unlink"}
Writing == {"write", "inherit", "rename"}
PCs == {"style", "next", "open", "read", "format", "print", "diff", "inplace", "close",
        "exit", "killed"} \cup Replacing
Contents == {"raw", "neat", "bad"}
Sources == Contents \cup {NoText}
Fds == {"in", "src", "tmp", "a", "b"}

Inode == [text : Contents, whole : BOOLEAN, mode : {"user", "private"}]
Proc == [pc : PCs, args : Args, mode : Modes, i : Nat, fds : SUBSET Fds,
         src : Sources, ino : Nat, tmp : Nat, res : Int, error : {0, 1}]

Name(r) == r.args[r.i]
TempsOf(d) == DOMAIN d \ Paths
NeatIn(d, ns, f) == ns[d[f]].text = "neat"

\* Where a process is in the list of its files, and in which mode.
PlaceOK(r) ==
    /\ r.i <= Len(r.args)
    /\ r.pc = "style" => r.i = 0
    /\ r.pc \notin {"style", "next", "exit", "killed"} => r.i > 0
    /\ r.pc = "exit" /\ r.error = 0 => r.i = Len(r.args)
    /\ r.pc \in {"print", "diff"} => r.mode = r.pc
    /\ r.pc \in {"inplace"} \cup Replacing => r.mode = "inplace"
    /\ r.pc \in {"inplace", "mkstemp"} => r.src # "bad"

FdsOK(r) ==
    /\ r.pc \in {"style", "next", "open", "exit", "killed"} => r.fds = {}
    /\ r.pc \in {"read", "format", "print", "inplace", "close"} => r.fds \subseteq {"in"}
    /\ r.pc = "diff" => r.fds \subseteq {"in", "a", "b"}
    /\ r.pc \in Replacing => r.fds \subseteq {"in", "src", "tmp"}

\* The files of a process that replaces one, d and ns being dir and inodes: the
\* one it has read, whose permissions are taken over, and the temporary one.
FileOK(r, d, ns) ==
    /\ r.tmp <= Len(ns)
    /\ r.pc \in {"read", "mkstemp"} \cup Writing => r.ino \in DOMAIN ns
    /\ r.pc \in {"mkstemp", "write", "inherit"} => ns[r.ino].mode = "user"
    /\ r.pc \notin Writing \cup {"unlink", "killed"} => r.tmp = 0
    /\ r.pc \in Writing => r.tmp \in TempsOf(d) /\ ns[r.tmp].text = "neat"
    /\ r.pc \in {"inherit", "rename"} => ns[r.tmp].whole
    /\ r.pc = "rename" => ns[r.tmp].mode = "user"

\* Nobody having edited, the files a process is done with, and those it is about
\* to be done with, are formatted unless it knows that something went wrong.
SuccessOK(r, d, ns) ==
    r.error = 0 /\ r.mode # "print" =>
        /\ \A j \in 1..Len(r.args) :
               j < r.i \/ (j = r.i /\ r.pc \in {"next", "exit"}) => NeatIn(d, ns, r.args[j])
        /\ r.pc \in {"unlink", "close"} /\ r.res = 0 => NeatIn(d, ns, Name(r))
        /\ r.pc = "read" => r.ino = d[Name(r)] \/ NeatIn(d, ns, Name(r))
        /\ r.pc = "format" /\ r.src = "neat" => NeatIn(d, ns, Name(r))

ProcOK(r, d, ns, e) ==
    /\ r \in Proc /\ PlaceOK(r) /\ FdsOK(r) /\ FileOK(r, d, ns)
    /\ e = 0 => SuccessOK(r, d, ns)

\* Temporary names are those of their inodes, which have no other name.
DiskOK(d, ns) ==
    /\ ns \in Seq(Inode)
    /\ Paths \subseteq DOMAIN d /\ TempsOf(d) \subseteq DOMAIN ns
    /\ \A f \in Paths : d[f] \in DOMAIN ns /\ d[f] \notin TempsOf(d)
    /\ \A f \in Paths : ns[d[f]].whole /\ ns[d[f]].mode = "user"
    /\ \A n \in TempsOf(d) : d[n] = n

\* No two processes use the same temporary file.
Apart == \A p, q \in Procs : ps[p].tmp = ps[q].tmp /\ ps[p].tmp # 0 => p = q

IInv ==
    /\ ps \in [Procs -> Proc] /\ edits \in Nat
    /\ \A p \in Procs : ProcOK(ps[p], dir, inodes, edits)
    /\ DiskOK(dir, inodes)
    /\ Apart
    /\ NoLitter

-----------------------------------------------------------------------------
(* What the other processes rely on when one of them, whose temporary file   *)
(* is t, or an editor changes the disk.                                      *)

DiskStep(t, d, ns, e, d2, ns2, e2) ==
    /\ Len(ns) <= Len(ns2)
    /\ \A n \in DOMAIN ns : ns[n].mode = "user" => ns2[n].mode = "user"
    /\ \A n \in TempsOf(d) \ {t} : n \in TempsOf(d2) /\ ns2[n] = ns[n]
    /\ e2 = 0 => /\ e = 0
                 /\ \A n \in DOMAIN ns : ns2[n].text = ns[n].text
                 /\ \A f \in Paths : d2[f] = d[f] \/ NeatIn(d2, ns2, f)

LEMMA Names ==
  ASSUME KnfmtAssumption, NEW r \in Proc
  PROVE  /\ r.args \in Seq(Paths)
         /\ \A j \in 1..Len(r.args) : r.args[j] \in Paths
         /\ PlaceOK(r) /\ r.i > 0 => Name(r) \in Paths
<1>1. r.args \in Seq(Paths) /\ r.i \in Nat
  BY DEF KnfmtAssumption, Proc
<1>2. \A j \in 1..Len(r.args) : r.args[j] \in Paths
  BY <1>1, ElementOfSeq
<1>3. PlaceOK(r) /\ r.i > 0 => Name(r) \in Paths
  BY <1>1, <1>2, LenProperties DEF PlaceOK, Name
<1>4. QED
  BY <1>1, <1>2, <1>3

LEMMA Disks ==
  ASSUME NEW d, NEW ns, DiskOK(d, ns)
  PROVE  /\ Len(ns) \in Nat /\ DOMAIN ns = 1..Len(ns)
         /\ \A n \in DOMAIN ns : ns[n] \in Inode
         /\ \A n \in DOMAIN ns : ns[n].text \in Contents
<1>1. Len(ns) \in Nat /\ DOMAIN ns = 1..Len(ns) /\ \A n \in DOMAIN ns : ns[n] \in Inode
  BY ElementOfSeq, LenProperties DEF DiskOK
<1>2. QED
  BY <1>1 DEF Inode

\* What has been formatted remains so.
LEMMA StillTrue ==
  ASSUME KnfmtAssumption, NEW r \in Proc, NEW t, NEW d, NEW ns, NEW d2, NEW ns2,
         PlaceOK(r), SuccessOK(r, d, ns), DiskOK(d, ns), DiskStep(t, d, ns, 0, d2, ns2, 0)
  PROVE  SuccessOK(r, d2, ns2)
<1>1. \A f \in Paths : NeatIn(d, ns, f) => NeatIn(d2, ns2, f)
  BY DEF DiskStep, DiskOK, NeatIn
<1>2. \A f \in Paths : d2[f] = d[f] \/ NeatIn(d2, ns2, f)
  BY DEF DiskStep
<1>3. \A j \in 1..Len(r.args) : r.args[j] \in Paths
  BY Names
<1>4. r.i > 0 => Name(r) \in Paths
  BY Names
<1>5. r.pc \in {"unlink", "close", "read", "format"} => r.i > 0
  BY DEF PlaceOK
<1>6. QED
  BY <1>1, <1>2, <1>3, <1>4, <1>5 DEF SuccessOK

LEMMA OthersKeep ==
  ASSUME KnfmtAssumption, NEW r, NEW t,
         NEW d, NEW ns, NEW e, NEW d2, NEW ns2, NEW e2,
         ProcOK(r, d, ns, e), DiskOK(d, ns), ns2 \in Seq(Inode),
         DiskStep(t, d, ns, e, d2, ns2, e2), r.tmp # t \/ r.tmp = 0
  PROVE  ProcOK(r, d2, ns2, e2)
<1>1. r \in Proc /\ PlaceOK(r) /\ FdsOK(r)
  BY DEF ProcOK
<1>2. /\ DOMAIN ns = 1..Len(ns) /\ DOMAIN ns2 = 1..Len(ns2)
      /\ Len(ns) \in Nat /\ Len(ns2) \in Nat /\ Len(ns) <= Len(ns2)
  BY DEF DiskOK, DiskStep
<1>3. FileOK(r, d2, ns2)
  <2>1. FileOK(r, d, ns)
    BY DEF ProcOK
  <2>2. r.tmp \in Nat
    BY <1>1 DEF Proc
  <2>3. 0 \notin TempsOf(d)
    BY <1>2 DEF DiskOK
  <2>4. r.pc \in Writing => r.tmp \in TempsOf(d) \ {t}
    BY <2>1, <2>3 DEF FileOK
  <2>5. r.pc \in Writing => r.tmp \in TempsOf(d2) /\ ns2[r.tmp] = ns[r.tmp]
    BY <2>4 DEF DiskStep
  <2>6. r.pc \in {"mkstemp", "write", "inherit"} => ns2[r.ino].mode = "user"
    BY <2>1 DEF FileOK, DiskStep, Writing
  <2>7. QED
    BY <1>2, <2>1, <2>2, <2>5, <2>6 DEF FileOK, Writing
<1>4. ASSUME e2 = 0
      PROVE  SuccessOK(r, d2, ns2)
  BY <1>1, <1>4, StillTrue DEF ProcOK, DiskStep
<1>5. QED
  BY <1>1, <1>3, <1>4 DEF ProcOK

-----------------------------------------------------------------------------
(* Steps of one process that leave the disk alone.                           *)

LEMMA Calm ==
  ASSUME IInv, NEW p \in Procs, NEW r,
         Set(p, r), UNCHANGED Disk, ProcOK(r, dir, inodes, edits), r.tmp = ps[p].tmp
  PROVE  IInv'
<1>1. r \in Proc
  BY DEF ProcOK
<1>2. ps' = [ps EXCEPT ![p] = r] /\ ps' \in [Procs -> Proc]
  BY <1>1 DEF IInv, Set
<1>3. \A q \in Procs : ProcOK(ps'[q], dir, inodes, edits)
  BY <1>2 DEF IInv
<1>4. \A q \in Procs : ps'[q].tmp = ps[q].tmp
  BY <1>2 DEF IInv
<1>5. QED
  BY <1>2, <1>3, <1>4 DEF IInv, Disk, Apart, NoLitter, Temps

LEMMA StyleOK ==
  ASSUME IInv, NEW p \in Procs, Style(p), KnfmtAssumption
  PROVE  IInv'
<1> DEFINE r == ps[p]
<1>1. r \in Proc /\ ProcOK(r, dir, inodes, edits) /\ r.pc = "style" /\ UNCHANGED Disk
  BY DEF IInv, Style, At
<1>2. Len(r.args) \in Nat /\ r.i \in Nat
  BY <1>1, Names, LenProperties DEF Proc
<1>3. CASE Set(p, [r EXCEPT !.pc = "next"])
  <2> DEFINE k == [r EXCEPT !.pc = "next"]
  <2>1. "next" \in PCs
    BY <1>1, <1>2 DEF Proc, PCs, Sources, Contents, NoText, Fds, Replacing, DiskOK
  <2>2. /\ k \in Proc /\ k.pc = "next"
        /\ k.args = r.args /\ k.mode = r.mode /\ k.i = r.i /\ k.fds = r.fds
        /\ k.src = r.src /\ k.ino = r.ino /\ k.tmp = r.tmp /\ k.res = r.res
        /\ k.error = r.error
    BY <1>1, <2>1 DEF Proc
  <2> HIDE DEF k, r
  <2>3. PlaceOK(k) /\ FdsOK(k)
    BY <1>1, <1>2, <1>3, <2>2 DEF ProcOK, PlaceOK, FdsOK, Replacing
  <2>4. FileOK(k, dir, inodes)
    BY <1>1, <1>2, <1>3, <2>2 DEF ProcOK, FileOK, Replacing, Writing
  <2>5. edits = 0 => SuccessOK(k, dir, inodes)
    BY <1>1, <1>2, <1>3, <2>2 DEF ProcOK, PlaceOK, SuccessOK, Name, Replacing
  <2>6. QED
    BY <1>1, <1>3, <2>2, <2>3, <2>4, <2>5, Calm DEF ProcOK, k, r
<1>4. CASE Set(p, [r EXCEPT !.pc = "exit", !.error = 1])
  <2> DEFINE k == [r EXCEPT !.pc = "exit", !.error = 1]
  <2>1. "exit" \in PCs /\ 1 \in {0, 1}
    BY <1>1, <1>2 DEF Proc, PCs, Sources, Contents, NoText, Fds, Replacing, DiskOK
  <2>2. /\ k \in Proc /\ k.pc = "exit" /\ k.error = 1
        /\ k.args = r.args /\ k.mode = r.mode /\ k.i = r.i /\ k.fds = r.fds
        /\ k.src = r.src /\ k.ino = r.ino /\ k.tmp = r.tmp /\ k.res = r.res
    BY <1>1, <2>1 DEF Proc
  <2> HIDE DEF k, r
  <2>3. PlaceOK(k) /\ FdsOK(k)
    BY <1>1, <1>2, <1>4, <2>2 DEF ProcOK, PlaceOK, FdsOK, Replacing
  <2>4. FileOK(k, dir, inodes)
    BY <1>1, <1>2, <1>4, <2>2 DEF ProcOK, FileOK, Replacing, Writing
  <2>5. edits = 0 => SuccessOK(k, dir, inodes)
    BY <1>1, <1>2, <1>4, <2>2 DEF ProcOK, PlaceOK, SuccessOK, Name, Replacing
  <2>6. QED
    BY <1>1, <1>4, <2>2, <2>3, <2>4, <2>5, Calm DEF ProcOK, k, r
<1>5. QED
  BY <1>1, <1>2, <1>3, <1>4 DEF Style, Go, Return

LEMMA NextFileOK ==
  ASSUME IInv, NEW p \in Procs, NextFile(p), KnfmtAssumption
  PROVE  IInv'
<1> DEFINE r == ps[p]
<1>1. r \in Proc /\ ProcOK(r, dir, inodes, edits) /\ r.pc = "next" /\ UNCHANGED Disk
  BY DEF IInv, NextFile, At
<1>2. Len(r.args) \in Nat /\ r.i \in Nat
  BY <1>1, Names, LenProperties DEF Proc
<1>3. CASE Set(p, [r EXCEPT !.pc = "exit"]) /\ r.i = Len(r.args)
  <2> DEFINE k == [r EXCEPT !.pc = "exit"]
  <2>1. "exit" \in PCs
    BY <1>1, <1>2 DEF Proc, PCs, Sources, Contents, NoText, Fds, Replacing, DiskOK
  <2>2. /\ k \in Proc /\ k.pc = "exit"
        /\ k.args = r.args /\ k.mode = r.mode /\ k.i = r.i /\ k.fds = r.fds
        /\ k.src = r.src /\ k.ino = r.ino /\ k.tmp = r.tmp /\ k.res = r.res
        /\ k.error = r.error
    BY <1>1, <2>1 DEF Proc
  <2> HIDE DEF k, r
  <2>3. PlaceOK(k) /\ FdsOK(k)
    BY <1>1, <1>2, <1>3, <2>2 DEF ProcOK, PlaceOK, FdsOK, Replacing
  <2>4. FileOK(k, dir, inodes)
    BY <1>1, <1>2, <1>3, <2>2 DEF ProcOK, FileOK, Replacing, Writing
  <2>5. edits = 0 => SuccessOK(k, dir, inodes)
    BY <1>1, <1>2, <1>3, <2>2 DEF ProcOK, PlaceOK, SuccessOK, Name, Replacing
  <2>6. QED
    BY <1>1, <1>3, <2>2, <2>3, <2>4, <2>5, Calm DEF ProcOK, k, r
<1>4. CASE Set(p, [r EXCEPT !.pc = "open", !.i = @ + 1]) /\ r.i # Len(r.args)
  <2> DEFINE next == r.i + 1
  <2>0. next \in Nat /\ next = r.i + 1
    BY <1>1, <1>2, <1>4 DEF Proc
  <2> HIDE DEF next
  <2> DEFINE k == [r EXCEPT !.pc = "open", !.i = next]
  <2>1. "open" \in PCs /\ next \in Nat
    BY <1>1, <1>2, <2>0 DEF Proc, PCs, Sources, Contents, NoText, Fds, Replacing, DiskOK
  <2>2. /\ k \in Proc /\ k.pc = "open" /\ k.i = next
        /\ k.args = r.args /\ k.mode = r.mode /\ k.fds = r.fds /\ k.src = r.src
        /\ k.ino = r.ino /\ k.tmp = r.tmp /\ k.res = r.res /\ k.error = r.error
    BY <1>1, <2>1 DEF Proc
  <2> HIDE DEF k, r
  <2>3. PlaceOK(k) /\ FdsOK(k)
    BY <1>1, <1>2, <1>4, <2>2, <2>0 DEF ProcOK, PlaceOK, FdsOK, Replacing
  <2>4. FileOK(k, dir, inodes)
    BY <1>1, <1>2, <1>4, <2>2, <2>0 DEF ProcOK, FileOK, Replacing, Writing
  <2>5. edits = 0 => SuccessOK(k, dir, inodes)
    BY <1>1, <1>2, <1>4, <2>2, <2>0 DEF ProcOK, PlaceOK, SuccessOK, Name, Replacing
  <2>6. QED
    BY <1>1, <1>4, <2>2, <2>3, <2>4, <2>5, Calm DEF ProcOK, k, r, next
<1>5. QED
  BY <1>1, <1>2, <1>3, <1>4 DEF NextFile, Go, Return

LEMMA OpenOK ==
  ASSUME IInv, NEW p \in Procs, Open(p), KnfmtAssumption
  PROVE  IInv'
<1> DEFINE r == ps[p]
<1>1. /\ r \in Proc /\ ProcOK(r, dir, inodes, edits) /\ r.pc = "open"
      /\ DiskOK(dir, inodes) /\ UNCHANGED Disk
  BY DEF IInv, Open, At
<1>2. /\ Len(r.args) \in Nat /\ r.i \in Nat
      /\ r.i > 0 => Name(r) \in Paths
  BY <1>1, Names, LenProperties DEF Proc, ProcOK
<1>3. CASE Set(p, [r EXCEPT !.pc = "read", !.ino = dir[Path(p)], !.fds = @ \cup {"in"}])
  <2> DEFINE num == dir[Path(p)]
  <2>0. num \in DOMAIN inodes /\ num = dir[Name(r)] /\ inodes[num].mode = "user"
    BY <1>1, <1>2, <1>3 DEF Proc, ProcOK, PlaceOK, DiskOK, Path, Name, Replacing
  <2> HIDE DEF num
  <2> DEFINE k == [r EXCEPT !.pc = "read", !.ino = num, !.fds = @ \cup {"in"}]
  <2>1. "read" \in PCs /\ num \in Nat /\ r.fds \cup {"in"} \in SUBSET Fds
    BY <1>1, <1>2, <2>0 DEF Proc, PCs, Sources, Contents, NoText, Fds, Replacing, DiskOK
  <2>2. /\ k \in Proc /\ k.pc = "read" /\ k.ino = num /\ k.fds = r.fds \cup {"in"}
        /\ k.args = r.args /\ k.mode = r.mode /\ k.i = r.i /\ k.src = r.src
        /\ k.tmp = r.tmp /\ k.res = r.res /\ k.error = r.error
    BY <1>1, <2>1 DEF Proc
  <2> HIDE DEF k, r
  <2>3. PlaceOK(k) /\ FdsOK(k)
    BY <1>1, <1>2, <1>3, <2>2, <2>0 DEF ProcOK, PlaceOK, FdsOK, Replacing
  <2>4. FileOK(k, dir, inodes)
    BY <1>1, <1>2, <1>3, <2>2, <2>0 DEF ProcOK, FileOK, Replacing, Writing
  <2>5. edits = 0 => SuccessOK(k, dir, inodes)
    BY <1>1, <1>2, <1>3, <2>2, <2>0 DEF ProcOK, PlaceOK, SuccessOK, Name, Replacing
  <2>6. QED
    BY <1>1, <1>3, <2>2, <2>3, <2>4, <2>5, Calm DEF ProcOK, k, r, num
<1>4. CASE Set(p, [r EXCEPT !.pc = "close", !.res = 1])
  <2> DEFINE k == [r EXCEPT !.pc = "close", !.res = 1]
  <2>1. "close" \in PCs /\ 1 \in Int
    BY <1>1, <1>2 DEF Proc, PCs, Sources, Contents, NoText, Fds, Replacing, DiskOK
  <2>2. /\ k \in Proc /\ k.pc = "close" /\ k.res = 1
        /\ k.args = r.args /\ k.mode = r.mode /\ k.i = r.i /\ k.fds = r.fds
        /\ k.src = r.src /\ k.ino = r.ino /\ k.tmp = r.tmp /\ k.error = r.error
    BY <1>1, <2>1 DEF Proc
  <2> HIDE DEF k, r
  <2>3. PlaceOK(k) /\ FdsOK(k)
    BY <1>1, <1>2, <1>4, <2>2 DEF ProcOK, PlaceOK, FdsOK, Replacing
  <2>4. FileOK(k, dir, inodes)
    BY <1>1, <1>2, <1>4, <2>2 DEF ProcOK, FileOK, Replacing, Writing
  <2>5. edits = 0 => SuccessOK(k, dir, inodes)
    BY <1>1, <1>2, <1>4, <2>2 DEF ProcOK, PlaceOK, SuccessOK, Name, Replacing
  <2>6. QED
    BY <1>1, <1>4, <2>2, <2>3, <2>4, <2>5, Calm DEF ProcOK, k, r
<1>5. QED
  BY <1>1, <1>2, <1>3, <1>4 DEF Open, Go, Return

LEMMA ReadOK ==
  ASSUME IInv, NEW p \in Procs, Read(p), KnfmtAssumption
  PROVE  IInv'
<1> DEFINE r == ps[p]
<1>1. /\ r \in Proc /\ ProcOK(r, dir, inodes, edits) /\ r.pc = "read"
      /\ DiskOK(dir, inodes) /\ UNCHANGED Disk
  BY DEF IInv, Read, At
<1>2. /\ Len(r.args) \in Nat /\ r.i \in Nat
      /\ r.i > 0 => Name(r) \in Paths
  BY <1>1, Names, LenProperties DEF Proc, ProcOK
<1>3. CASE Set(p, [r EXCEPT !.pc = "format", !.src = inodes[ps[p].ino].text])
  <2> DEFINE text == inodes[ps[p].ino].text
  <2>0. text \in Contents /\ text = inodes[r.ino].text
    BY <1>1, <1>2, <1>3, Disks DEF Proc, ProcOK, FileOK, Writing
  <2> HIDE DEF text
  <2> DEFINE k == [r EXCEPT !.pc = "format", !.src = text]
  <2>1. "format" \in PCs /\ text \in Sources
    BY <1>1, <1>2, <2>0 DEF Proc, PCs, Sources, Contents, NoText, Fds, Replacing, DiskOK
  <2>2. /\ k \in Proc /\ k.pc = "format" /\ k.src = text
        /\ k.args = r.args /\ k.mode = r.mode /\ k.i = r.i /\ k.fds = r.fds
        /\ k.ino = r.ino /\ k.tmp = r.tmp /\ k.res = r.res /\ k.error = r.error
    BY <1>1, <2>1 DEF Proc
  <2> HIDE DEF k, r
  <2>3. PlaceOK(k) /\ FdsOK(k)
    BY <1>1, <1>2, <1>3, <2>2, <2>0 DEF ProcOK, PlaceOK, FdsOK, Replacing
  <2>4. FileOK(k, dir, inodes)
    BY <1>1, <1>2, <1>3, <2>2, <2>0 DEF ProcOK, FileOK, Replacing, Writing
  <2>5. edits = 0 => SuccessOK(k, dir, inodes)
    BY <1>1, <1>2, <1>3, <2>2, <2>0 DEF ProcOK, PlaceOK, SuccessOK, Name, Replacing, NeatIn
  <2>6. QED
    BY <1>1, <1>3, <2>2, <2>3, <2>4, <2>5, Calm DEF ProcOK, k, r, text
<1>4. CASE Set(p, [r EXCEPT !.pc = "close", !.res = 1, !.fds = @ \ {"in"}])
  <2> DEFINE k == [r EXCEPT !.pc = "close", !.res = 1, !.fds = @ \ {"in"}]
  <2>1. "close" \in PCs /\ 1 \in Int /\ r.fds \ {"in"} \in SUBSET Fds
    BY <1>1, <1>2 DEF Proc, PCs, Sources, Contents, NoText, Fds, Replacing, DiskOK
  <2>2. /\ k \in Proc /\ k.pc = "close" /\ k.res = 1 /\ k.fds = r.fds \ {"in"}
        /\ k.args = r.args /\ k.mode = r.mode /\ k.i = r.i /\ k.src = r.src
        /\ k.ino = r.ino /\ k.tmp = r.tmp /\ k.error = r.error
    BY <1>1, <2>1 DEF Proc
  <2> HIDE DEF k, r
  <2>3. PlaceOK(k) /\ FdsOK(k)
    BY <1>1, <1>2, <1>4, <2>2 DEF ProcOK, PlaceOK, FdsOK, Replacing
  <2>4. FileOK(k, dir, inodes)
    BY <1>1, <1>2, <1>4, <2>2 DEF ProcOK, FileOK, Replacing, Writing
  <2>5. edits = 0 => SuccessOK(k, dir, inodes)
    BY <1>1, <1>2, <1>4, <2>2 DEF ProcOK, PlaceOK, SuccessOK, Name, Replacing
  <2>6. QED
    BY <1>1, <1>4, <2>2, <2>3, <2>4, <2>5, Calm DEF ProcOK, k, r
<1>5. QED
  BY <1>1, <1>2, <1>3, <1>4 DEF Read, Go, Return

LEMMA FormatOK ==
  ASSUME IInv, NEW p \in Procs, Format(p), KnfmtAssumption
  PROVE  IInv'
<1> DEFINE r == ps[p]
<1>1. /\ r \in Proc /\ ProcOK(r, dir, inodes, edits) /\ r.pc = "format"
      /\ DiskOK(dir, inodes) /\ UNCHANGED Disk
  BY DEF IInv, Format, At
<1>2. /\ Len(r.args) \in Nat /\ r.i \in Nat
      /\ r.i > 0 => Name(r) \in Paths
  BY <1>1, Names, LenProperties DEF Proc, ProcOK
<1>3. CASE Set(p, [r EXCEPT !.pc = "close", !.res = 1]) /\ r.src = "bad"
  <2> DEFINE k == [r EXCEPT !.pc = "close", !.res = 1]
  <2>1. "close" \in PCs /\ 1 \in Int
    BY <1>1, <1>2 DEF Proc, PCs, Sources, Contents, NoText, Fds, Replacing, DiskOK
  <2>2. /\ k \in Proc /\ k.pc = "close" /\ k.res = 1
        /\ k.args = r.args /\ k.mode = r.mode /\ k.i = r.i /\ k.fds = r.fds
        /\ k.src = r.src /\ k.ino = r.ino /\ k.tmp = r.tmp /\ k.error = r.error
    BY <1>1, <2>1 DEF Proc
  <2> HIDE DEF k, r
  <2>3. PlaceOK(k) /\ FdsOK(k)
    BY <1>1, <1>2, <1>3, <2>2 DEF ProcOK, PlaceOK, FdsOK, Replacing
  <2>4. FileOK(k, dir, inodes)
    BY <1>1, <1>2, <1>3, <2>2 DEF ProcOK, FileOK, Replacing, Writing
  <2>5. edits = 0 => SuccessOK(k, dir, inodes)
    BY <1>1, <1>2, <1>3, <2>2 DEF ProcOK, PlaceOK, SuccessOK, Name, Replacing
  <2>6. QED
    BY <1>1, <1>3, <2>2, <2>3, <2>4, <2>5, Calm DEF ProcOK, k, r
<1>4. CASE Set(p, [r EXCEPT !.pc = "print"]) /\ r.src # "bad" /\ r.mode = "print"
  <2> DEFINE k == [r EXCEPT !.pc = "print"]
  <2>1. "print" \in PCs
    BY <1>1, <1>2 DEF Proc, PCs, Sources, Contents, NoText, Fds, Replacing, DiskOK
  <2>2. /\ k \in Proc /\ k.pc = "print"
        /\ k.args = r.args /\ k.mode = r.mode /\ k.i = r.i /\ k.fds = r.fds
        /\ k.src = r.src /\ k.ino = r.ino /\ k.tmp = r.tmp /\ k.res = r.res
        /\ k.error = r.error
    BY <1>1, <2>1 DEF Proc
  <2> HIDE DEF k, r
  <2>3. PlaceOK(k) /\ FdsOK(k)
    BY <1>1, <1>2, <1>4, <2>2 DEF ProcOK, PlaceOK, FdsOK, Replacing
  <2>4. FileOK(k, dir, inodes)
    BY <1>1, <1>2, <1>4, <2>2 DEF ProcOK, FileOK, Replacing, Writing
  <2>5. edits = 0 => SuccessOK(k, dir, inodes)
    BY <1>1, <1>2, <1>4, <2>2 DEF ProcOK, PlaceOK, SuccessOK, Name, Replacing
  <2>6. QED
    BY <1>1, <1>4, <2>2, <2>3, <2>4, <2>5, Calm DEF ProcOK, k, r
<1>5. CASE Set(p, [r EXCEPT !.pc = "close", !.res = 0]) /\ r.src = "neat" /\ r.mode # "print"
  <2> DEFINE k == [r EXCEPT !.pc = "close", !.res = 0]
  <2>1. "close" \in PCs /\ 0 \in Int
    BY <1>1, <1>2 DEF Proc, PCs, Sources, Contents, NoText, Fds, Replacing, DiskOK
  <2>2. /\ k \in Proc /\ k.pc = "close" /\ k.res = 0
        /\ k.args = r.args /\ k.mode = r.mode /\ k.i = r.i /\ k.fds = r.fds
        /\ k.src = r.src /\ k.ino = r.ino /\ k.tmp = r.tmp /\ k.error = r.error
    BY <1>1, <2>1 DEF Proc
  <2> HIDE DEF k, r
  <2>3. PlaceOK(k) /\ FdsOK(k)
    BY <1>1, <1>2, <1>5, <2>2 DEF ProcOK, PlaceOK, FdsOK, Replacing
  <2>4. FileOK(k, dir, inodes)
    BY <1>1, <1>2, <1>5, <2>2 DEF ProcOK, FileOK, Replacing, Writing
  <2>5. edits = 0 => SuccessOK(k, dir, inodes)
    BY <1>1, <1>2, <1>5, <2>2 DEF ProcOK, PlaceOK, SuccessOK, Name, Replacing
  <2>6. QED
    BY <1>1, <1>5, <2>2, <2>3, <2>4, <2>5, Calm DEF ProcOK, k, r
<1>6. CASE Set(p, [r EXCEPT !.pc = "diff"]) /\ r.src # "bad" /\ r.mode = "diff"
  <2> DEFINE k == [r EXCEPT !.pc = "diff"]
  <2>1. "diff" \in PCs
    BY <1>1, <1>2 DEF Proc, PCs, Sources, Contents, NoText, Fds, Replacing, DiskOK
  <2>2. /\ k \in Proc /\ k.pc = "diff"
        /\ k.args = r.args /\ k.mode = r.mode /\ k.i = r.i /\ k.fds = r.fds
        /\ k.src = r.src /\ k.ino = r.ino /\ k.tmp = r.tmp /\ k.res = r.res
        /\ k.error = r.error
    BY <1>1, <2>1 DEF Proc
  <2> HIDE DEF k, r
  <2>3. PlaceOK(k) /\ FdsOK(k)
    BY <1>1, <1>2, <1>6, <2>2 DEF ProcOK, PlaceOK, FdsOK, Replacing
  <2>4. FileOK(k, dir, inodes)
    BY <1>1, <1>2, <1>6, <2>2 DEF ProcOK, FileOK, Replacing, Writing
  <2>5. edits = 0 => SuccessOK(k, dir, inodes)
    BY <1>1, <1>2, <1>6, <2>2 DEF ProcOK, PlaceOK, SuccessOK, Name, Replacing
  <2>6. QED
    BY <1>1, <1>6, <2>2, <2>3, <2>4, <2>5, Calm DEF ProcOK, k, r
<1>7. CASE Set(p, [r EXCEPT !.pc = "inplace"]) /\ r.src # "bad" /\ r.mode = "inplace"
  <2> DEFINE k == [r EXCEPT !.pc = "inplace"]
  <2>1. "inplace" \in PCs
    BY <1>1, <1>2 DEF Proc, PCs, Sources, Contents, NoText, Fds, Replacing, DiskOK
  <2>2. /\ k \in Proc /\ k.pc = "inplace"
        /\ k.args = r.args /\ k.mode = r.mode /\ k.i = r.i /\ k.fds = r.fds
        /\ k.src = r.src /\ k.ino = r.ino /\ k.tmp = r.tmp /\ k.res = r.res
        /\ k.error = r.error
    BY <1>1, <2>1 DEF Proc
  <2> HIDE DEF k, r
  <2>3. PlaceOK(k) /\ FdsOK(k)
    BY <1>1, <1>2, <1>7, <2>2 DEF ProcOK, PlaceOK, FdsOK, Replacing
  <2>4. FileOK(k, dir, inodes)
    BY <1>1, <1>2, <1>7, <2>2 DEF ProcOK, FileOK, Replacing, Writing
  <2>5. edits = 0 => SuccessOK(k, dir, inodes)
    BY <1>1, <1>2, <1>7, <2>2 DEF ProcOK, PlaceOK, SuccessOK, Name, Replacing
  <2>6. QED
    BY <1>1, <1>7, <2>2, <2>3, <2>4, <2>5, Calm DEF ProcOK, k, r
<1>8. QED
  BY <1>1, <1>2, <1>3, <1>4, <1>5, <1>6, <1>7 DEF Format, Go, Return, Proc, KnfmtAssumption

LEMMA PrintFileOK ==
  ASSUME IInv, NEW p \in Procs, PrintFile(p), KnfmtAssumption
  PROVE  IInv'
<1> DEFINE r == ps[p]
<1>1. /\ r \in Proc /\ ProcOK(r, dir, inodes, edits) /\ r.pc = "print"
      /\ DiskOK(dir, inodes) /\ UNCHANGED Disk
  BY DEF IInv, PrintFile, At
<1>2. /\ Len(r.args) \in Nat /\ r.i \in Nat
      /\ r.i > 0 => Name(r) \in Paths
  BY <1>1, Names, LenProperties DEF Proc, ProcOK
<1>3. CASE Set(p, [r EXCEPT !.pc = "close", !.res = 0])
  <2> DEFINE k == [r EXCEPT !.pc = "close", !.res = 0]
  <2>1. "close" \in PCs /\ 0 \in Int
    BY <1>1, <1>2 DEF Proc, PCs, Sources, Contents, NoText, Fds, Replacing, DiskOK
  <2>2. /\ k \in Proc /\ k.pc = "close" /\ k.res = 0
        /\ k.args = r.args /\ k.mode = r.mode /\ k.i = r.i /\ k.fds = r.fds
        /\ k.src = r.src /\ k.ino = r.ino /\ k.tmp = r.tmp /\ k.error = r.error
    BY <1>1, <2>1 DEF Proc
  <2> HIDE DEF k, r
  <2>3. PlaceOK(k) /\ FdsOK(k)
    BY <1>1, <1>2, <1>3, <2>2 DEF ProcOK, PlaceOK, FdsOK, Replacing
  <2>4. FileOK(k, dir, inodes)
    BY <1>1, <1>2, <1>3, <2>2 DEF ProcOK, FileOK, Replacing, Writing
  <2>5. edits = 0 => SuccessOK(k, dir, inodes)
    BY <1>1, <1>2, <1>3, <2>2 DEF ProcOK, PlaceOK, SuccessOK, Name, Replacing
  <2>6. QED
    BY <1>1, <1>3, <2>2, <2>3, <2>4, <2>5, Calm DEF ProcOK, k, r
<1>4. CASE Set(p, [r EXCEPT !.pc = "close", !.res = 1])
  <2> DEFINE k == [r EXCEPT !.pc = "close", !.res = 1]
  <2>1. "close" \in PCs /\ 1 \in Int
    BY <1>1, <1>2 DEF Proc, PCs, Sources, Contents, NoText, Fds, Replacing, DiskOK
  <2>2. /\ k \in Proc /\ k.pc = "close" /\ k.res = 1
        /\ k.args = r.args /\ k.mode = r.mode /\ k.i = r.i /\ k.fds = r.fds
        /\ k.src = r.src /\ k.ino = r.ino /\ k.tmp = r.tmp /\ k.error = r.error
    BY <1>1, <2>1 DEF Proc
  <2> HIDE DEF k, r
  <2>3. PlaceOK(k) /\ FdsOK(k)
    BY <1>1, <1>2, <1>4, <2>2 DEF ProcOK, PlaceOK, FdsOK, Replacing
  <2>4. FileOK(k, dir, inodes)
    BY <1>1, <1>2, <1>4, <2>2 DEF ProcOK, FileOK, Replacing, Writing
  <2>5. edits = 0 => SuccessOK(k, dir, inodes)
    BY <1>1, <1>2, <1>4, <2>2 DEF ProcOK, PlaceOK, SuccessOK, Name, Replacing
  <2>6. QED
    BY <1>1, <1>4, <2>2, <2>3, <2>4, <2>5, Calm DEF ProcOK, k, r
<1>5. QED
  BY <1>1, <1>2, <1>3, <1>4 DEF PrintFile, Go, Return

LEMMA DiffOK ==
  ASSUME IInv, NEW p \in Procs, Diff(p), KnfmtAssumption
  PROVE  IInv'
<1> DEFINE r == ps[p]
<1>1. /\ r \in Proc /\ ProcOK(r, dir, inodes, edits) /\ r.pc = "diff"
      /\ DiskOK(dir, inodes) /\ UNCHANGED Disk
  BY DEF IInv, Diff, At
<1>2. /\ Len(r.args) \in Nat /\ r.i \in Nat
      /\ r.i > 0 => Name(r) \in Paths
  BY <1>1, Names, LenProperties DEF Proc, ProcOK
<1>3. CASE Set(p, [r EXCEPT !.fds = @ \cup {IF "a" \in @ THEN "b" ELSE "a"}])
  <2> DEFINE k == [r EXCEPT !.fds = @ \cup {IF "a" \in @ THEN "b" ELSE "a"}]
  <2>1. r.fds \cup {IF "a" \in r.fds THEN "b" ELSE "a"} \in SUBSET Fds
    BY <1>1, <1>2 DEF Proc, PCs, Sources, Contents, NoText, Fds, Replacing, DiskOK
  <2>2. /\ k \in Proc /\ k.fds = r.fds \cup {IF "a" \in r.fds THEN "b" ELSE "a"}
        /\ k.pc = r.pc /\ k.args = r.args /\ k.mode = r.mode /\ k.i = r.i
        /\ k.src = r.src /\ k.ino = r.ino /\ k.tmp = r.tmp /\ k.res = r.res
        /\ k.error = r.error
    BY <1>1, <2>1 DEF Proc
  <2> HIDE DEF k, r
  <2>3. PlaceOK(k) /\ FdsOK(k)
    BY <1>1, <1>2, <1>3, <2>2 DEF ProcOK, PlaceOK, FdsOK, Replacing
  <2>4. FileOK(k, dir, inodes)
    BY <1>1, <1>2, <1>3, <2>2 DEF ProcOK, FileOK, Replacing, Writing
  <2>5. edits = 0 => SuccessOK(k, dir, inodes)
    BY <1>1, <1>2, <1>3, <2>2 DEF ProcOK, PlaceOK, SuccessOK, Name, Replacing
  <2>6. QED
    BY <1>1, <1>3, <2>2, <2>3, <2>4, <2>5, Calm DEF ProcOK, k, r
<1>4. CASE Set(p, [r EXCEPT !.pc = "close", !.res = 1, !.fds = @ \ {"a", "b"}])
  <2> DEFINE k == [r EXCEPT !.pc = "close", !.res = 1, !.fds = @ \ {"a", "b"}]
  <2>1. "close" \in PCs /\ 1 \in Int /\ r.fds \ {"a", "b"} \in SUBSET Fds
    BY <1>1, <1>2 DEF Proc, PCs, Sources, Contents, NoText, Fds, Replacing, DiskOK
  <2>2. /\ k \in Proc /\ k.pc = "close" /\ k.res = 1 /\ k.fds = r.fds \ {"a", "b"}
        /\ k.args = r.args /\ k.mode = r.mode /\ k.i = r.i /\ k.src = r.src
        /\ k.ino = r.ino /\ k.tmp = r.tmp /\ k.error = r.error
    BY <1>1, <2>1 DEF Proc
  <2> HIDE DEF k, r
  <2>3. PlaceOK(k) /\ FdsOK(k)
    BY <1>1, <1>2, <1>4, <2>2 DEF ProcOK, PlaceOK, FdsOK, Replacing
  <2>4. FileOK(k, dir, inodes)
    BY <1>1, <1>2, <1>4, <2>2 DEF ProcOK, FileOK, Replacing, Writing
  <2>5. edits = 0 => SuccessOK(k, dir, inodes)
    BY <1>1, <1>2, <1>4, <2>2 DEF ProcOK, PlaceOK, SuccessOK, Name, Replacing
  <2>6. QED
    BY <1>1, <1>4, <2>2, <2>3, <2>4, <2>5, Calm DEF ProcOK, k, r
<1>5. CASE Set(p, [r EXCEPT !.pc = "close", !.res = -1, !.fds = @ \ {"a", "b"}])
  <2> DEFINE k == [r EXCEPT !.pc = "close", !.res = -1, !.fds = @ \ {"a", "b"}]
  <2>1. "close" \in PCs /\ -1 \in Int /\ r.fds \ {"a", "b"} \in SUBSET Fds
    BY <1>1, <1>2 DEF Proc, PCs, Sources, Contents, NoText, Fds, Replacing, DiskOK
  <2>2. /\ k \in Proc /\ k.pc = "close" /\ k.res = -1 /\ k.fds = r.fds \ {"a", "b"}
        /\ k.args = r.args /\ k.mode = r.mode /\ k.i = r.i /\ k.src = r.src
        /\ k.ino = r.ino /\ k.tmp = r.tmp /\ k.error = r.error
    BY <1>1, <2>1 DEF Proc
  <2> HIDE DEF k, r
  <2>3. PlaceOK(k) /\ FdsOK(k)
    BY <1>1, <1>2, <1>5, <2>2 DEF ProcOK, PlaceOK, FdsOK, Replacing
  <2>4. FileOK(k, dir, inodes)
    BY <1>1, <1>2, <1>5, <2>2 DEF ProcOK, FileOK, Replacing, Writing
  <2>5. edits = 0 => SuccessOK(k, dir, inodes)
    BY <1>1, <1>2, <1>5, <2>2 DEF ProcOK, PlaceOK, SuccessOK, Name, Replacing
  <2>6. QED
    BY <1>1, <1>5, <2>2, <2>3, <2>4, <2>5, Calm DEF ProcOK, k, r
<1>6. QED
  BY <1>1, <1>2, <1>3, <1>4, <1>5 DEF Diff, Go, Return

LEMMA CloseOK ==
  ASSUME IInv, NEW p \in Procs, Close(p), KnfmtAssumption
  PROVE  IInv'
<1> DEFINE r == ps[p]
<1>1. /\ r \in Proc /\ ProcOK(r, dir, inodes, edits) /\ r.pc = "close"
      /\ DiskOK(dir, inodes) /\ UNCHANGED Disk
  BY DEF IInv, Close, At
<1>2. /\ Len(r.args) \in Nat /\ r.i \in Nat
      /\ r.i > 0 => Name(r) \in Paths
  BY <1>1, Names, LenProperties DEF Proc, ProcOK
<1>3. CASE Set(p, [r EXCEPT !.pc = "next", !.error = IF ps[p].res = 0 THEN @ ELSE 1, !.fds = @ \ {"in"}, !.src = NoText])
  <2> DEFINE err == IF ps[p].res = 0 THEN r.error ELSE 1
  <2>0. err \in {0, 1} /\ (err = 0 => r.error = 0 /\ r.res = 0)
    BY <1>1, <1>2, <1>3 DEF Proc
  <2> HIDE DEF err
  <2> DEFINE k == [r EXCEPT !.pc = "next", !.error = err, !.fds = @ \ {"in"}, !.src = NoText]
  <2>1. "next" \in PCs /\ err \in {0, 1} /\ r.fds \ {"in"} \in SUBSET Fds /\ NoText \in Sources
    BY <1>1, <1>2, <2>0 DEF Proc, PCs, Sources, Contents, NoText, Fds, Replacing, DiskOK
  <2>2. /\ k \in Proc /\ k.pc = "next" /\ k.error = err /\ k.fds = r.fds \ {"in"} /\ k.src = NoText
        /\ k.args = r.args /\ k.mode = r.mode /\ k.i = r.i /\ k.ino = r.ino
        /\ k.tmp = r.tmp /\ k.res = r.res
    BY <1>1, <2>1 DEF Proc
  <2> HIDE DEF k, r
  <2>3. PlaceOK(k) /\ FdsOK(k)
    BY <1>1, <1>2, <1>3, <2>2, <2>0 DEF ProcOK, PlaceOK, FdsOK, Replacing
  <2>4. FileOK(k, dir, inodes)
    BY <1>1, <1>2, <1>3, <2>2, <2>0 DEF ProcOK, FileOK, Replacing, Writing
  <2>5. edits = 0 => SuccessOK(k, dir, inodes)
    BY <1>1, <1>2, <1>3, <2>2, <2>0 DEF ProcOK, PlaceOK, SuccessOK, Name, Replacing
  <2>6. QED
    BY <1>1, <1>3, <2>2, <2>3, <2>4, <2>5, Calm DEF ProcOK, k, r, err
<1>4. QED
  BY <1>1, <1>2, <1>3 DEF Close, Go, Return

LEMMA OpenSrcOK ==
  ASSUME IInv, NEW p \in Procs, OpenSrc(p), KnfmtAssumption
  PROVE  IInv'
<1> DEFINE r == ps[p]
<1>1. /\ r \in Proc /\ ProcOK(r, dir, inodes, edits) /\ r.pc = "inplace"
      /\ DiskOK(dir, inodes) /\ UNCHANGED Disk
  BY DEF IInv, OpenSrc, At
<1>2. /\ Len(r.args) \in Nat /\ r.i \in Nat
      /\ r.i > 0 => Name(r) \in Paths
  BY <1>1, Names, LenProperties DEF Proc, ProcOK
<1>3. CASE Set(p, [r EXCEPT !.pc = "mkstemp", !.ino = dir[Path(p)], !.fds = @ \cup {"src"}])
  <2> DEFINE num == dir[Path(p)]
  <2>0. num \in DOMAIN inodes /\ num = dir[Name(r)] /\ inodes[num].mode = "user"
    BY <1>1, <1>2, <1>3 DEF Proc, ProcOK, PlaceOK, DiskOK, Path, Name, Replacing
  <2> HIDE DEF num
  <2> DEFINE k == [r EXCEPT !.pc = "mkstemp", !.ino = num, !.fds = @ \cup {"src"}]
  <2>1. "mkstemp" \in PCs /\ num \in Nat /\ r.fds \cup {"src"} \in SUBSET Fds
    BY <1>1, <1>2, <2>0 DEF Proc, PCs, Sources, Contents, NoText, Fds, Replacing, DiskOK
  <2>2. /\ k \in Proc /\ k.pc = "mkstemp" /\ k.ino = num /\ k.fds = r.fds \cup {"src"}
        /\ k.args = r.args /\ k.mode = r.mode /\ k.i = r.i /\ k.src = r.src
        /\ k.tmp = r.tmp /\ k.res = r.res /\ k.error = r.error
    BY <1>1, <2>1 DEF Proc
  <2> HIDE DEF k, r
  <2>3. PlaceOK(k) /\ FdsOK(k)
    BY <1>1, <1>2, <1>3, <2>2, <2>0 DEF ProcOK, PlaceOK, FdsOK, Replacing
  <2>4. FileOK(k, dir, inodes)
    BY <1>1, <1>2, <1>3, <2>2, <2>0 DEF ProcOK, FileOK, Replacing, Writing
  <2>5. edits = 0 => SuccessOK(k, dir, inodes)
    BY <1>1, <1>2, <1>3, <2>2, <2>0 DEF ProcOK, PlaceOK, SuccessOK, Name, Replacing
  <2>6. QED
    BY <1>1, <1>3, <2>2, <2>3, <2>4, <2>5, Calm DEF ProcOK, k, r, num
<1>4. CASE Set(p, [r EXCEPT !.pc = "close", !.res = 1])
  <2> DEFINE k == [r EXCEPT !.pc = "close", !.res = 1]
  <2>1. "close" \in PCs /\ 1 \in Int
    BY <1>1, <1>2 DEF Proc, PCs, Sources, Contents, NoText, Fds, Replacing, DiskOK
  <2>2. /\ k \in Proc /\ k.pc = "close" /\ k.res = 1
        /\ k.args = r.args /\ k.mode = r.mode /\ k.i = r.i /\ k.fds = r.fds
        /\ k.src = r.src /\ k.ino = r.ino /\ k.tmp = r.tmp /\ k.error = r.error
    BY <1>1, <2>1 DEF Proc
  <2> HIDE DEF k, r
  <2>3. PlaceOK(k) /\ FdsOK(k)
    BY <1>1, <1>2, <1>4, <2>2 DEF ProcOK, PlaceOK, FdsOK, Replacing
  <2>4. FileOK(k, dir, inodes)
    BY <1>1, <1>2, <1>4, <2>2 DEF ProcOK, FileOK, Replacing, Writing
  <2>5. edits = 0 => SuccessOK(k, dir, inodes)
    BY <1>1, <1>2, <1>4, <2>2 DEF ProcOK, PlaceOK, SuccessOK, Name, Replacing
  <2>6. QED
    BY <1>1, <1>4, <2>2, <2>3, <2>4, <2>5, Calm DEF ProcOK, k, r
<1>5. QED
  BY <1>1, <1>2, <1>3, <1>4 DEF OpenSrc, Go, Return

LEMMA KillOK ==
  ASSUME IInv, NEW p \in Procs, Kill(p), KnfmtAssumption
  PROVE  IInv'
<1> DEFINE r == ps[p]
<1>1. /\ r \in Proc /\ ProcOK(r, dir, inodes, edits) /\ r.pc \notin {"exit", "killed"}
      /\ DiskOK(dir, inodes) /\ UNCHANGED Disk
  BY DEF IInv, Kill, At
<1>2. /\ Len(r.args) \in Nat /\ r.i \in Nat
      /\ r.i > 0 => Name(r) \in Paths
  BY <1>1, Names, LenProperties DEF Proc, ProcOK
<1>3. CASE Set(p, [r EXCEPT !.pc = "killed", !.fds = {}])
  <2> DEFINE k == [r EXCEPT !.pc = "killed", !.fds = {}]
  <2>1. "killed" \in PCs /\ {} \in SUBSET Fds
    BY <1>1, <1>2 DEF Proc, PCs, Sources, Contents, NoText, Fds, Replacing, DiskOK
  <2>2. /\ k \in Proc /\ k.pc = "killed" /\ k.fds = {}
        /\ k.args = r.args /\ k.mode = r.mode /\ k.i = r.i /\ k.src = r.src
        /\ k.ino = r.ino /\ k.tmp = r.tmp /\ k.res = r.res /\ k.error = r.error
    BY <1>1, <2>1 DEF Proc
  <2> HIDE DEF k, r
  <2>3. PlaceOK(k) /\ FdsOK(k)
    BY <1>1, <1>2, <1>3, <2>2 DEF ProcOK, PlaceOK, FdsOK, Replacing
  <2>4. FileOK(k, dir, inodes)
    BY <1>1, <1>2, <1>3, <2>2 DEF ProcOK, FileOK, Replacing, Writing
  <2>5. edits = 0 => SuccessOK(k, dir, inodes)
    BY <1>1, <1>2, <1>3, <2>2 DEF ProcOK, PlaceOK, SuccessOK, Name, Replacing
  <2>6. QED
    BY <1>1, <1>3, <2>2, <2>3, <2>4, <2>5, Calm DEF ProcOK, k, r
<1>4. QED
  BY <1>1, <1>2, <1>3 DEF Kill, Go, Return

LEMMA OutOK ==
  ASSUME IInv, NEW p \in Procs, ps[p].pc \in Replacing, Set(p, Out(p, 1)), UNCHANGED Disk,
         KnfmtAssumption
  PROVE  IInv'
<1> DEFINE r == ps[p]
<1>1. /\ r \in Proc /\ ProcOK(r, dir, inodes, edits) /\ r.pc \in Replacing
      /\ DiskOK(dir, inodes) /\ UNCHANGED Disk
  BY DEF IInv, At
<1>2. /\ Len(r.args) \in Nat /\ r.i \in Nat
      /\ r.i > 0 => Name(r) \in Paths
  BY <1>1, Names, LenProperties DEF Proc, ProcOK
<1>3. CASE Set(p, [r EXCEPT !.pc = "unlink", !.res = 1])
  <2> DEFINE k == [r EXCEPT !.pc = "unlink", !.res = 1]
  <2>1. "unlink" \in PCs /\ 1 \in Int
    BY <1>1, <1>2 DEF Proc, PCs, Sources, Contents, NoText, Fds, Replacing, DiskOK
  <2>2. /\ k \in Proc /\ k.pc = "unlink" /\ k.res = 1
        /\ k.args = r.args /\ k.mode = r.mode /\ k.i = r.i /\ k.fds = r.fds
        /\ k.src = r.src /\ k.ino = r.ino /\ k.tmp = r.tmp /\ k.error = r.error
    BY <1>1, <2>1 DEF Proc
  <2> HIDE DEF k, r
  <2>3. PlaceOK(k) /\ FdsOK(k)
    BY <1>1, <1>2, <1>3, <2>2 DEF ProcOK, PlaceOK, FdsOK, Replacing
  <2>4. FileOK(k, dir, inodes)
    BY <1>1, <1>2, <1>3, <2>2 DEF ProcOK, FileOK, Replacing, Writing
  <2>5. edits = 0 => SuccessOK(k, dir, inodes)
    BY <1>1, <1>2, <1>3, <2>2 DEF ProcOK, PlaceOK, SuccessOK, Name, Replacing
  <2>6. QED
    BY <1>1, <1>3, <2>2, <2>3, <2>4, <2>5, Calm DEF ProcOK, k, r
<1>4. QED
  BY <1>1, <1>2, <1>3 DEF Out

-----------------------------------------------------------------------------
(* Steps that change the disk.                                               *)

LEMMA Stirred ==
  ASSUME IInv, KnfmtAssumption, NEW p \in Procs, NEW k, Set(p, k), edits' = edits,
         ProcOK(k, dir', inodes', edits), DiskOK(dir', inodes'),
         DiskStep(ps[p].tmp, dir, inodes, edits, dir', inodes', edits),
         k.tmp \in {0, ps[p].tmp, Len(inodes) + 1},
         \A n \in TempsOf(dir') : n = k.tmp \/ (n \in TempsOf(dir) /\ n # ps[p].tmp)
  PROVE  IInv'
<1>1. k \in Proc /\ ps' = [ps EXCEPT ![p] = k] /\ ps' \in [Procs -> Proc]
  BY DEF IInv, ProcOK, Set
<1>2. \A q \in Procs : ps'[q] = IF q = p THEN k ELSE ps[q]
  BY <1>1 DEF IInv
<1>3. ASSUME NEW q \in Procs, q # p
      PROVE  ProcOK(ps[q], dir', inodes', edits)
  <2>1. ps[q].tmp # ps[p].tmp \/ ps[q].tmp = 0
    BY <1>3 DEF IInv, Apart
  <2>2. ProcOK(ps[q], dir, inodes, edits) /\ DiskOK(dir, inodes) /\ inodes' \in Seq(Inode)
    BY DEF IInv, DiskOK
  <2>3. QED
    BY <2>1, <2>2, OthersKeep
<1>4. \A q \in Procs : ProcOK(ps'[q], dir', inodes', edits')
  BY <1>2, <1>3
<1>5. \A q \in Procs : ps[q].tmp \in Nat /\ ps[q].tmp <= Len(inodes)
  BY DEF IInv, ProcOK, FileOK, Proc
<1>6. Len(inodes) \in Nat
  BY Disks DEF IInv
<1>7. Apart'
  BY <1>2, <1>5, <1>6 DEF Apart, IInv
<1>8. NoLitter'
  <2> SUFFICES ASSUME NEW n \in TempsOf(dir')
               PROVE  \E q \in Procs : ps'[q].tmp = n
    BY DEF NoLitter, Temps, TempsOf
  <2>1. CASE n = k.tmp
    BY <2>1, <1>2
  <2>2. CASE n \in TempsOf(dir) /\ n # ps[p].tmp
    BY <2>2, <1>2 DEF IInv, NoLitter, Temps, TempsOf
  <2>3. QED
    BY <2>1, <2>2
<1>9. QED
  BY <1>1, <1>4, <1>7, <1>8 DEF IInv

\* What is known of a process and the disk before such a step.
LEMMA Before ==
  ASSUME IInv, KnfmtAssumption, NEW p \in Procs, ps[p].pc \in Replacing
  PROVE  /\ ps[p] \in Proc /\ ProcOK(ps[p], dir, inodes, edits) /\ DiskOK(dir, inodes)
         /\ ps[p].tmp \in Nat /\ ps[p].tmp \notin Paths /\ Name(ps[p]) \in Paths
         /\ Len(inodes) \in Nat /\ DOMAIN inodes = 1..Len(inodes)
         /\ ps[p].i \in Nat /\ ps[p].i \in 1..Len(ps[p].args) /\ Len(ps[p].args) \in Nat
         /\ ps[p].pc \in {"mkstemp", "write", "inherit"} =>
                ps[p].ino \in DOMAIN inodes /\ inodes[ps[p].ino].mode = "user"
<1> DEFINE r == ps[p]
<1>1. r \in Proc /\ ProcOK(r, dir, inodes, edits) /\ DiskOK(dir, inodes)
  BY DEF IInv
<1>2. r.tmp \in Nat /\ r.tmp \notin Paths /\ r.i \in Nat
  BY <1>1 DEF Proc, KnfmtAssumption
<1>3. Len(r.args) \in Nat
  BY <1>1, Names, LenProperties
<1>4. r.i > 0 /\ r.i <= Len(r.args)
  BY <1>1 DEF ProcOK, PlaceOK, Replacing
<1>5. Name(r) \in Paths
  BY <1>1, <1>4, Names DEF ProcOK
<1>6. r.pc \in {"mkstemp", "write", "inherit"} => r.ino \in DOMAIN inodes /\ inodes[r.ino].mode = "user"
  BY <1>1 DEF ProcOK, FileOK, Writing
<1>7. Len(inodes) \in Nat /\ DOMAIN inodes = 1..Len(inodes)
  BY <1>1, Disks
<1>8. QED
  BY <1>1, <1>2, <1>3, <1>4, <1>5, <1>6, <1>7

LEMMA MkstempOK ==
  ASSUME IInv, NEW p \in Procs, Mkstemp(p), KnfmtAssumption
  PROVE  IInv'
<1> DEFINE r == ps[p]
           n == Len(inodes) + 1
           k == [r EXCEPT !.pc = "write", !.tmp = n, !.fds = @ \cup {"tmp"}]
           made == [text |-> Formatted(r.src), whole |-> FALSE, mode |-> "private"]
<1>1. r.pc = "mkstemp" /\ edits' = edits
  BY DEF Mkstemp, At
<1>2. CASE Set(p, Out(p, 1)) /\ UNCHANGED <<dir, inodes>>
  BY <1>1, <1>2, OutOK DEF Replacing, Disk
<1>3. CASE /\ inodes' = Append(inodes, made)
           /\ dir' = [f \in DOMAIN dir \cup {n} |-> IF f = n THEN n ELSE dir[f]]
           /\ Set(p, k)
  <2>1. /\ r \in Proc /\ ProcOK(r, dir, inodes, edits) /\ DiskOK(dir, inodes) /\ r.tmp = 0
        /\ Len(inodes) \in Nat /\ DOMAIN inodes = 1..Len(inodes)
        /\ r.ino \in DOMAIN inodes /\ inodes[r.ino].mode = "user" /\ r.src # "bad"
    BY <1>1, Before DEF Replacing, Writing, ProcOK, FileOK, PlaceOK
  <2>2. n \in Nat /\ n \notin Paths /\ n \notin DOMAIN inodes /\ n \notin TempsOf(dir)
    BY <2>1 DEF KnfmtAssumption, DiskOK
  <2>3. made \in Inode /\ made.text = "neat"
    BY <2>1 DEF Formatted, Inode, Contents
  <2>4. /\ inodes' \in Seq(Inode) /\ Len(inodes') = n /\ DOMAIN inodes' = 1..n
        /\ inodes'[n] = made /\ \A m \in DOMAIN inodes : inodes'[m] = inodes[m]
    <3> HIDE DEF made
    <3>1. QED
      BY <1>3, <2>1, <2>3, AppendProperties DEF DiskOK
  <2>5. /\ TempsOf(dir') = TempsOf(dir) \cup {n} /\ Paths \subseteq DOMAIN dir'
        /\ \A f \in DOMAIN dir \ {n} : dir'[f] = dir[f]
        /\ \A f \in Paths : dir'[f] = dir[f]
        /\ dir'[n] = n
    BY <1>3, <2>1, <2>2 DEF TempsOf, DiskOK
  <2>6. DiskOK(dir', inodes')
    BY <2>1, <2>2, <2>4, <2>5 DEF DiskOK, TempsOf
  <2>7. DiskStep(0, dir, inodes, edits, dir', inodes', edits)
    BY <2>1, <2>2, <2>4, <2>5 DEF DiskStep, DiskOK
  <2>8. "write" \in PCs /\ n \in Nat /\ r.fds \cup {"tmp"} \in SUBSET Fds
    BY <2>1, <2>2 DEF Proc, PCs, Fds, Replacing
  <2>9. /\ k \in Proc /\ k.pc = "write" /\ k.tmp = n /\ k.fds = r.fds \cup {"tmp"}
        /\ k.args = r.args /\ k.mode = r.mode /\ k.i = r.i /\ k.src = r.src
        /\ k.ino = r.ino /\ k.res = r.res /\ k.error = r.error
    BY <2>1, <2>8 DEF Proc
  <2>10. edits = 0 => SuccessOK(r, dir', inodes')
    BY <2>1, <2>7, StillTrue DEF ProcOK
  <2> HIDE DEF k, r, n, made
  <2>11. PlaceOK(k) /\ FdsOK(k)
    BY <1>1, <2>1, <2>9 DEF ProcOK, PlaceOK, FdsOK, Replacing
  <2>12. FileOK(k, dir', inodes')
    <3>1. r.ino \in DOMAIN inodes' /\ inodes'[r.ino].mode = "user"
      BY <2>1, <2>4 DEF n
    <3>2. n \in TempsOf(dir') /\ inodes'[n].text = "neat" /\ n <= Len(inodes')
      BY <2>2, <2>3, <2>4, <2>5
    <3>3. QED
      BY <2>9, <3>1, <3>2 DEF FileOK, Writing
  <2>13. edits = 0 => SuccessOK(k, dir', inodes')
    BY <1>1, <2>1, <2>9, <2>10 DEF SuccessOK, Name
  <2>14. ProcOK(k, dir', inodes', edits)
    BY <2>9, <2>11, <2>12, <2>13 DEF ProcOK
  <2>15. \A m \in TempsOf(dir') : m = k.tmp \/ (m \in TempsOf(dir) /\ m # r.tmp)
    BY <2>1, <2>5, <2>9 DEF DiskOK
  <2>16. QED
    BY <1>1, <1>3, <2>1, <2>6, <2>7, <2>9, <2>14, <2>15, Stirred DEF r, n
<1>4. QED
  BY <1>2, <1>3 DEF Mkstemp

LEMMA WriteOK ==
  ASSUME IInv, NEW p \in Procs, Write(p), KnfmtAssumption
  PROVE  IInv'
<1> DEFINE r == ps[p]
           k == [r EXCEPT !.pc = "inherit"]
           new == [inodes[r.tmp] EXCEPT !.whole = TRUE]
<1>1. r.pc = "write" /\ dir' = dir /\ edits' = edits
  BY DEF Write, At
<1>2. CASE Set(p, Out(p, 1)) /\ UNCHANGED inodes
  BY <1>1, <1>2, OutOK DEF Replacing, Disk
<1>3. CASE inodes' = [inodes EXCEPT ![r.tmp].whole = TRUE] /\ Set(p, k)
  <2>1. /\ r \in Proc /\ ProcOK(r, dir, inodes, edits) /\ DiskOK(dir, inodes)
        /\ r.tmp \in Nat /\ r.tmp \notin Paths
        /\ Len(inodes) \in Nat /\ DOMAIN inodes = 1..Len(inodes)
        /\ r.ino \in DOMAIN inodes /\ inodes[r.ino].mode = "user"
        /\ r.tmp \in TempsOf(dir) /\ inodes[r.tmp].text = "neat"
    BY <1>1, Before DEF Replacing, Writing, ProcOK, FileOK
  <2>2. r.tmp \in DOMAIN inodes /\ inodes[r.tmp] \in Inode
    BY <2>1, Disks DEF DiskOK
  <2>3. inodes' = [inodes EXCEPT ![r.tmp] = new]
    BY <1>3
  <2>4. /\ new \in Inode /\ new.text = "neat"
        /\ new.whole /\ new.mode = inodes[r.tmp].mode
    BY <2>1, <2>2 DEF Inode
  <2> HIDE DEF new
  <2>5. /\ inodes' \in Seq(Inode) /\ Len(inodes') = Len(inodes) /\ DOMAIN inodes' = DOMAIN inodes
        /\ \A m \in DOMAIN inodes : m # r.tmp => inodes'[m] = inodes[m]
        /\ inodes'[r.tmp] = new
    BY <2>1, <2>2, <2>3, <2>4, ExceptSeq DEF DiskOK
  <2>6. /\ \A m \in DOMAIN inodes : inodes'[m].text = inodes[m].text
        /\ \A m \in DOMAIN inodes : inodes[m].mode = "user" => inodes'[m].mode = "user"
        /\ TempsOf(dir) \subseteq DOMAIN inodes
    BY <2>1, <2>4, <2>5 DEF DiskOK
  <2>7. DiskOK(dir', inodes')
    BY <1>1, <2>1, <2>5 DEF DiskOK
  <2>8. DiskStep(r.tmp, dir, inodes, edits, dir', inodes', edits)
    BY <1>1, <2>1, <2>5, <2>6 DEF DiskStep
  <2>9. "inherit" \in PCs
    BY DEF PCs, Replacing
  <2>10. /\ k \in Proc /\ k.pc = "inherit" /\ k.tmp = r.tmp /\ k.fds = r.fds
         /\ k.args = r.args /\ k.mode = r.mode /\ k.i = r.i /\ k.src = r.src
         /\ k.ino = r.ino /\ k.res = r.res /\ k.error = r.error
    BY <2>1, <2>9 DEF Proc
  <2>11. PlaceOK(r) /\ FdsOK(r) /\ (edits = 0 => SuccessOK(r, dir', inodes'))
    BY <2>1, <2>8, StillTrue DEF ProcOK
  <2>12. inodes'[r.ino].mode = "user"
    BY <1>1, <2>1, <2>2, <2>4, <2>5, <2>6 DEF ProcOK, FileOK, Writing
  <2> HIDE DEF k, r
  <2>13. PlaceOK(k) /\ FdsOK(k)
    BY <1>1, <2>10, <2>11 DEF PlaceOK, FdsOK, Replacing
  <2>14. FileOK(k, dir', inodes')
    BY <1>1, <2>1, <2>2, <2>4, <2>5, <2>6, <2>10, <2>12 DEF FileOK, Writing
  <2>15. edits = 0 => SuccessOK(k, dir', inodes')
    BY <1>1, <2>10, <2>11 DEF SuccessOK, Name
  <2>16. ProcOK(k, dir', inodes', edits)
    BY <2>10, <2>13, <2>14, <2>15 DEF ProcOK
  <2>17. \A m \in TempsOf(dir') : m = k.tmp \/ (m \in TempsOf(dir) /\ m # r.tmp)
    BY <1>1, <2>10
  <2>18. QED
    BY <1>1, <1>3, <2>7, <2>8, <2>10, <2>16, <2>17, Stirred DEF r
<1>4. QED
  BY <1>2, <1>3 DEF Write, Go

LEMMA InheritOK ==
  ASSUME IInv, NEW p \in Procs, Inherit(p), KnfmtAssumption
  PROVE  IInv'
<1> DEFINE r == ps[p]
           k == [r EXCEPT !.pc = "rename"]
           new == [inodes[r.tmp] EXCEPT !.mode = inodes[r.ino].mode]
<1>1. r.pc = "inherit" /\ dir' = dir /\ edits' = edits
  BY DEF Inherit, At
<1>2. CASE Set(p, Out(p, 1)) /\ UNCHANGED inodes
  BY <1>1, <1>2, OutOK DEF Replacing, Disk
<1>3. CASE inodes' = [inodes EXCEPT ![r.tmp].mode = inodes[r.ino].mode] /\ Set(p, k)
  <2>1. /\ r \in Proc /\ ProcOK(r, dir, inodes, edits) /\ DiskOK(dir, inodes)
        /\ r.tmp \in Nat /\ r.tmp \notin Paths
        /\ Len(inodes) \in Nat /\ DOMAIN inodes = 1..Len(inodes)
        /\ r.ino \in DOMAIN inodes /\ inodes[r.ino].mode = "user"
        /\ r.tmp \in TempsOf(dir) /\ inodes[r.tmp].text = "neat"
    BY <1>1, Before DEF Replacing, Writing, ProcOK, FileOK
  <2>2. r.tmp \in DOMAIN inodes /\ inodes[r.tmp] \in Inode
    BY <2>1, Disks DEF DiskOK
  <2>3. inodes' = [inodes EXCEPT ![r.tmp] = new]
    BY <1>3
  <2>4. /\ new \in Inode /\ new.text = "neat"
        /\ new.whole = inodes[r.tmp].whole /\ new.mode = "user"
    BY <2>1, <2>2 DEF Inode
  <2> HIDE DEF new
  <2>5. /\ inodes' \in Seq(Inode) /\ Len(inodes') = Len(inodes) /\ DOMAIN inodes' = DOMAIN inodes
        /\ \A m \in DOMAIN inodes : m # r.tmp => inodes'[m] = inodes[m]
        /\ inodes'[r.tmp] = new
    BY <2>1, <2>2, <2>3, <2>4, ExceptSeq DEF DiskOK
  <2>6. /\ \A m \in DOMAIN inodes : inodes'[m].text = inodes[m].text
        /\ \A m \in DOMAIN inodes : inodes[m].mode = "user" => inodes'[m].mode = "user"
        /\ TempsOf(dir) \subseteq DOMAIN inodes
    BY <2>1, <2>4, <2>5 DEF DiskOK
  <2>7. DiskOK(dir', inodes')
    BY <1>1, <2>1, <2>5 DEF DiskOK
  <2>8. DiskStep(r.tmp, dir, inodes, edits, dir', inodes', edits)
    BY <1>1, <2>1, <2>5, <2>6 DEF DiskStep
  <2>9. "rename" \in PCs
    BY DEF PCs, Replacing
  <2>10. /\ k \in Proc /\ k.pc = "rename" /\ k.tmp = r.tmp /\ k.fds = r.fds
         /\ k.args = r.args /\ k.mode = r.mode /\ k.i = r.i /\ k.src = r.src
         /\ k.ino = r.ino /\ k.res = r.res /\ k.error = r.error
    BY <2>1, <2>9 DEF Proc
  <2>11. PlaceOK(r) /\ FdsOK(r) /\ (edits = 0 => SuccessOK(r, dir', inodes'))
    BY <2>1, <2>8, StillTrue DEF ProcOK
  <2>12. inodes'[r.tmp].whole
    BY <1>1, <2>1, <2>2, <2>4, <2>5, <2>6 DEF ProcOK, FileOK, Writing
  <2> HIDE DEF k, r
  <2>13. PlaceOK(k) /\ FdsOK(k)
    BY <1>1, <2>10, <2>11 DEF PlaceOK, FdsOK, Replacing
  <2>14. FileOK(k, dir', inodes')
    BY <1>1, <2>1, <2>2, <2>4, <2>5, <2>6, <2>10, <2>12 DEF FileOK, Writing
  <2>15. edits = 0 => SuccessOK(k, dir', inodes')
    BY <1>1, <2>10, <2>11 DEF SuccessOK, Name
  <2>16. ProcOK(k, dir', inodes', edits)
    BY <2>10, <2>13, <2>14, <2>15 DEF ProcOK
  <2>17. \A m \in TempsOf(dir') : m = k.tmp \/ (m \in TempsOf(dir) /\ m # r.tmp)
    BY <1>1, <2>10
  <2>18. QED
    BY <1>1, <1>3, <2>7, <2>8, <2>10, <2>16, <2>17, Stirred DEF r
<1>4. QED
  BY <1>2, <1>3 DEF Inherit, Go

LEMMA RenameOK ==
  ASSUME IInv, NEW p \in Procs, Rename(p), KnfmtAssumption
  PROVE  IInv'
<1> DEFINE r == ps[p]
           k == [r EXCEPT !.pc = "unlink", !.res = 0]
<1>1. r.pc = "rename" /\ inodes' = inodes /\ edits' = edits
  BY DEF Rename, At
<1>2. CASE Set(p, Out(p, 1)) /\ UNCHANGED dir
  BY <1>1, <1>2, OutOK DEF Replacing, Disk
<1>3. CASE /\ dir' = [f \in DOMAIN dir \ {r.tmp} |-> IF f = Name(r) THEN dir[r.tmp] ELSE dir[f]]
           /\ Set(p, k)
  <2>1. /\ r \in Proc /\ ProcOK(r, dir, inodes, edits) /\ DiskOK(dir, inodes)
        /\ r.tmp \in Nat /\ r.tmp \notin Paths /\ Name(r) \in Paths
        /\ Len(inodes) \in Nat /\ DOMAIN inodes = 1..Len(inodes)
        /\ r.tmp \in TempsOf(dir) /\ r.tmp \in DOMAIN inodes /\ dir[r.tmp] = r.tmp
        /\ inodes[r.tmp].text = "neat" /\ inodes[r.tmp].whole /\ inodes[r.tmp].mode = "user"
    BY <1>1, Before DEF Replacing, Writing, ProcOK, FileOK, DiskOK
  <2>2. /\ TempsOf(dir') = TempsOf(dir) \ {r.tmp} /\ Paths \subseteq DOMAIN dir'
        /\ \A f \in TempsOf(dir') : dir'[f] = dir[f]
        /\ \A f \in Paths : f # Name(r) => dir'[f] = dir[f]
        /\ dir'[Name(r)] = r.tmp
    BY <1>3, <2>1 DEF TempsOf, DiskOK
  <2>3. DiskOK(dir', inodes')
    BY <1>1, <2>1, <2>2 DEF DiskOK
  <2>4. NeatIn(dir', inodes', Name(r))
    BY <1>1, <2>1, <2>2 DEF NeatIn
  <2>5. DiskStep(r.tmp, dir, inodes, edits, dir', inodes', edits)
    BY <1>1, <2>1, <2>2, <2>4 DEF DiskStep
  <2>6. "unlink" \in PCs /\ 0 \in Int
    BY DEF PCs, Replacing
  <2>7. /\ k \in Proc /\ k.pc = "unlink" /\ k.tmp = r.tmp /\ k.fds = r.fds
        /\ k.args = r.args /\ k.mode = r.mode /\ k.i = r.i /\ k.src = r.src
        /\ k.ino = r.ino /\ k.res = 0 /\ k.error = r.error
    BY <2>1, <2>6 DEF Proc
  <2>8. PlaceOK(r) /\ FdsOK(r) /\ (edits = 0 => SuccessOK(r, dir', inodes'))
    BY <2>1, <2>5, StillTrue DEF ProcOK
  <2> HIDE DEF k, r
  <2>9. PlaceOK(k) /\ FdsOK(k)
    BY <1>1, <2>7, <2>8 DEF PlaceOK, FdsOK, Replacing
  <2>10. FileOK(k, dir', inodes')
    BY <1>1, <2>1, <2>7 DEF FileOK, Writing
  <2>11. edits = 0 => SuccessOK(k, dir', inodes')
    BY <1>1, <2>4, <2>7, <2>8 DEF SuccessOK, Name
  <2>12. ProcOK(k, dir', inodes', edits)
    BY <2>7, <2>9, <2>10, <2>11 DEF ProcOK
  <2>13. \A m \in TempsOf(dir') : m = k.tmp \/ (m \in TempsOf(dir) /\ m # r.tmp)
    BY <2>2
  <2>14. QED
    BY <1>1, <1>3, <2>3, <2>5, <2>7, <2>12, <2>13, Stirred DEF r
<1>4. QED
  BY <1>2, <1>3 DEF Rename, Out, Path, Name

LEMMA UnlinkOK ==
  ASSUME IInv, NEW p \in Procs, Unlink(p), KnfmtAssumption
  PROVE  IInv'
<1> DEFINE r == ps[p]
           k == [r EXCEPT !.pc = "close", !.res = r.res, !.fds = @ \ {"src", "tmp"}, !.tmp = 0]
<1>1. /\ r.pc = "unlink" /\ inodes' = inodes /\ edits' = edits
      /\ dir' = [f \in DOMAIN dir \ {r.tmp} |-> dir[f]] /\ Set(p, k)
  BY DEF Unlink, At, Return
<1>2. /\ r \in Proc /\ ProcOK(r, dir, inodes, edits) /\ DiskOK(dir, inodes)
      /\ r.tmp \in Nat /\ r.tmp \notin Paths /\ Len(inodes) \in Nat
  BY <1>1, Before DEF Replacing
<1>3. /\ TempsOf(dir') = TempsOf(dir) \ {r.tmp} /\ Paths \subseteq DOMAIN dir'
      /\ \A f \in TempsOf(dir') : dir'[f] = dir[f]
      /\ \A f \in Paths : dir'[f] = dir[f]
  BY <1>1, <1>2 DEF TempsOf, DiskOK
<1>4. DiskOK(dir', inodes')
  BY <1>1, <1>2, <1>3 DEF DiskOK
<1>5. DiskStep(r.tmp, dir, inodes, edits, dir', inodes', edits)
  <2>1. inodes' = inodes
    BY <1>1
  <2> HIDE DEF r, k
  <2>2. QED
    BY <2>1, <1>2, <1>3 DEF DiskStep
<1>6. "close" \in PCs /\ r.res \in Int /\ r.fds \ {"src", "tmp"} \in SUBSET Fds /\ 0 \in Nat
  BY <1>2 DEF PCs, Proc
<1>7. /\ k \in Proc /\ k.pc = "close" /\ k.tmp = 0 /\ k.fds = r.fds \ {"src", "tmp"}
      /\ k.args = r.args /\ k.mode = r.mode /\ k.i = r.i /\ k.src = r.src
      /\ k.ino = r.ino /\ k.res = r.res /\ k.error = r.error
  BY <1>2, <1>6 DEF Proc
<1>8. PlaceOK(r) /\ FdsOK(r) /\ (edits = 0 => SuccessOK(r, dir', inodes'))
  BY <1>2, <1>5, StillTrue DEF ProcOK
<1> HIDE DEF k, r
<1>9. PlaceOK(k) /\ FdsOK(k)
  BY <1>1, <1>7, <1>8 DEF PlaceOK, FdsOK, Replacing
<1>10. FileOK(k, dir', inodes')
  BY <1>1, <1>2, <1>7 DEF FileOK, Writing
<1>11. edits = 0 => SuccessOK(k, dir', inodes')
  BY <1>1, <1>7, <1>8 DEF SuccessOK, Name
<1>12. ProcOK(k, dir', inodes', edits)
  BY <1>7, <1>9, <1>10, <1>11 DEF ProcOK
<1>13. \A m \in TempsOf(dir') : m = k.tmp \/ (m \in TempsOf(dir) /\ m # r.tmp)
  BY <1>3
<1>14. QED
  BY <1>1, <1>4, <1>5, <1>7, <1>12, <1>13, Stirred DEF r

LEMMA EditOK ==
  ASSUME IInv, NEW f \in Paths, Edit(f), KnfmtAssumption
  PROVE  IInv'
<1> DEFINE new == [inodes[dir[f]] EXCEPT !.text = "raw"]
<1>1. /\ edits \in Nat /\ edits' = edits + 1 /\ UNCHANGED <<dir, ps>>
      /\ inodes' = [inodes EXCEPT ![dir[f]] = new]
  BY DEF Edit, IInv
<1>2. /\ DiskOK(dir, inodes) /\ Len(inodes) \in Nat /\ DOMAIN inodes = 1..Len(inodes)
      /\ dir[f] \in DOMAIN inodes /\ inodes[dir[f]] \in Inode /\ dir[f] \notin TempsOf(dir)
      /\ inodes[dir[f]].whole /\ inodes[dir[f]].mode = "user"
  BY Disks DEF IInv, DiskOK
<1>3. new \in Inode /\ new.whole /\ new.mode = "user"
  BY <1>2 DEF Inode, Contents
<1> HIDE DEF new
<1>4. /\ inodes' \in Seq(Inode) /\ Len(inodes') = Len(inodes) /\ DOMAIN inodes' = DOMAIN inodes
      /\ \A m \in DOMAIN inodes : m # dir[f] => inodes'[m] = inodes[m]
      /\ inodes'[dir[f]] = new
  BY <1>1, <1>2, <1>3, ExceptSeq DEF DiskOK
<1>5. DiskOK(dir', inodes')
  BY <1>1, <1>2, <1>3, <1>4 DEF DiskOK
<1>6. DiskStep(0, dir, inodes, edits, dir', inodes', edits')
  BY <1>1, <1>2, <1>3, <1>4 DEF DiskStep, DiskOK
<1>7. ASSUME NEW q \in Procs
      PROVE  ProcOK(ps'[q], dir', inodes', edits')
  BY <1>1, <1>2, <1>4, <1>6, OthersKeep DEF IInv
<1>8. Apart' /\ NoLitter' /\ ps' \in [Procs -> Proc]
  BY <1>1 DEF IInv, Apart, NoLitter, Temps
<1>9. edits' \in Nat
  BY <1>1
<1>10. QED
  BY <1>5, <1>7, <1>8, <1>9 DEF IInv

-----------------------------------------------------------------------------
(* The invariant holds, and what it is for.                                  *)

LEMMA InitOK ==
  ASSUME KnfmtAssumption, Init
  PROVE  IInv
<1> DEFINE N == Cardinality(Paths)
<1>1. PICK text \in [Paths -> Texts], num \in [Paths -> 1..N] :
         /\ \A f, g \in Paths : num[f] = num[g] => f = g
         /\ dir = [f \in Paths |-> num[f]]
         /\ inodes = [n \in 1..N |->
                        [text |-> text[CHOOSE f \in Paths : num[f] = n], whole |-> TRUE, mode |-> "user"]]
  BY DEF Init
<1>2. N \in Nat /\ IsFiniteSet(1..N) /\ Cardinality(1..N) = N
  BY FS_CardinalityType, FS_Interval DEF KnfmtAssumption
<1> HIDE DEF N
<1>3. \A n \in 1..N : \E f \in Paths : num[f] = n
  <2>1. num \in Injection(Paths, 1..N)
    BY <1>1 DEF Injection, IsInjective
  <2>2. num \in Surjection(Paths, 1..N)
    BY <1>2, <2>1, FS_Injection DEF N
  <2>3. QED
    BY <2>2 DEF Surjection
<1>4. \A n \in 1..N : text[CHOOSE f \in Paths : num[f] = n] \in Contents
  BY <1>1, <1>3 DEF KnfmtAssumption, Contents
<1>5. /\ inodes \in Seq(Inode) /\ DOMAIN inodes = 1..N
      /\ \A n \in 1..N : inodes[n].whole /\ inodes[n].mode = "user"
  <2>1. inodes \in [1..N -> Inode]
    BY <1>1, <1>4 DEF Inode
  <2>2. QED
    BY <1>1, <1>2, <2>1, SeqDef
<1>6. DiskOK(dir, inodes)
  BY <1>1, <1>5 DEF DiskOK, TempsOf
<1>7. PICK a \in [Procs -> Args], m \in [Procs -> Modes] : ps = [p \in Procs |-> Start(a[p], m[p])]
  BY DEF Init
<1>8. ASSUME NEW p \in Procs
      PROVE  ps[p].tmp = 0 /\ ProcOK(ps[p], dir, inodes, edits)
  <2> DEFINE r == ps[p]
  <2>1. r = Start(a[p], m[p]) /\ a[p] \in Args /\ m[p] \in Modes
    BY <1>7
  <2>2. r \in Proc
    BY <2>1 DEF Start, Proc, PCs, Fds, Sources, NoText
  <2>3. Len(r.args) \in Nat
    BY <2>2, Names, LenProperties
  <2>4. /\ r.pc = "style" /\ r.i = 0 /\ r.fds = {} /\ r.tmp = 0
    BY <2>1 DEF Start
  <2> HIDE DEF r
  <2>5. PlaceOK(r) /\ FdsOK(r)
    BY <2>3, <2>4 DEF PlaceOK, FdsOK, Replacing
  <2>6. FileOK(r, dir, inodes)
    BY <1>5, <2>4, LenProperties DEF FileOK, Writing
  <2>7. SuccessOK(r, dir, inodes)
    BY <2>3, <2>4 DEF SuccessOK
  <2>8. QED
    BY <2>2, <2>4, <2>5, <2>6, <2>7 DEF ProcOK, r
<1>9. ps \in [Procs -> Proc] /\ edits \in Nat
  BY <1>7, <1>8 DEF ProcOK, Init
<1>10. TempsOf(dir) = {}
  BY <1>1 DEF TempsOf
<1>11. QED
  BY <1>6, <1>8, <1>9, <1>10 DEF IInv, Apart, NoLitter, Temps, TempsOf

LEMMA NextOK ==
  ASSUME KnfmtAssumption, IInv, [Next]_vars
  PROVE  IInv'
<1>1. ASSUME NEW p \in Procs, Step(p)
      PROVE  IInv'
  BY <1>1, StyleOK, NextFileOK, OpenOK, ReadOK, FormatOK, PrintFileOK, DiffOK, CloseOK,
     OpenSrcOK, MkstempOK, WriteOK, InheritOK, RenameOK, UnlinkOK DEF Step
<1>2. ASSUME NEW p \in Procs, Kill(p)
      PROVE  IInv'
  BY <1>2, KillOK
<1>3. ASSUME NEW f \in Paths, Edit(f)
      PROVE  IInv'
  BY <1>3, EditOK
<1>4. CASE UNCHANGED vars
  BY <1>4 DEF vars, IInv, Apart, NoLitter, Temps
<1>5. QED
  BY <1>1, <1>2, <1>3, <1>4 DEF Next

LEMMA ThreeFiles ==
  ASSUME NEW S, NEW x, NEW y, NEW z, S \subseteq {x, y, z}
  PROVE  Cardinality(S) <= 3
<1>1. IsFiniteSet({x}) /\ Cardinality({x}) = 1
  BY FS_Singleton
<1>2. IsFiniteSet({x} \cup {y}) /\ Cardinality({x} \cup {y}) \in 1..2
  BY <1>1, FS_AddElement
<1>3. IsFiniteSet(({x} \cup {y}) \cup {z}) /\ Cardinality(({x} \cup {y}) \cup {z}) \in 1..3
  BY <1>2, FS_AddElement
<1>4. IsFiniteSet(S) /\ Cardinality(S) <= Cardinality(({x} \cup {y}) \cup {z})
  BY <1>3, FS_Subset
<1>5. Cardinality(S) \in Nat
  BY <1>4, FS_CardinalityType
<1>6. QED
  BY <1>3, <1>4, <1>5

LEMMA Sound ==
  ASSUME KnfmtAssumption, IInv
  PROVE  FilesIntact
<1>1. DiskOK(dir, inodes)
  BY DEF IInv
<1>2. ASSUME NEW p \in Procs
      PROVE  ps[p] \in Proc /\ ProcOK(ps[p], dir, inodes, edits) /\ Len(ps[p].args) \in Nat
  BY Names, LenProperties DEF IInv
<1>3. TypeOK
  <2>1. ASSUME NEW p \in Procs
        PROVE  ps[p].i \in 0..Len(ps[p].args) /\ ps[p].tmp \in 0..Len(inodes)
    BY <1>1, <1>2, Disks DEF Proc, ProcOK, PlaceOK, FileOK
  <2>2. \A f \in DOMAIN dir : dir[f] \in DOMAIN inodes
    BY <1>1 DEF DiskOK, TempsOf
  <2>3. QED
    BY <1>1, <2>1, <2>2 DEF TypeOK, DiskOK, Temps, TempsOf
<1>4. Intact
  BY <1>1 DEF DiskOK, Intact
<1>5. NoLitter
  BY DEF IInv
<1>6. ASSUME NEW p \in Procs
      PROVE  /\ Cardinality(ps[p].fds) <= 3
             /\ At(p, "next") \/ Stopped(p) => ps[p].fds = {}
  <2>1. FdsOK(ps[p]) /\ ps[p].pc \in PCs
    BY <1>2 DEF ProcOK, Proc
  <2>2. \/ ps[p].fds \subseteq {"in", "a", "b"}
        \/ ps[p].fds \subseteq {"in", "src", "tmp"}
    BY <2>1 DEF FdsOK, PCs
  <2>3. QED
    BY <2>1, <2>2, ThreeFiles DEF FdsOK, At, Stopped
<1>7. ASSUME NEW p \in Procs, At(p, "exit"), ps[p].error = 0, ps[p].mode # "print", edits = 0,
             NEW i \in DOMAIN ps[p].args
      PROVE  inodes[dir[ps[p].args[i]]].text = "neat"
  <2>1. i \in 1..Len(ps[p].args)
    BY <1>2, Names, LenProperties
  <2>2. i < ps[p].i \/ (i = ps[p].i /\ ps[p].pc \in {"next", "exit"})
    BY <1>2, <1>7, <2>1 DEF ProcOK, PlaceOK, At, Proc
  <2>3. QED
    BY <1>2, <1>7, <2>1, <2>2 DEF ProcOK, SuccessOK, NeatIn
<1>8. FdsClosed /\ Success
  BY <1>6, <1>7 DEF FdsClosed, Success
<1>9. QED
  BY <1>3, <1>4, <1>5, <1>8 DEF FilesIntact

\* Whichever system call fails, whoever is killed and whatever is edited
\* meanwhile, files are whole and keep their permissions, no temporary file is
\* left behind by a process that is not using it, no file stays open and who
\* reports success has left its files formatted (knfmt.c, file.c, libks/fs.c).
THEOREM FilesAlwaysIntact ==
  ASSUME KnfmtAssumption
  PROVE  Spec => []FilesIntact
<1>1. Init => IInv
  BY InitOK
<1>2. IInv /\ [Next]_vars => IInv'
  BY NextOK
<1>3. IInv => FilesIntact
  BY Sound
<1>4. QED
  BY <1>1, <1>2, <1>3, PTL DEF Spec

LEMMA ReplacesOK ==
  ASSUME KnfmtAssumption, IInv, [Next]_vars
  PROVE  [Replaces]_vars
<1> SUFFICES ASSUME NEW f \in Paths, dir'[f] # dir[f]
             PROVE  /\ inodes[dir'[f]].text = "neat"
                    /\ \E p \in Procs : ps[p].mode = "inplace" /\ At(p, "rename") /\ Path(p) = f
  BY DEF Replaces
<1>1. f \notin Nat /\ f \in DOMAIN dir /\ Len(inodes) + 1 \in Nat
  BY Disks DEF KnfmtAssumption, IInv, DiskOK
<1>2. dir' # dir
  OBVIOUS
<1>3. PICK p \in Procs : Step(p)
  <2>1. /\ \A p \in Procs : Kill(p) => dir' = dir
        /\ \A g \in Paths : Edit(g) => dir' = dir
        /\ UNCHANGED vars => dir' = dir
    BY DEF Kill, Edit, Disk, vars
  <2>2. QED
    BY <1>2, <2>1 DEF Next
<1>4. ~Mkstemp(p) /\ ~Unlink(p)
  <2>1. ps[p].tmp # f
    BY <1>1 DEF IInv, Proc
  <2>2. ASSUME Mkstemp(p)
        PROVE  FALSE
    <3>1. dir' = [g \in DOMAIN dir \cup {Len(inodes) + 1} |-> IF g = Len(inodes) + 1 THEN Len(inodes) + 1 ELSE dir[g]]
      BY <1>2, <2>2 DEF Mkstemp
    <3>2. QED
      BY <1>1, <3>1
  <2>3. ASSUME Unlink(p)
        PROVE  FALSE
    <3>1. dir' = [g \in DOMAIN dir \ {ps[p].tmp} |-> dir[g]]
      BY <2>3 DEF Unlink
    <3>2. QED
      BY <1>1, <2>1, <3>1
  <2>4. QED
    BY <2>2, <2>3
<1>5. Rename(p)
  BY <1>2, <1>3, <1>4 DEF Step, Style, NextFile, Open, Read, Format, PrintFile, Diff, Close,
                          OpenSrc, Write, Inherit, Disk
<1>6. /\ At(p, "rename") /\ Path(p) = f /\ dir'[f] = dir[ps[p].tmp]
  <2>1. ps[p].tmp # f
    BY <1>1 DEF IInv, Proc
  <2>2. dir' = [g \in DOMAIN dir \ {ps[p].tmp} |-> IF g = Path(p) THEN dir[ps[p].tmp] ELSE dir[g]]
    BY <1>2, <1>5 DEF Rename
  <2>3. QED
    BY <1>1, <1>5, <2>1, <2>2 DEF Rename
<1>7. ProcOK(ps[p], dir, inodes, edits) /\ DiskOK(dir, inodes)
  BY DEF IInv
<1>8. ps[p].mode = "inplace" /\ dir[ps[p].tmp] = ps[p].tmp /\ inodes[ps[p].tmp].text = "neat"
  BY <1>6, <1>7 DEF ProcOK, PlaceOK, FileOK, DiskOK, At, Replacing, Writing
<1>9. QED
  BY <1>6, <1>8

\* What a name of an argument stands for changes only when a process editing in
\* place renames a file over it that is formatted (KS_fs_replace()).
THEOREM OnlyReplaced ==
  ASSUME KnfmtAssumption
  PROVE  Spec => [][Replaces]_vars
<1>1. Init => IInv
  BY InitOK
<1>2. IInv /\ [Next]_vars => IInv'
  BY NextOK
<1>3. IInv /\ [Next]_vars => [Replaces]_vars
  BY ReplacesOK
<1>4. QED
  BY <1>1, <1>2, <1>3, PTL DEF Spec
=============================================================================
