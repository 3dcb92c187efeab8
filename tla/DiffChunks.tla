----------------------------- MODULE DiffChunks -----------------------------
(***************************************************************************)
(* diff.c: the chunks of lines to format, read from a unified diff.  The   *)
(* environment writes the diff line by line, keeping account of the lines  *)
(* it adds; diff_parse() reads each line as it comes.  Line numbers are    *)
(* unsigned integers, MaxLine the largest.                                 *)
(***************************************************************************)
EXTENDS Integers, Sequences, SequencesExt

CONSTANTS
    MaxLine,    \* UINT_MAX
    MaxCount,   \* bound on the lines of a hunk in the new file
    MaxRead     \* bound on the lines of the diff

\* What is assumed of them, which Documents does.
DiffAssumption == {MaxLine, MaxCount, MaxRead} \subseteq Nat /\ MaxLine > 0

Omitted == -1

VARIABLES
    files,      \* the chunks of each file, a sequence of [beg, end]
    sl, el,     \* the next and the last line of the hunk being read
    inHunk,     \* the inner loop of diff_parse() is running
    status,     \* "reading", "done" or "error"
    due,        \* environment: lines the hunk still has in the new file
    lno,        \* environment: the next line of the new file
    rows,       \* environment: the kind of the last line of the hunk, "" outside of one
    added,      \* environment: the lines added to each file
    read,       \* environment: number of lines read
    marked      \* environment: a line "\ No newline at end of file" was written

parser == <<files, sl, el, inHunk, status>>
env == <<due, lno, rows, added, read, marked>>
vars == <<parser, env>>

Init ==
    /\ files = <<>> /\ sl = 0 /\ el = 0 /\ inHunk = FALSE /\ status = "reading"
    /\ due = 0 /\ lno = 1 /\ rows = "" /\ added = <<>> /\ read = 0 /\ marked = FALSE

U(n) == n % (MaxLine + 1)

-----------------------------------------------------------------------------
(* diff_parse()                                                            *)

\* Mutant: an open chunk ends with the line that follows it.
DiffEndLate(diff, n) ==
    IF diff # <<>> /\ Last(diff).end = 0
    THEN [diff EXCEPT ![Len(diff)].end = U(n + 1)] ELSE diff

\* diff_end(): the last chunk, if it is open.
DiffEnd(diff, n) ==
    IF diff # <<>> /\ Last(diff).end = 0
    THEN [diff EXCEPT ![Len(diff)].end = n] ELSE diff

\* matchline(), of a row that is not removed.
Opens(diff) == diff = <<>> \/ (Last(diff).beg > 0 /\ Last(diff).end > 0)
MatchLine(kind, diff, n) ==
    IF kind = "+"
    THEN IF Opens(diff) THEN Append(diff, [beg |-> n, end |-> 0]) ELSE diff
    ELSE DiffEnd(diff, U(n - 1))

\* A row of the hunk; behind the last one the chunk ends.
ReadRow(kind) ==
    IF kind = "-" THEN UNCHANGED parser
    ELSE LET n == U(sl + 1)
             diff == MatchLine(kind, Last(files), sl)
         IN  /\ files' = [files EXCEPT ![Len(files)] = IF n <= el THEN diff ELSE DiffEnd(diff, el)]
             /\ sl' = n /\ inHunk' = (n <= el)
             /\ UNCHANGED <<el, status>>

\* matchchunk(): a missing count is one, a count of zero no match.
ReadHunk(s, n) ==
    IF s = 0 \/ n = 0 THEN UNCHANGED parser
    ELSE IF files = <<>> THEN status' = "error" /\ UNCHANGED <<files, sl, el, inHunk>>
    ELSE LET e == IF n = Omitted THEN s ELSE U(s + n - 1)
         IN  /\ sl' = s /\ el' = e /\ inHunk' = (s <= e)
             /\ files' = [files EXCEPT ![Len(files)] = IF s <= e THEN @ ELSE DiffEnd(@, e)]
             /\ UNCHANGED status

\* matchpath(): files_alloc(), of a path seen before too.
ReadPath ==
    /\ files' = Append(files, <<>>)
    /\ UNCHANGED <<sl, el, inHunk, status>>

Read(line) ==
    CASE inHunk -> ReadRow(line.kind)
      [] ~inHunk /\ line.kind = "path" -> ReadPath
      [] ~inHunk /\ line.kind = "hunk" -> ReadHunk(line.s, line.n)
      [] OTHER -> UNCHANGED parser

\* The end of the diff; an error within a hunk.
End ==
    /\ status = "reading"
    /\ status' = IF inHunk THEN "error" ELSE "done"
    /\ UNCHANGED <<files, sl, el, inHunk, env>>

-----------------------------------------------------------------------------
(* The environment: a diff as diff(1) or git writes it, possibly cut off.  *)

Count(n) == IF n = Omitted THEN 1 ELSE n
Writes(line) == read < MaxRead /\ status = "reading" /\ Read(line) /\ read' = read + 1

Path ==
    /\ due = 0
    /\ Writes([kind |-> "path"])
    /\ lno' = 1 /\ rows' = "" /\ added' = Append(added, {}) /\ UNCHANGED <<due, marked>>

\* Hunks of a file come in order; one that only removes has no lines and is
\* placed behind line s.
Hunk(s, n) ==
    /\ due = 0 /\ added # <<>>
    /\ IF n = 0 THEN s + 1 >= lno ELSE s >= lno /\ s + Count(n) - 1 <= MaxLine
    /\ Writes([kind |-> "hunk", s |-> s, n |-> n])
    /\ due' = Count(n) /\ lno' = (IF n = 0 THEN s + 1 ELSE s) /\ rows' = "hunk"
    /\ UNCHANGED <<added, marked>>

\* A diff cut off in front may begin with a hunk.
Orphan(s, n) ==
    /\ added = <<>> /\ rows = ""
    /\ Writes([kind |-> "hunk", s |-> s, n |-> n])
    /\ due' = 0 /\ rows' = "hunk" /\ UNCHANGED <<lno, added, marked>>

Row(kind) ==
    /\ rows # "" /\ (kind # "-" => due > 0)
    /\ Writes([kind |-> kind])
    /\ due' = (IF kind = "-" THEN due ELSE due - 1)
    /\ lno' = (IF kind = "-" THEN lno ELSE lno + 1)
    /\ added' = IF kind = "+" THEN [added EXCEPT ![Len(added)] = @ \cup {lno}] ELSE added
    /\ rows' = kind /\ UNCHANGED marked

\* Behind the last removed line or the last line.
NoNewline ==
    /\ ~marked /\ (rows = "-" \/ (rows \in {"+", " "} /\ due = 0))
    /\ Writes([kind |-> "\\"])
    /\ rows' = "\\" /\ marked' = TRUE /\ UNCHANGED <<due, lno, added>>

Next ==
    \/ Path \/ NoNewline \/ End
    \/ \E s \in 0..MaxLine, n \in Omitted..MaxCount : Hunk(s, n) \/ Orphan(s, n)
    \/ \E kind \in {"+", "-", " "} : Row(kind)

Spec == Init /\ [][Next]_vars

-----------------------------------------------------------------------------
(* Correctness.                                                            *)

\* Types; a file is in the list once its lines are known to the patch.
TypeOK ==
    /\ files \in Seq(Seq([beg : 0..MaxLine, end : 0..MaxLine]))
    /\ {sl, el} \subseteq 0..MaxLine
    /\ inHunk \in BOOLEAN /\ status \in {"reading", "done", "error"}
    /\ Len(files) <= Len(added)

\* diff_get_chunk()
GetChunk(diff, n) == \E i \in DOMAIN diff : diff[i].beg <= n /\ n <= diff[i].end

Covered(f) == \A n \in 1..MaxLine : GetChunk(files[f], n) <=> n \in added[f]

\* "Only format changed lines extracted from a unified diff" (knfmt.1).
ChangesCovered == status = "done" => \A f \in DOMAIN files : Covered(f)

\* The lines of the chunks of a file are those the diff adds, no more and no
\* less, whatever it removes in between and however its hunks follow.  Not so
\* with lines "\ No newline at end of file", which are counted.
AddedCovered == ~marked => ChangesCovered

\* Chunks are not empty and come in order; only the last one may be open,
\* and only while its hunk is read.  A hunk that ends with the largest line
\* number never ends for the reader: the rest is read as rows, an error.
ChunksOrdered ==
    status # "error" /\ ~(inHunk /\ el = MaxLine) =>
        \A f \in DOMAIN files : \A i \in DOMAIN files[f] :
            LET du == files[f][i]
                open == du.end = 0 /\ f = Len(files) /\ i = Len(files[f]) /\ inHunk
            IN  /\ open \/ du.beg <= du.end
                /\ i > 1 => files[f][i - 1].end < du.beg

\* Reader and writer agree where a hunk ends, unless it ends with the last
\* line number there is.
InStep == ~marked /\ status = "reading" /\ due > 0 /\ el # MaxLine => inHunk /\ sl = lno

\* The chunks diff_parse() reads are the lines the diff adds.
ChunksExact == TypeOK /\ AddedCovered /\ ChunksOrdered /\ InStep
=============================================================================
