------------------------------- MODULE Buffer -------------------------------
(***************************************************************************)
(* The growing buffer of libks/buffer.c: appended to, read into from a     *)
(* file which somebody else may be writing, taken apart into lines.  The   *)
(* memory may run out on every growth.  A character is a model value but   *)
(* for the end of a string and the end of a line; size_t ends at UMax.     *)
(***************************************************************************)
EXTENDS Integers, Sequences, SequencesExt

CONSTANTS
    UMax,         \* ULONG_MAX
    First,        \* the first size of a buffer that grows
    InitSizes,    \* sizes it may be allocated with
    Chars,        \* characters
    Nul, Newline, \* the end of a string, and of a line
    Strings,      \* strings appended
    Text,         \* the text a file consists of, a prefix being there at first
    MaxLen        \* bound: length of the content when it is appended to

ASSUME BufferAssumption ==
    /\ UMax \in Nat /\ First \in 1..UMax /\ InitSizes \subseteq 0..UMax /\ MaxLen \in Nat
    /\ {Nul, Newline} \subseteq Chars /\ Nul # Newline
    /\ Strings \subseteq Seq(Chars) /\ Text \in Seq(Chars)

Junk == "junk"    \* what was never written
NoFile == -1

VARIABLES
    mem, len,     \* bf_ptr, its length being bf_siz, and bf_len
    pc,           \* "idle", "reading", "read", "lines", "end"
    exact,        \* ~overshoot: the size was taken from the file
    doreserve,    \* the variable of buffer_read_fd_impl()
    file, off,    \* length of the file, and position in it
    changed,      \* history: the file grew after it was opened
    text,         \* history: what was appended and not taken away
    goff, line,   \* getline: offset and line
    lines         \* history: the lines got

bufferVars == <<mem, len, pc, exact, doreserve, file, off, changed, text, goff, line, lines>>
fileVars == <<file, off, changed, exact, doreserve>>
lineVars == <<goff, line, lines>>

Siz == Len(mem)
Content == SubSeq(mem, 1, len)

\* The size to grow to: doubled until it is enough, 0 if that overflows.
Twice(siz, newlen) ==
    IF siz >= newlen THEN siz ELSE IF siz > UMax \div 2 THEN 0 ELSE 2 * siz
Doubled(siz, newlen) ==
    LET newsiz[i \in 0..newlen] ==
            IF i = 0 THEN IF siz = 0 THEN First ELSE siz ELSE Twice(newsiz[i - 1], newlen)
    IN  newsiz[newlen]

\* The memory after buffer_reserve(): none if the size overflows.
Resized(m, size) == [i \in 1..size |-> IF i <= Len(m) THEN m[i] ELSE Junk]

Enough(m, l, n) == Len(m) > 0 /\ Len(m) >= l + n

Reserved(m, l, n, overshoot) ==
    LET newsiz == IF overshoot THEN Doubled(Len(m), l + n) ELSE l + n
    IN  IF l + n > UMax THEN {}
        ELSE IF Enough(m, l, n) THEN {m}
        ELSE IF overshoot /\ newsiz = 0 THEN {} ELSE {Resized(m, newsiz)}

Copied(m, at, str) ==
    [i \in 1..Len(m) |-> IF i - at \in 1..Len(str) THEN str[i - at] ELSE m[i]]

BufferInit ==
    /\ \/ /\ exact = FALSE /\ file = NoFile
          /\ \E size \in InitSizes : mem \in Reserved(<<>>, 0, size, TRUE)
       \/ /\ exact = TRUE /\ file \in 1..Len(Text)
          /\ mem \in Reserved(<<>>, 0, file, FALSE)
    /\ len = 0 /\ pc = "idle" /\ doreserve = FALSE /\ off = 0 /\ changed = FALSE
    /\ text = <<>> /\ goff = 0 /\ line = <<>> /\ lines = <<>>

Appending == pc = "idle" /\ ~exact /\ file = NoFile /\ len < MaxLen

\* Written behind the content once there is room; on failure nothing changes.
Written(reserve, written, str) ==
    \/ \E m \in Reserved(mem, len, reserve, TRUE) :
          /\ mem' = Copied(m, len, written)
          /\ len' = len + Len(str) /\ text' = text \o str
    \/ ~Enough(mem, len, reserve) /\ UNCHANGED <<mem, len, text>>

\* buffer_puts() and buffer_putc().
Puts(str) ==
    /\ Appending /\ str # <<>>
    /\ Written(Len(str), str, str) /\ UNCHANGED <<pc, fileVars, lineVars>>

\* Mutant: the length counts the end of the string.
PrintfCountsEnd(str) ==
    /\ Appending
    /\ \/ \E m \in Reserved(mem, len, Len(str) + 1, TRUE) :
             /\ mem' = Copied(m, len, Append(str, Nul))
             /\ len' = len + Len(str) + 1 /\ text' = text \o str
       \/ ~Enough(mem, len, Len(str) + 1) /\ UNCHANGED <<mem, len, text>>
    /\ UNCHANGED <<pc, fileVars, lineVars>>

\* buffer_vprintf(): there is to be room for the end of the string, which is
\* written and not counted.
Printf(str) ==
    /\ Appending
    /\ Written(Len(str) + 1, Append(str, Nul), str) /\ UNCHANGED <<pc, fileVars, lineVars>>

Reset ==
    /\ Appending /\ len > 0 /\ len' = 0 /\ text' = <<>>
    /\ UNCHANGED <<mem, pc, fileVars, lineVars>>

Pop(n) ==
    /\ Appending /\ len > 0
    /\ len' = len - (IF n > len THEN len ELSE n)
    /\ text' = SubSeq(text, 1, len')
    /\ UNCHANGED <<mem, pc, fileVars, lineVars>>

\* buffer_str(): ended once, and taken from the buffer, which starts over.
Str ==
    /\ Appending
    /\ \/ /\ (len > 0 /\ mem[len] = Nul) \/ Reserved(mem, len, 1, TRUE) # {}
          /\ mem' = <<>> /\ len' = 0 /\ text' = <<>>
       \/ /\ ~(len > 0 /\ mem[len] = Nul) /\ ~Enough(mem, len, 1)
          /\ UNCHANGED <<mem, len, text>>
    /\ UNCHANGED <<pc, fileVars, lineVars>>

-----------------------------------------------------------------------------
\* buffer_read_fd_impl(): the file is read until read() returns nothing, which
\* it does at the end of the file and for lack of room.  The buffers it is
\* called with are empty, and large unless they have the size of the file.
Open(n) ==
    /\ pc = "idle" /\ file = NoFile /\ len = 0 /\ Siz >= 8 /\ file' = n
    /\ UNCHANGED <<mem, len, pc, exact, doreserve, off, changed, text, lineVars>>

ReadBegin ==
    /\ pc = "idle" /\ file # NoFile /\ pc' = "reading"
    /\ doreserve' = (file # Siz - len)
    /\ UNCHANGED <<mem, len, file, off, changed, exact, text, lineVars>>

Room == Siz - len
Count == IF Room < file - off THEN Room ELSE file - off

ReserveMore(m, l) ==
    IF doreserve THEN Reserved(m, l, Len(m) \div 8, TRUE) ELSE {m}

ReadSome(n) ==
    /\ pc = "reading" /\ n \in 1..Count
    /\ LET got  == SubSeq(Text, off + 1, off + n)
           full == Copied(mem, len, got)
       IN  /\ len' = len + n /\ off' = off + n /\ text' = text \o got
           /\ \/ mem' \in ReserveMore(full, len + n) /\ pc' = pc
              \/ /\ doreserve /\ ~Enough(full, len + n, Siz \div 8)
                 /\ mem' = full /\ pc' = "end"
    /\ UNCHANGED <<file, changed, exact, doreserve, lineVars>>

\* Mutant: lack of room is no end.
ReadNothingAtEnd ==
    /\ pc = "reading" /\ off = file /\ pc' = "read"
    /\ UNCHANGED <<mem, len, text, fileVars, lineVars>>

ReadNothing ==
    /\ pc = "reading" /\ Count = 0 /\ pc' = "read"
    /\ UNCHANGED <<mem, len, text, fileVars, lineVars>>

\* Another program appends to the file.
Grow ==
    /\ file # NoFile /\ file < Len(Text) /\ pc \in {"idle", "reading"} /\ ~changed
    /\ \E n \in file+1..Len(Text) : file' = n
    /\ changed' = TRUE
    /\ UNCHANGED <<mem, len, pc, off, exact, doreserve, text, lineVars>>

-----------------------------------------------------------------------------
EndOfLine ==
    LET ends == {i \in goff+1..len : mem[i] = Newline}
    IN  IF ends = {} THEN len + 1 ELSE CHOOSE i \in ends : \A j \in ends : i <= j

GetlineBegin ==
    /\ pc = "read" \/ Appending
    /\ pc' = "lines"
    /\ UNCHANGED <<mem, len, text, fileVars, lineVars>>

Getline ==
    /\ pc = "lines" /\ goff < len
    /\ line' = SubSeq(mem, goff + 1, EndOfLine - 1)
    /\ lines' = Append(lines, line')
    /\ goff' = EndOfLine
    /\ UNCHANGED <<mem, len, pc, text, fileVars>>

GetlineEnd ==
    /\ pc = "lines" /\ goff >= len /\ pc' = "end"
    /\ UNCHANGED <<mem, len, text, fileVars, lineVars>>

Reading == (\E n \in 1..Len(Text) : ReadSome(n)) \/ ReadNothing
Lines == Getline \/ GetlineEnd

BufferNext ==
    \/ \E s \in Strings : Puts(s) \/ Printf(s)
    \/ \E n \in {1, 3} : Pop(n)
    \/ Reset \/ Str
    \/ \E n \in 1..Len(Text) : Open(n)
    \/ ReadBegin \/ Reading \/ Grow \/ GetlineBegin \/ Lines

BufferSpec ==
    /\ BufferInit /\ [][BufferNext]_bufferVars
    /\ WF_bufferVars(Reading) /\ WF_bufferVars(Lines)

-----------------------------------------------------------------------------
\* The text fits the capacity, which fits the integers; types of the rest.
BufferTypeOK ==
    /\ len \in 0..Siz /\ Siz <= UMax /\ goff \in 0..len+1
    /\ pc \in {"idle", "reading", "read", "lines", "end"}

\* The buffer holds what was appended to it and nothing else, in memory that is
\* its own, however often it was moved and whichever growth failed.
Appended == Content = text

\* A file that was not written to meanwhile is read as a whole, and whenever
\* more room is made after each read, one that was is too.  (A buffer that has
\* the size the file had at first ends there.)
ReadsAll ==
    pc = "read" => /\ changed \/ off = file
                   /\ (doreserve /\ ~exact) => off = file

\* A prefix of the file it is in any case.
ReadsPrefix == file # NoFile => Content = SubSeq(Text, 1, off)

\* The lines got, each with its end but for the last one, are the content.
LinesPartition ==
    LET joined == FlattenSeq([i \in DOMAIN lines |-> Append(lines[i], Newline)])
    IN  (pc = "lines" /\ goff >= len) => joined \in {Content, Append(Content, Newline)}

\* No line contains the end of one.
LinesSplit == \A i \in DOMAIN lines : \A j \in DOMAIN lines[i] : lines[i][j] # Newline

\* Reading and getting lines come to an end.
Busy == pc \in {"reading", "lines"}
Ends == [](Busy => <>~Busy)
=============================================================================
