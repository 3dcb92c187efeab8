-------------------------- MODULE DiffChunks_proofs --------------------------
(***************************************************************************)
(* Proofs about DiffChunks, for diffs of any length and any largest line   *)
(* number: the chunks that are read are the lines the diff adds.           *)
(***************************************************************************)
EXTENDS DiffChunks, TLAPS

-----------------------------------------------------------------------------
(* The chunks of a file.                                                   *)

Chunk == [beg : 0..MaxLine, end : 0..MaxLine]

\* Chunks before line b, in order; the last one may be open.
Ordered(d, b, mayOpen) ==
  \A i \in 1..Len(d) :
    /\ 1 <= d[i].beg /\ d[i].beg < b
    /\ d[i].end # 0 => d[i].beg <= d[i].end /\ d[i].end < b
    /\ d[i].end = 0 => i = Len(d) /\ mayOpen
    /\ i > 1 => d[i - 1].end < d[i].beg

\* The lines of the chunks, an open one reaching to a line, are those of the set.
Reaches(c, upto) == IF c.end = 0 THEN upto ELSE c.end
Holds(d, upto, n) == \E i \in 1..Len(d) : d[i].beg <= n /\ n <= Reaches(d[i], upto)
Exact(d, upto, lines) == \A n \in 1..MaxLine : Holds(d, upto, n) <=> n \in lines

LEMMA UIs ==
  ASSUME DiffAssumption
  PROVE  /\ \A n \in Int : U(n) \in 0..MaxLine
         /\ \A n \in 0..MaxLine : U(n) = n
         /\ U(MaxLine + 1) = 0
<1>1. MaxLine \in Nat /\ MaxLine > 0
  BY DEF DiffAssumption
<1>2. QED
  BY <1>1 DEF U

LEMMA OrderedLater ==
  ASSUME NEW d \in Seq(Chunk), NEW b \in Nat, NEW c \in Nat, b <= c, NEW o, Ordered(d, b, o)
  PROVE  Ordered(d, c, o) /\ Ordered(d, c, TRUE)
<1>1. \A i \in 1..Len(d) : d[i].beg \in Nat /\ d[i].end \in Nat
  <2>1. \A i \in 1..Len(d) : d[i] \in Chunk
    OBVIOUS
  <2>2. \A x \in Chunk : x.beg \in Nat /\ x.end \in Nat
    BY DEF Chunk
  <2>3. QED
    BY <2>1, <2>2
<1>2. QED
  BY <1>1 DEF Ordered

\* Line b - 1 is the last one of an open chunk that is closed.
LEMMA Closed ==
  ASSUME DiffAssumption, NEW d \in Seq(Chunk), NEW b \in 1..(MaxLine + 1), NEW o,
         Ordered(d, b, o)
  PROVE  LET e == DiffEnd(d, b - 1)
         IN  /\ e \in Seq(Chunk) /\ Len(e) = Len(d) /\ Ordered(e, b, FALSE)
             /\ \A upto, lines : Exact(d, b - 1, lines) => Exact(e, upto, lines)
<1> DEFINE e == DiffEnd(d, b - 1)
           n == Len(d)
<1>1. n \in Nat /\ n = Len(d) /\ b \in Nat /\ MaxLine \in Nat /\ \A i \in 1..n : d[i] \in Chunk
  BY DEF DiffAssumption
<1>2. \A x \in Chunk : x.beg \in Nat /\ x.end \in Nat /\ x.beg <= MaxLine /\ x.end <= MaxLine
  BY <1>1 DEF Chunk
<1>3. \A i \in 1..n : d[i].beg \in Nat /\ d[i].end \in Nat
  BY <1>1, <1>2
<1> HIDE DEF n
<1>4. CASE d # <<>> /\ d[n].end = 0
  <2> DEFINE c == [d[n] EXCEPT !.end = b - 1]
  <2>1. n \in 1..n /\ n >= 1
    BY <1>1, <1>4
  <2>2. e = [d EXCEPT ![n] = c]
    BY <1>1, <1>4 DEF DiffEnd, Last
  <2>3. d[n].beg >= 1 /\ d[n].beg < b
    BY <1>1, <2>1 DEF Ordered
  <2>4. b - 1 \in 0..MaxLine /\ b - 1 >= 1
    BY <1>1, <1>3, <2>1, <2>3
  <2>5. c \in Chunk /\ c.beg = d[n].beg /\ c.end = b - 1
    BY <1>1, <2>1, <2>4 DEF Chunk
  <2> HIDE DEF c, e
  <2>6. e \in Seq(Chunk) /\ Len(e) = n /\ e[n] = c /\ \A i \in 1..n : i # n => e[i] = d[i]
    BY <1>1, <2>1, <2>2, <2>5
  <2>7. \A i \in 1..n : i # n => d[i].end # 0 /\ i < n
    BY <1>1 DEF Ordered
  <2>8. Ordered(e, b, FALSE)
    <3>1. ASSUME NEW i \in 1..n
          PROVE  /\ 1 <= e[i].beg /\ e[i].beg < b
                 /\ e[i].end # 0 => e[i].beg <= e[i].end /\ e[i].end < b
                 /\ e[i].end # 0
                 /\ i > 1 => e[i - 1].end < e[i].beg
      <4>1. /\ 1 <= d[i].beg /\ d[i].beg < b
            /\ d[i].end # 0 => d[i].beg <= d[i].end /\ d[i].end < b
            /\ i > 1 => d[i - 1].end < d[i].beg
        BY <1>1, <3>1 DEF Ordered
      <4>2. e[i].beg = d[i].beg /\ d[i].beg \in Nat
        BY <1>3, <2>5, <2>6
      <4>3. i > 1 => e[i - 1] = d[i - 1]
        BY <1>1, <2>6
      <4>4. CASE i = n
        BY <1>1, <1>3, <2>3, <2>4, <2>5, <2>6, <4>1, <4>2, <4>3, <4>4
      <4>5. CASE i # n
        BY <2>6, <2>7, <4>1, <4>2, <4>3, <4>5
      <4>6. QED
        BY <4>4, <4>5
    <3>2. QED
      BY <2>6, <3>1 DEF Ordered
  <2>9. \A upto : \A i \in 1..n : e[i].beg = d[i].beg /\ Reaches(e[i], upto) = Reaches(d[i], b - 1)
    <3>1. ASSUME NEW upto, NEW i \in 1..n
          PROVE  e[i].beg = d[i].beg /\ Reaches(e[i], upto) = Reaches(d[i], b - 1)
      <4>1. CASE i = n
        BY <1>4, <2>4, <2>5, <2>6, <4>1 DEF Reaches
      <4>2. CASE i # n
        BY <2>6, <2>7, <4>2 DEF Reaches
      <4>3. QED
        BY <4>1, <4>2
    <3>2. QED
      BY <3>1
  <2>10. \A upto, lines : Exact(d, b - 1, lines) => Exact(e, upto, lines)
    <3>1. \A upto : \A m \in 1..MaxLine : Holds(e, upto, m) <=> Holds(d, b - 1, m)
      BY <1>1, <2>6, <2>9 DEF Holds
    <3>2. QED
      BY <3>1 DEF Exact
  <2>11. QED
    BY <1>1, <2>6, <2>8, <2>10 DEF e
<1>5. CASE ~(d # <<>> /\ d[n].end = 0)
  <2>1. e = d
    BY <1>1, <1>5 DEF DiffEnd, Last
  <2> HIDE DEF e
  <2>2. \A i \in 1..n : d[i].end # 0
    <3>1. ASSUME NEW i \in 1..n, d[i].end = 0
          PROVE  FALSE
      <4>1. i = n
        BY <1>1, <3>1 DEF Ordered
      <4>2. d # <<>>
        BY <1>1, <3>1
      <4>3. QED
        BY <1>5, <3>1, <4>1, <4>2
    <3>2. QED
      BY <3>1
  <2>3. Ordered(d, b, FALSE)
    BY <1>1, <2>2 DEF Ordered
  <2>4. \A upto, lines : Exact(d, b - 1, lines) => Exact(d, upto, lines)
    <3>1. \A upto : \A m \in 1..MaxLine : Holds(d, upto, m) <=> Holds(d, b - 1, m)
      BY <1>1, <2>2 DEF Holds, Reaches
    <3>2. QED
      BY <3>1 DEF Exact
  <2>5. QED
    BY <2>1, <2>3, <2>4 DEF e
<1>6. QED
  BY <1>4, <1>5

\* Line b is read, a line that is added or one that is not.
LEMMA Matched ==
  ASSUME DiffAssumption, NEW d \in Seq(Chunk), NEW b \in 1..MaxLine, Ordered(d, b, TRUE),
         NEW kind
  PROVE  LET e == MatchLine(kind, d, b)
         IN  /\ e \in Seq(Chunk) /\ Ordered(e, b + 1, TRUE)
             /\ \A lines : Exact(d, b - 1, lines) =>
                   Exact(e, b, IF kind = "+" THEN lines \cup {b} ELSE lines)
<1> DEFINE n == Len(d)
<1>1. n \in Nat /\ n = Len(d) /\ b \in Nat /\ MaxLine \in Nat /\ \A i \in 1..n : d[i] \in Chunk
  BY DEF DiffAssumption
<1>2. \A x \in Chunk : x.beg \in Nat /\ x.end \in Nat
  BY DEF Chunk
<1>3. \A i \in 1..n : d[i].beg \in Nat /\ d[i].end \in Nat
  BY <1>1, <1>2
<1> HIDE DEF n
<1>4. CASE kind # "+"
  <2>1. U(b - 1) = b - 1
    <3>1. b - 1 \in 0..MaxLine
      BY <1>1
    <3>2. QED
      BY <3>1, UIs
  <2> DEFINE e == DiffEnd(d, b - 1)
  <2>2. MatchLine(kind, d, b) = e
    BY <1>4, <2>1 DEF MatchLine
  <2>3. b \in 1..(MaxLine + 1)
    BY <1>1
  <2>4. e \in Seq(Chunk) /\ Ordered(e, b, FALSE)
        /\ \A upto, lines : Exact(d, b - 1, lines) => Exact(e, upto, lines)
    BY <2>3, Closed
  <2> HIDE DEF e
  <2>5. b \in Nat /\ b + 1 \in Nat /\ b <= b + 1
    BY <1>1
  <2>6. Ordered(e, b + 1, TRUE)
    BY <2>4, <2>5, OrderedLater
  <2>7. QED
    BY <1>4, <2>2, <2>4, <2>6
<1>5. CASE kind = "+" /\ Opens(d)
  <2> DEFINE c == [beg |-> b, end |-> 0]
             e == Append(d, c)
  <2>1. MatchLine(kind, d, b) = e
    BY <1>5 DEF MatchLine
  <2>2. c \in Chunk /\ c.beg = b /\ c.end = 0
    BY <1>1 DEF Chunk
  <2> HIDE DEF c
  <2>3. e \in Seq(Chunk) /\ Len(e) = n + 1 /\ e[n + 1] = c /\ \A i \in 1..n : e[i] = d[i]
    BY <1>1, <2>2
  <2> HIDE DEF e
  <2>4. \A i \in 1..n : d[i].end # 0
    <3>1. ASSUME NEW i \in 1..n, d[i].end = 0
          PROVE  FALSE
      <4>1. i = n
        BY <1>1, <3>1 DEF Ordered
      <4>2. d # <<>>
        BY <1>1, <3>1
      <4>3. d[n].end > 0
        BY <1>1, <1>5, <4>2 DEF Opens, Last
      <4>4. QED
        BY <3>1, <4>1, <4>3
    <3>2. QED
      BY <3>1
  <2>5. \A i \in 1..n : d[i].end < b /\ 1 <= d[i].beg /\ d[i].beg < b /\ d[i].beg <= d[i].end
    BY <1>1, <2>4 DEF Ordered
  <2>6. Ordered(e, b + 1, TRUE)
    <3>1. ASSUME NEW i \in 1..(n + 1)
          PROVE  /\ 1 <= e[i].beg /\ e[i].beg < b + 1
                 /\ e[i].end # 0 => e[i].beg <= e[i].end /\ e[i].end < b + 1
                 /\ e[i].end = 0 => i = n + 1
                 /\ i > 1 => e[i - 1].end < e[i].beg
      <4>1. CASE i = n + 1
        <5>1. e[i].beg = b /\ e[i].end = 0
          BY <2>2, <2>3, <4>1
        <5>2. i > 1 => i - 1 \in 1..n /\ e[i - 1] = d[i - 1]
          BY <1>1, <2>3, <4>1
        <5>3. QED
          BY <1>1, <2>5, <4>1, <5>1, <5>2
      <4>2. CASE i # n + 1
        <5>1. i \in 1..n /\ e[i] = d[i]
          BY <1>1, <2>3, <4>2
        <5>2. i > 1 => i - 1 \in 1..n /\ e[i - 1] = d[i - 1]
          BY <1>1, <2>3, <5>1
        <5>3. i > 1 => d[i - 1].end < d[i].beg
          BY <1>1, <5>1 DEF Ordered
        <5>4. QED
          BY <1>1, <1>3, <2>4, <2>5, <5>1, <5>2, <5>3
      <4>3. QED
        BY <4>1, <4>2
    <3>2. QED
      BY <2>3, <3>1 DEF Ordered
  <2>7. ASSUME NEW m \in 1..MaxLine
        PROVE  Holds(e, b, m) <=> (Holds(d, b - 1, m) \/ m = b)
    <3>1. \A i \in 1..n : Reaches(d[i], b - 1) = d[i].end /\ Reaches(e[i], b) = d[i].end
                           /\ e[i].beg = d[i].beg
      BY <2>3, <2>4 DEF Reaches
    <3>2. e[n + 1].beg = b /\ Reaches(e[n + 1], b) = b
      BY <2>2, <2>3 DEF Reaches
    <3>3. \A i \in 1..(n + 1) : i \in 1..n \/ i = n + 1
      BY <1>1
    <3>4. (\E i \in 1..(n + 1) : e[i].beg <= m /\ m <= Reaches(e[i], b))
            <=> (\E i \in 1..n : d[i].beg <= m /\ m <= Reaches(d[i], b - 1)) \/ (b <= m /\ m <= b)
      <4>1. n + 1 \in 1..(n + 1) /\ \A i \in 1..n : i \in 1..(n + 1)
        BY <1>1
      <4>2. QED
        BY <3>1, <3>2, <3>3, <4>1
    <3>5. QED
      BY <1>1, <2>3, <3>4 DEF Holds
  <2>8. QED
    BY <1>1, <1>5, <2>1, <2>3, <2>6, <2>7 DEF Exact
<1>6. CASE kind = "+" /\ ~Opens(d)
  <2>1. MatchLine(kind, d, b) = d
    BY <1>6 DEF MatchLine
  <2>2. d # <<>> /\ ~(d[n].beg > 0 /\ d[n].end > 0) /\ n \in 1..n
    BY <1>1, <1>6 DEF Opens, Last
  <2>3. d[n].end = 0 /\ 1 <= d[n].beg /\ d[n].beg < b
    BY <1>1, <1>3, <2>2 DEF Ordered
  <2>4. b + 1 \in Nat /\ b <= b + 1
    BY <1>1
  <2>5. Ordered(d, b + 1, TRUE)
    BY <1>1, <2>4, OrderedLater
  <2>6. \A i \in 1..n : i # n => d[i].end # 0
    BY <1>1 DEF Ordered
  <2>7. ASSUME NEW m \in 1..MaxLine
        PROVE  Holds(d, b, m) <=> (Holds(d, b - 1, m) \/ m = b)
    <3>1. \A i \in 1..n : i # n => Reaches(d[i], b) = Reaches(d[i], b - 1)
      BY <2>6 DEF Reaches
    <3>2. Reaches(d[n], b) = b /\ Reaches(d[n], b - 1) = b - 1
      BY <2>3 DEF Reaches
    <3>3. d[n].beg <= m /\ m <= b <=> (d[n].beg <= m /\ m <= b - 1) \/ m = b
      BY <1>1, <1>3, <2>2, <2>3
    <3>4. QED
      BY <1>1, <2>2, <3>1, <3>2, <3>3 DEF Holds
  <2>8. QED
    BY <1>6, <2>1, <2>5, <2>7 DEF Exact
<1>7. QED
  BY <1>4, <1>5, <1>6
LEMMA ClosedExact ==
  ASSUME NEW d \in Seq(Chunk), NEW b, Ordered(d, b, FALSE)
  PROVE  \A u, v, lines : Exact(d, u, lines) => Exact(d, v, lines)
<1>1. \A i \in 1..Len(d) : d[i].end # 0
  BY DEF Ordered
<1>2. \A u, v : \A i \in 1..Len(d) : Reaches(d[i], u) = Reaches(d[i], v)
  BY <1>1 DEF Reaches
<1>3. \A u, v, m : Holds(d, u, m) => Holds(d, v, m)
  BY <1>2 DEF Holds
<1>4. QED
  BY <1>3 DEF Exact

LEMMA ChunksTyped ==
  ASSUME DiffAssumption, NEW d \in Seq(Chunk)
  PROVE  /\ \A n \in 0..MaxLine : DiffEnd(d, n) \in Seq(Chunk)
         /\ \A kind : \A n \in 0..MaxLine : MatchLine(kind, d, n) \in Seq(Chunk)
<1>1. ASSUME NEW n \in 0..MaxLine
      PROVE  DiffEnd(d, n) \in Seq(Chunk)
  <2>1. CASE d # <<>> /\ Last(d).end = 0
    <3>1. Len(d) \in 1..Len(d) /\ d[Len(d)] \in Chunk
      BY <2>1
    <3>2. [d[Len(d)] EXCEPT !.end = n] \in Chunk
      BY <3>1 DEF Chunk
    <3>3. QED
      BY <2>1, <3>1, <3>2 DEF DiffEnd
  <2>2. QED
    BY <2>1 DEF DiffEnd
<1>2. ASSUME NEW n \in 0..MaxLine, NEW kind
      PROVE  MatchLine(kind, d, n) \in Seq(Chunk)
  <2>1. CASE kind = "+"
    <3>1. [beg |-> n, end |-> 0] \in Chunk
      BY DEF DiffAssumption, Chunk
    <3>2. QED
      BY <2>1, <3>1 DEF MatchLine
  <2>2. CASE kind # "+"
    <3>1. U(n - 1) \in 0..MaxLine
      BY UIs DEF DiffAssumption
    <3>2. QED
      BY <1>1, <2>2, <3>1 DEF MatchLine
  <2>3. QED
    BY <2>1, <2>2
<1>3. QED
  BY <1>1, <1>2

-----------------------------------------------------------------------------
(* The inductive invariant.  A hunk that ends with the largest line number  *)
(* is never left.  Otherwise reader and writer agree where the hunk ends, a *)
(* line "\ No newline at end of file" putting the reader one line ahead, and *)
(* the chunks are those of the lines read so far.                            *)

Types ==
  /\ files \in Seq(Seq(Chunk)) /\ added \in Seq(SUBSET Nat) /\ Len(files) <= Len(added)
  /\ sl \in 0..MaxLine /\ el \in 0..MaxLine
  /\ inHunk \in BOOLEAN /\ status \in {"reading", "done", "error"}
  /\ due \in Nat /\ lno \in Nat /\ lno >= 1
  /\ inHunk => files # <<>>
  /\ due > 0 => added # <<>>

Stuck == inHunk /\ el = MaxLine /\ status = "reading"

Inside ==
  /\ status = "reading" /\ due > 0 /\ el = lno + due - 1 /\ el < MaxLine
  /\ 1 <= sl /\ sl <= el /\ sl \in {lno, lno + 1}
  /\ ~marked => sl = lno

Outside ==
  /\ due <= 1 /\ lno + due <= MaxLine + 1
  /\ ~marked => due = 0

EarlierKept ==
  \A f \in 1..(Len(files) - 1) :
    /\ Ordered(files[f], MaxLine + 1, FALSE)
    /\ ~marked => Exact(files[f], 0, added[f])

LastKept ==
  files # <<>> =>
    /\ Ordered(files[Len(files)], IF inHunk THEN sl ELSE lno + due, inHunk)
    /\ ~marked => Exact(files[Len(files)], sl - 1, added[Len(files)])

Steady ==
  /\ status \in {"reading", "done"} /\ Len(files) = Len(added)
  /\ inHunk => Inside
  /\ ~inHunk => Outside
  /\ EarlierKept /\ LastKept

IInv == Types /\ (status = "error" \/ Stuck \/ Steady)

LEMMA InitOK == DiffAssumption /\ Init => IInv
<1> SUFFICES ASSUME DiffAssumption, Init
             PROVE  IInv
  OBVIOUS
<1>1. /\ files = <<>> /\ sl = 0 /\ el = 0 /\ status = "reading"
      /\ due = 0 /\ lno = 1 /\ added = <<>>
      /\ MaxLine \in Nat /\ MaxLine > 0
  BY DEF DiffAssumption, Init
<1>2. inHunk = FALSE
  BY DEF Init
<1>3. inHunk \in BOOLEAN /\ ~inHunk
  BY <1>2
<1>4. Types
  <2>1. /\ files \in Seq(Seq(Chunk)) /\ added \in Seq(SUBSET Nat) /\ Len(files) <= Len(added)
        /\ sl \in 0..MaxLine /\ el \in 0..MaxLine
        /\ due \in Nat /\ lno \in Nat /\ lno >= 1
    BY <1>1
  <2>2. QED
    BY <1>1, <1>3, <2>1 DEF Types
<1>5. Outside
  BY <1>1 DEF Outside
<1>6. EarlierKept /\ LastKept
  <2>1. Len(files) - 1 = -1 /\ files = <<>>
    BY <1>1
  <2>2. QED
    BY <2>1 DEF EarlierKept, LastKept
<1>7. Len(files) = Len(added)
  BY <1>1
<1>8. QED
  BY <1>1, <1>3, <1>4, <1>5, <1>6, <1>7 DEF IInv, Steady

-----------------------------------------------------------------------------
(* The rows of a hunk.                                                     *)

\* What reading a row does to the last file.
RowDone(kind, next) ==
  LET n == Len(files)
      b == sl + 1
  IN  /\ next \in Seq(Chunk)
      /\ Ordered(next, b, b <= el)
      /\ \A lines : Exact(files[n], sl - 1, lines) =>
           Exact(next, sl, IF kind = "+" THEN lines \cup {sl} ELSE lines)

LEMMA RowRead ==
  ASSUME DiffAssumption, files \in Seq(Seq(Chunk)), files # <<>>,
         el \in Nat, el < MaxLine, sl \in 1..el, Ordered(files[Len(files)], sl, TRUE),
         NEW kind, kind # "-", ReadRow(kind)
  PROVE  /\ sl' = sl + 1 /\ inHunk' = (sl + 1 <= el) /\ el' = el /\ status' = status
         /\ \E next : RowDone(kind, next) /\ files' = [files EXCEPT ![Len(files)] = next]
<1> DEFINE n == Len(files)
           d == files[n]
           m == MatchLine(kind, d, sl)
           next == IF sl + 1 <= el THEN m ELSE DiffEnd(m, el)
<1>1. n \in 1..n /\ n = Len(files) /\ n \in Nat /\ d \in Seq(Chunk) /\ Last(files) = d /\ MaxLine \in Nat
  BY DEF DiffAssumption, Last
<1>2. sl \in 1..MaxLine /\ sl \in Nat /\ sl + 1 \in 0..MaxLine /\ sl + 1 \in 1..(MaxLine + 1)
  BY <1>1
<1>3. U(sl + 1) = sl + 1
  BY <1>2, UIs
<1>4. /\ sl' = sl + 1 /\ inHunk' = (sl + 1 <= el) /\ el' = el /\ status' = status
      /\ files' = [files EXCEPT ![n] = next]
  BY <1>1, <1>3 DEF ReadRow
<1> HIDE DEF n, m
<1>5. Ordered(d, sl, TRUE)
  BY <1>1
<1> HIDE DEF d
<1>6. /\ m \in Seq(Chunk) /\ Ordered(m, sl + 1, TRUE)
      /\ \A lines : Exact(d, sl - 1, lines) =>
           Exact(m, sl, IF kind = "+" THEN lines \cup {sl} ELSE lines)
  BY <1>1, <1>2, <1>5, Matched DEF m
<1>7. CASE sl + 1 <= el
  BY <1>1, <1>4, <1>6, <1>7 DEF RowDone, n, d
<1>8. CASE ~(sl + 1 <= el)
  <2>1. el = (sl + 1) - 1 /\ sl = (sl + 1) - 1
    BY <1>2, <1>8
  <2> DEFINE e == DiffEnd(m, (sl + 1) - 1)
  <2>2. /\ e \in Seq(Chunk) /\ Ordered(e, sl + 1, FALSE)
        /\ \A upto, lines : Exact(m, (sl + 1) - 1, lines) => Exact(e, upto, lines)
    BY <1>2, <1>6, Closed
  <2>3. next = e
    BY <1>8, <2>1
  <2> HIDE DEF next, e
  <2>4. \A lines : Exact(d, sl - 1, lines) =>
           Exact(e, sl, IF kind = "+" THEN lines \cup {sl} ELSE lines)
    BY <1>6, <2>1, <2>2
  <2>5. RowDone(kind, next)
    <3>1. Ordered(e, sl + 1, sl + 1 <= el)
      BY <1>8, <2>2 DEF Ordered
    <3>2. QED
      BY <2>2, <2>3, <2>4, <3>1 DEF RowDone, d, n
  <2>6. QED
    BY <1>4, <2>5 DEF n
<1>9. QED
  BY <1>7, <1>8

\* A hunk that is never left: whatever line is read is a row of it.
LEMMA StuckRead ==
  ASSUME DiffAssumption, Types, Stuck, NEW line, Writes(line)
  PROVE  /\ Stuck' /\ files' \in Seq(Seq(Chunk)) /\ Len(files') = Len(files)
         /\ sl' \in 0..MaxLine /\ el' \in 0..MaxLine /\ files' # <<>>
<1> DEFINE n == Len(files)
           m == MatchLine(line.kind, files[n], sl)
<1>1. /\ n \in 1..n /\ n = Len(files) /\ n \in Nat /\ files[n] \in Seq(Chunk) /\ Last(files) = files[n]
      /\ MaxLine \in Nat /\ sl \in 0..MaxLine
      /\ files \in Seq(Seq(Chunk)) /\ el = MaxLine
  BY DEF DiffAssumption, Last, Types, Stuck
<1>2. ReadRow(line.kind) /\ inHunk /\ status = "reading"
  BY DEF Writes, Read, Stuck
<1>3. U(sl + 1) \in 0..MaxLine
  BY <1>1, UIs
<1>4. m \in Seq(Chunk)
  BY <1>1, ChunksTyped
<1>5. CASE line.kind = "-"
  BY <1>1, <1>2, <1>5 DEF ReadRow, parser, Stuck
<1>6. CASE line.kind # "-"
  <2>1. /\ files' = [files EXCEPT ![n] = m] /\ sl' = U(sl + 1) /\ inHunk' /\ UNCHANGED <<el, status>>
    <3>1. U(sl + 1) <= el
      BY <1>1, <1>3
    <3>2. (inHunk' = (U(sl + 1) <= el)) /\ UNCHANGED <<el, status>> /\ sl' = U(sl + 1)
      BY <1>2, <1>6 DEF ReadRow
    <3>3. files' = [files EXCEPT ![n] = m]
      BY <1>1, <1>2, <1>6, <3>1 DEF ReadRow
    <3>4. inHunk'
      BY <3>1, <3>2
    <3>5. QED
      BY <3>2, <3>3, <3>4
  <2> HIDE DEF m, n
  <2>2. files' \in Seq(Seq(Chunk)) /\ Len(files') = n
    BY <1>1, <1>4, <2>1
  <2>3. files' # <<>>
    BY <1>1, <2>2
  <2>4. QED
    BY <1>1, <1>2, <1>3, <2>1, <2>2, <2>3 DEF Stuck
<1>7. QED
  BY <1>5, <1>6

\* Line s was read, u and v are the next line and the number of lines left then.
Counts(m, s, e, u, v) ==
  s <= e /\ e < m /\ u >= 1 /\ e = u + v - 1 /\ (s + 1 = u \/ s + 1 = u + 1) =>
    /\ s + 1 <= e => v > 0
    /\ ~(s + 1 <= e) => s + 1 = u + v /\ v <= 1 /\ u + v <= m + 1 /\ (s + 1 = u => v = 0)

LEMMA LineCounts == \A m, s, e, u, v \in Nat : Counts(m, s, e, u, v)
BY DEF Counts

-----------------------------------------------------------------------------
(* The steps of the environment.                                           *)

Writing ==
  \/ Path \/ NoNewline
  \/ \E s \in 0..MaxLine, n \in Omitted..MaxCount : Hunk(s, n) \/ Orphan(s, n)
  \/ \E kind \in {"+", "-", " "} : Row(kind)

\* Its own account, whatever the reader makes of the line.
LEMMA AccountTyped ==
  ASSUME DiffAssumption, Types, Writing
  PROVE  /\ added' \in Seq(SUBSET Nat) /\ Len(added') >= Len(added)
         /\ due' \in Nat /\ lno' \in Nat /\ lno' >= 1 /\ (due' > 0 => added' # <<>>)
         /\ \E line : Writes(line)
<1>0. /\ due \in Nat /\ lno \in Nat /\ lno >= 1 /\ MaxLine \in Nat /\ MaxCount \in Nat
  BY DEF DiffAssumption, Types
<1>1. /\ added \in Seq(SUBSET Nat) /\ due \in Nat /\ lno \in Nat /\ lno >= 1
      /\ MaxLine \in Nat /\ MaxCount \in Nat /\ (due > 0 => added # <<>>)
  BY DEF DiffAssumption, Types
<1>2. CASE Path
  <2>1. {} \in SUBSET Nat
    OBVIOUS
  <2>2. Writes([kind |-> "path"]) /\ added' = Append(added, {}) /\ lno' = 1 /\ due' = due /\ due = 0
    BY <1>2 DEF Path
  <2>3. QED
    BY <1>1, <2>1, <2>2
<1>3. CASE NoNewline
  <2>1. \E line : Writes(line)
    BY <1>3, Zenon DEF NoNewline
  <2>2. due' = due /\ lno' = lno /\ added' = added
    BY <1>3 DEF NoNewline
  <2>4. QED
    BY <1>1, <2>1, <2>2
<1>4. ASSUME NEW s \in 0..MaxLine, NEW n \in Omitted..MaxCount, Hunk(s, n)
      PROVE  /\ added' = added /\ due' \in Nat /\ lno' \in Nat /\ lno' >= 1
             /\ \E line : Writes(line)
  <2>1. Count(n) \in Nat
    BY <1>1 DEF Omitted, Count
  <2>2. QED
    BY <1>1, <1>4, <2>1 DEF Hunk
<1>5. ASSUME NEW s \in 0..MaxLine, NEW n \in Omitted..MaxCount, Orphan(s, n)
      PROVE  /\ added' = added /\ due' = 0 /\ lno' = lno
             /\ \E line : Writes(line)
  BY <1>5 DEF Orphan
<1>6. ASSUME NEW kind, Row(kind)
      PROVE  /\ added' \in Seq(SUBSET Nat) /\ Len(added') = Len(added)
             /\ due' \in Nat /\ lno' \in Nat /\ lno' >= 1 /\ (due' > 0 => added' # <<>>)
             /\ \E line : Writes(line)
  <2>1. \E line : Writes(line)
    BY <1>6, Zenon DEF Row
  <2>2. (kind # "-" => due > 0) /\ due' \in {due, due - 1} /\ lno' \in {lno, lno + 1}
        /\ (kind = "-" => due' = due)
    BY <1>6 DEF Row
  <2>3. due' \in Nat /\ lno' \in Nat /\ lno' >= 1 /\ (due' > 0 => due > 0)
    <3>1. CASE kind = "-"
      BY <1>0, <2>2, <3>1
    <3>2. CASE kind # "-"
      <4>1. due > 0
        BY <2>2, <3>2
      <4>2. \A x \in {due, due - 1} : x \in Nat
        BY <1>0, <4>1
      <4>3. \A x \in {lno, lno + 1} : x \in Nat /\ x >= 1
        BY <1>0
      <4>4. QED
        BY <2>2, <4>1, <4>2, <4>3
    <3>3. QED
      BY <3>1, <3>2
  <2>4. CASE kind = "+"
    <3>1. added' = [added EXCEPT ![Len(added)] = @ \cup {lno}]
      BY <1>6, <2>4 DEF Row
    <3>2. due > 0
      BY <1>6, <2>4 DEF Row
    <3>3. Len(added) \in 1..Len(added) /\ added[Len(added)] \in SUBSET Nat
      BY <1>1, <3>2
    <3>4. added[Len(added)] \cup {lno} \in SUBSET Nat
      BY <1>0, <3>3
    <3>5. added' = [added EXCEPT ![Len(added)] = added[Len(added)] \cup {lno}]
      BY <3>1
    <3>6. added' \in Seq(SUBSET Nat) /\ Len(added') = Len(added) /\ added' # <<>>
      BY <1>1, <3>3, <3>4, <3>5
    <3>7. QED
      BY <2>1, <2>3, <3>6
  <2>5. CASE kind # "+"
    <3>1. added' = added
      BY <1>6, <2>5 DEF Row
    <3>2. QED
      BY <1>1, <2>1, <2>3, <3>1
  <2>6. QED
    BY <2>4, <2>5
<1>7. Len(added) \in Nat
  BY <1>1
<1>8. CASE \E s \in 0..MaxLine, n \in Omitted..MaxCount : Hunk(s, n) \/ Orphan(s, n)
  <2>1. /\ added' = added /\ due' \in Nat /\ lno' \in Nat /\ lno' >= 1
        /\ (due' > 0 => added' # <<>>)
        /\ \E line : Writes(line)
    <3>1. PICK s \in 0..MaxLine, n \in Omitted..MaxCount : Hunk(s, n) \/ Orphan(s, n)
      BY <1>8
    <3>2. CASE Hunk(s, n)
      BY <1>4, <3>2 DEF Hunk
    <3>3. CASE Orphan(s, n)
      BY <1>0, <1>5, <3>3
    <3>4. QED
      BY <3>1, <3>2, <3>3
  <2>2. QED
    BY <1>1, <1>7, <2>1
<1>9. CASE \E kind \in {"+", "-", " "} : Row(kind)
  <2>1. /\ added' \in Seq(SUBSET Nat) /\ Len(added') = Len(added)
        /\ due' \in Nat /\ lno' \in Nat /\ lno' >= 1 /\ (due' > 0 => added' # <<>>)
        /\ \E line : Writes(line)
    BY <1>6, <1>9
  <2>2. QED
    BY <1>7, <2>1
<1>10. QED
  BY <1>2, <1>3, <1>8, <1>9 DEF Writing

LEMMA StuckKept ==
  ASSUME DiffAssumption, Types, Stuck, Writing
  PROVE  Types' /\ Stuck'
<1>1. PICK line : Writes(line)
  BY AccountTyped
<1>2. /\ added' \in Seq(SUBSET Nat) /\ Len(added') >= Len(added)
      /\ due' \in Nat /\ lno' \in Nat /\ lno' >= 1
  BY AccountTyped
<1>3. /\ Stuck' /\ files' \in Seq(Seq(Chunk)) /\ Len(files') = Len(files)
      /\ sl' \in 0..MaxLine /\ el' \in 0..MaxLine /\ files' # <<>>
  BY <1>1, StuckRead
<1>4. inHunk' \in BOOLEAN /\ status' \in {"reading", "done", "error"}
  <2>1. CASE line.kind = "-"
    BY <1>1, <2>1 DEF Types, Stuck, Writes, Read, ReadRow, parser
  <2>2. CASE line.kind # "-"
    BY <1>1, <2>2 DEF Types, Stuck, Writes, Read, ReadRow
  <2>3. QED
    BY <2>1, <2>2
<1>5. Len(files') <= Len(added')
  <2>1. Len(files) \in Nat /\ Len(added) \in Nat /\ Len(added') \in Nat /\ Len(files) <= Len(added)
    BY <1>2 DEF Types
  <2>2. QED
    BY <1>2, <1>3, <2>1
<1>6. due' > 0 => added' # <<>>
  BY AccountTyped
<1>7. QED
  BY <1>2, <1>3, <1>4, <1>5, <1>6 DEF Types

\* A row of the hunk, counted by the environment or not.
LEMMA RowKept ==
  ASSUME DiffAssumption, Types, Steady, inHunk, NEW kind, kind # "-", ReadRow(kind),
         \/ /\ lno' = lno + 1 /\ due' = due - 1 /\ marked' = marked
            /\ added' = IF kind = "+" THEN [added EXCEPT ![Len(added)] = @ \cup {lno}] ELSE added
         \/ /\ lno' = lno /\ due' = due /\ ~marked /\ marked' /\ added' = added
  PROVE  Types' /\ Steady'
<1> DEFINE n == Len(files)
<1>1. /\ n \in 1..n /\ n = Len(files) /\ n \in Nat /\ n = Len(added) /\ files \in Seq(Seq(Chunk))
      /\ added \in Seq(SUBSET Nat) /\ MaxLine \in Nat /\ files # <<>>
      /\ lno \in Nat /\ lno >= 1 /\ due \in Nat /\ sl \in Nat /\ el \in Nat
  BY DEF DiffAssumption, Types, Steady
<1>n. lno \in Nat /\ lno >= 1 /\ due \in Nat /\ sl \in Nat /\ el \in Nat /\ MaxLine \in Nat
      /\ n \in Nat /\ n \in 1..n
  BY <1>1
<1>2. /\ status = "reading" /\ due > 0 /\ el = lno + due - 1 /\ el < MaxLine
      /\ sl \in 1..el /\ sl \in {lno, lno + 1} /\ (~marked => sl = lno)
  BY <1>1 DEF Steady, Inside
<1>3. /\ Ordered(files[n], sl, TRUE)
      /\ ~marked => Exact(files[n], sl - 1, added[n])
  <2>1. Ordered(files[n], sl, inHunk)
    BY <1>1 DEF Steady, LastKept
  <2>2. Ordered(files[n], sl, TRUE)
    BY <2>1 DEF Ordered
  <2>3. QED
    BY <1>1, <2>2 DEF Steady, LastKept
<1>4. \A f \in 1..(n - 1) : /\ Ordered(files[f], MaxLine + 1, FALSE)
                            /\ ~marked => Exact(files[f], 0, added[f])
  BY DEF Steady, EarlierKept
<1> HIDE DEF n
<1>5. /\ sl' = sl + 1 /\ inHunk' = (sl + 1 <= el) /\ el' = el /\ status' = status
      /\ \E next : RowDone(kind, next) /\ files' = [files EXCEPT ![n] = next]
  BY <1>1, <1>2, <1>3, RowRead DEF n
<1>6. PICK next : RowDone(kind, next) /\ files' = [files EXCEPT ![n] = next]
  BY <1>5
<1>7. /\ next \in Seq(Chunk)
      /\ Ordered(next, sl + 1, sl + 1 <= el)
      /\ \A lines : Exact(files[n], sl - 1, lines) =>
           Exact(next, sl, IF kind = "+" THEN lines \cup {sl} ELSE lines)
  BY <1>6 DEF RowDone, n
<1>8. /\ files' \in Seq(Seq(Chunk)) /\ Len(files') = n /\ files'[n] = next
      /\ \A f \in 1..(n - 1) : files'[f] = files[f]
  <2>1. next \in Seq(Chunk) /\ files' = [files EXCEPT ![n] = next]
    BY <1>6, <1>7
  <2>2. \A f \in 1..(n - 1) : f \in 1..n /\ f # n
    BY <1>n
  <2>3. files \in Seq(Seq(Chunk)) /\ n = Len(files)
    BY <1>1
  <2>4. QED
    BY <1>n, <2>1, <2>2, <2>3
<1>9. /\ added' \in Seq(SUBSET Nat) /\ Len(added') = n
      /\ \A f \in 1..(n - 1) : added'[f] = added[f]
      /\ ~marked' => added'[n] = IF kind = "+" THEN added[n] \cup {lno} ELSE added[n]
  <2>1. added[n] \cup {lno} \in SUBSET Nat
    BY <1>1
  <2>2. CASE added' = IF kind = "+" THEN [added EXCEPT ![Len(added)] = @ \cup {lno}] ELSE added
    <3>1. CASE kind = "+"
      <4>1. added' = [added EXCEPT ![n] = added[n] \cup {lno}]
        BY <1>1, <2>2, <3>1
      <4>2. /\ added' \in Seq(SUBSET Nat) /\ Len(added') = n
            /\ \A f \in 1..(n - 1) : added'[f] = added[f]
            /\ added'[n] = added[n] \cup {lno}
        BY <1>1, <2>1, <4>1
      <4>3. QED
        BY <3>1, <4>2
    <3>2. CASE kind # "+"
      BY <1>1, <2>2, <3>2
    <3>3. QED
      BY <3>1, <3>2
  <2>3. CASE marked' /\ added' = added
    BY <1>1, <2>3
  <2>4. QED
    BY <2>2, <2>3
<1>10. ~marked' => ~marked /\ lno' = lno + 1 /\ due' = due - 1
  OBVIOUS
<1>11. \/ lno' = lno + 1 /\ due' = due - 1
       \/ lno' = lno /\ due' = due /\ sl = lno
  BY <1>2
<1>a. /\ lno' \in Nat /\ lno' >= 1 /\ due' \in Nat /\ el = lno' + due' - 1
      /\ sl + 1 = lno' \/ sl + 1 = lno' + 1
  <2>1. /\ due > 0 /\ el = lno + due - 1 /\ (sl = lno \/ sl = lno + 1)
    BY <1>2
  <2>2. QED
    BY <1>n, <1>11, <2>1
<1>12. inHunk' \in BOOLEAN
  BY <1>5
<1>13. Types'
  <2>1. files' # <<>> /\ Len(files') <= Len(added') /\ added' # <<>>
    BY <1>n, <1>8, <1>9
  <2>2. sl' \in 0..MaxLine /\ el' \in 0..MaxLine
    BY <1>1, <1>2, <1>5
  <2>3. QED
    BY <1>2, <1>5, <1>8, <1>9, <1>a, <1>12, <2>1, <2>2 DEF Types
<1>14. EarlierKept'
  BY <1>4, <1>8, <1>9, <1>10 DEF EarlierKept
<1>15. sl + 1 \in Nat /\ sl' - 1 = sl /\ sl' = sl + 1
  BY <1>1, <1>5
<1>16. ~marked' => Exact(next, sl, added'[n])
  <2> SUFFICES ASSUME ~marked'
               PROVE  Exact(next, sl, added'[n])
    OBVIOUS
  <2>1. sl = lno /\ Exact(files[n], sl - 1, added[n])
    BY <1>2, <1>3, <1>10
  <2>2. Exact(next, sl, IF kind = "+" THEN added[n] \cup {sl} ELSE added[n])
    BY <1>7, <2>1
  <2>3. QED
    BY <1>9, <2>1, <2>2
<1>b. /\ sl + 1 <= el => due' > 0
      /\ ~(sl + 1 <= el) => /\ sl + 1 = lno' + due' /\ due' <= 1 /\ lno' + due' <= MaxLine + 1
                            /\ (sl + 1 = lno' => due' = 0)
  <2>1. sl <= el /\ el < MaxLine
    BY <1>2
  <2>2. Counts(MaxLine, sl, el, lno', due')
    <3>1. /\ MaxLine \in Nat /\ sl \in Nat /\ el \in Nat /\ lno' \in Nat /\ due' \in Nat
      BY <1>n, <1>a
    <3>2. QED
      BY <3>1, LineCounts
  <2>3. QED
    BY <1>a, <2>1, <2>2, Zenon DEF Counts
<1>17. CASE sl + 1 <= el
  <2>1. inHunk'
    BY <1>5, <1>17
  <2>2. Inside'
    <3>1. /\ status' = "reading" /\ due' > 0 /\ el' = lno' + due' - 1 /\ el' < MaxLine
      BY <1>2, <1>5, <1>a, <1>b, <1>17
    <3>2. sl' <= el' /\ sl' \in {lno', lno' + 1}
      BY <1>5, <1>a, <1>17
    <3>3. 1 <= sl'
      BY <1>n, <1>5
    <3>4. ~marked' => sl' = lno'
      BY <1>2, <1>5, <1>10
    <3>5. QED
      BY <3>1, <3>2, <3>3, <3>4 DEF Inside
  <2>3. Ordered(next, sl + 1, TRUE)
    BY <1>7, <1>17 DEF Ordered
  <2>4. Ordered(files'[Len(files')], IF inHunk' THEN sl' ELSE lno' + due', inHunk')
    BY <1>8, <1>15, <2>1, <2>3 DEF Ordered
  <2>5. LastKept'
    BY <1>8, <1>15, <1>16, <2>4 DEF LastKept
  <2>6. Steady'
    BY <1>2, <1>5, <1>8, <1>9, <1>14, <2>1, <2>2, <2>5 DEF Steady
  <2>7. QED
    BY <1>13, <2>6
<1>18. CASE ~(sl + 1 <= el)
  <2>1. ~inHunk'
    BY <1>5, <1>18
  <2>2. Outside'
    <3>1. due' <= 1 /\ lno' + due' <= MaxLine + 1
      BY <1>b, <1>18
    <3>2. ~marked' => sl + 1 = lno'
      BY <1>2, <1>10
    <3>3. ~marked' => due' = 0
      BY <1>b, <1>18, <3>2
    <3>4. QED
      BY <3>1, <3>3 DEF Outside
  <2>3. Ordered(next, sl + 1, FALSE)
    BY <1>7, <1>18 DEF Ordered
  <2>4. Ordered(files'[Len(files')], IF inHunk' THEN sl' ELSE lno' + due', inHunk')
    BY <1>8, <1>18, <1>b, <2>1, <2>3 DEF Ordered
  <2>5. LastKept'
    BY <1>8, <1>15, <1>16, <2>4 DEF LastKept
  <2>6. Steady'
    BY <1>2, <1>5, <1>8, <1>9, <1>14, <2>1, <2>2, <2>5 DEF Steady
  <2>7. QED
    BY <1>13, <2>6
<1>19. QED
  BY <1>17, <1>18

\* What holds of the last file outside of a hunk.
LEMMA LastOutside ==
  ASSUME DiffAssumption, Types, Steady, ~inHunk, files # <<>>
  PROVE  LET d == files[Len(files)]
         IN  /\ d \in Seq(Chunk) /\ Ordered(d, lno + due, FALSE)
             /\ Ordered(d, MaxLine + 1, FALSE)
             /\ ~marked => \A u : Exact(d, u, added[Len(files)])
<1> DEFINE n == Len(files)
           d == files[n]
           b == lno + due
<1>1. /\ n \in 1..n /\ n = Len(files) /\ files \in Seq(Seq(Chunk)) /\ d \in Seq(Chunk)
      /\ MaxLine \in Nat /\ lno \in Nat /\ due \in Nat /\ n = Len(added)
      /\ b \in Nat /\ b <= MaxLine + 1
  BY DEF DiffAssumption, Types, Steady, Outside
<1>2. Ordered(d, b, FALSE)
  <2>1. Ordered(d, b, inHunk)
    BY DEF Steady, LastKept
  <2>2. QED
    BY <2>1 DEF Ordered
<1>3. ~marked => Exact(d, sl - 1, added[n])
  BY <1>1 DEF Steady, LastKept
<1> HIDE DEF d, b, n
<1>4. MaxLine + 1 \in Nat
  BY <1>1
<1>5. Ordered(d, MaxLine + 1, FALSE)
  BY <1>1, <1>2, <1>4, OrderedLater
<1>6. \A u, v, lines : Exact(d, u, lines) => Exact(d, v, lines)
  BY <1>1, <1>2, ClosedExact
<1>7. ~marked => \A u : Exact(d, u, added[n])
  BY <1>3, <1>6
<1>8. QED
  BY <1>1, <1>2, <1>5, <1>7 DEF d, b, n

LEMMA Appended ==
  ASSUME NEW S, NEW q \in Seq(S), NEW x \in S
  PROVE  /\ Append(q, x) \in Seq(S) /\ Len(Append(q, x)) = Len(q) + 1
         /\ Append(q, x)[Len(q) + 1] = x
         /\ \A i \in 1..Len(q) : Append(q, x)[i] = q[i]
  OBVIOUS

LEMMA PathKept ==
  ASSUME DiffAssumption, Types, Steady, ~inHunk, Path
  PROVE  Types' /\ Steady'
<1> DEFINE n == Len(files)
<1>1. /\ n = Len(files) /\ n \in Nat /\ n = Len(added) /\ files \in Seq(Seq(Chunk))
      /\ added \in Seq(SUBSET Nat) /\ MaxLine \in Nat /\ MaxLine > 0
      /\ sl \in 0..MaxLine /\ el \in 0..MaxLine /\ (n > 0 => files # <<>>)
  BY DEF DiffAssumption, Types, Steady
<1>2. /\ files' = Append(files, <<>>) /\ sl' = sl /\ el' = el /\ inHunk' = inHunk /\ status' = status
  BY DEF Path, Writes, Read, ReadPath
<1>3. /\ due' = 0 /\ lno' = 1 /\ added' = Append(added, {}) /\ marked' = marked /\ status = "reading"
  BY DEF Path, Writes
<1> HIDE DEF n
<1>4. /\ files' \in Seq(Seq(Chunk)) /\ Len(files') = n + 1 /\ files'[n + 1] = <<>>
      /\ \A f \in 1..n : files'[f] = files[f]
  <2>1. <<>> \in Seq(Chunk)
    OBVIOUS
  <2>2. PICK x \in Seq(Chunk) : x = <<>>
    BY <2>1
  <2> DEFINE q == Append(files, x)
  <2>3. /\ q \in Seq(Seq(Chunk)) /\ Len(q) = Len(files) + 1 /\ q[Len(files) + 1] = x
        /\ \A f \in 1..Len(files) : q[f] = files[f]
    <3>1. files \in Seq(Seq(Chunk))
      BY <1>1
    <3>2. QED
      BY <2>2, <3>1, Appended
  <2>4. files' = q
    BY <1>2, <2>2
  <2> HIDE DEF q
  <2>5. QED
    BY <1>1, <2>2, <2>3, <2>4
<1>5. /\ added' \in Seq(SUBSET Nat) /\ Len(added') = n + 1 /\ added'[n + 1] = {}
      /\ \A f \in 1..n : added'[f] = added[f]
  <2>1. {} \in SUBSET Nat
    OBVIOUS
  <2>2. QED
    BY <1>1, <1>3, <2>1
<1>6. inHunk' \in BOOLEAN /\ ~inHunk'
  BY <1>2 DEF Types
<1>7. files' # <<>> /\ added' # <<>> /\ Len(files') <= Len(added') /\ Len(files') - 1 = n
  BY <1>1, <1>4, <1>5
<1>8. Types'
  <2>1. due' \in Nat /\ lno' \in Nat /\ lno' >= 1
    BY <1>3
  <2>2. QED
    BY <1>1, <1>2, <1>3, <1>4, <1>5, <1>6, <1>7, <2>1 DEF Types
<1>9. Outside'
  <2>1. due' <= 1 /\ lno' + due' <= MaxLine + 1
    BY <1>1, <1>3
  <2>2. QED
    BY <1>3, <2>1 DEF Outside
<1>10. ASSUME NEW f \in 1..n
       PROVE  /\ Ordered(files[f], MaxLine + 1, FALSE)
              /\ ~marked => Exact(files[f], 0, added[f])
  <2>1. CASE f = n
    <3>1. files # <<>>
      BY <1>1, <2>1
    <3>2. QED
      BY <2>1, <3>1, LastOutside DEF n
  <2>2. CASE f # n
    <3>1. f \in 1..(n - 1)
      BY <1>1, <2>2
    <3>2. QED
      BY <3>1 DEF Steady, EarlierKept, n
  <2>3. QED
    BY <2>1, <2>2
<1>11. EarlierKept'
  BY <1>3, <1>4, <1>5, <1>7, <1>10 DEF EarlierKept
<1>12. LastKept'
  <2>1. \A b, o : Ordered(<<>>, b, o)
    BY DEF Ordered
  <2>2. \A u : Exact(<<>>, u, {})
    BY DEF Exact, Holds
  <2>3. QED
    BY <1>4, <1>5, <2>1, <2>2 DEF LastKept
<1>13. QED
  BY <1>2, <1>3, <1>4, <1>5, <1>6, <1>8, <1>9, <1>11, <1>12 DEF Steady

\* A hunk begins; one that only removes leaves the reader outside.
LEMMA HunkKept ==
  ASSUME DiffAssumption, Types, Steady, ~inHunk,
         NEW s \in 0..MaxLine, NEW k \in Omitted..MaxCount, Hunk(s, k)
  PROVE  Types' /\ (Steady' \/ Stuck')
<1> DEFINE n == Len(files)
           d == files[n]
<1>1. /\ n = Len(files) /\ n \in Nat /\ n = Len(added) /\ files \in Seq(Seq(Chunk))
      /\ added \in Seq(SUBSET Nat) /\ MaxLine \in Nat /\ MaxLine > 0 /\ MaxCount \in Nat
      /\ sl \in 0..MaxLine /\ el \in 0..MaxLine /\ lno \in Nat /\ lno >= 1
  BY DEF DiffAssumption, Types, Steady
<1>2. /\ due = 0 /\ added # <<>> /\ status = "reading"
      /\ added' = added /\ marked' = marked /\ due' = Count(k)
      /\ lno' = IF k = 0 THEN s + 1 ELSE s
      /\ IF k = 0 THEN s + 1 >= lno ELSE s >= lno /\ s + Count(k) - 1 <= MaxLine
  BY DEF Hunk, Writes
<1>3. ReadHunk(s, k)
  <2> DEFINE line == [kind |-> "hunk", s |-> s, n |-> k]
  <2>1. Read(line)
    BY DEF Hunk, Writes
  <2>2. line.kind = "hunk" /\ line.s = s /\ line.n = k
    OBVIOUS
  <2> HIDE DEF line
  <2>3. QED
    BY <2>1, <2>2 DEF Read
<1>4. files # <<>> /\ n \in 1..n
  BY <1>1, <1>2
<1>5. /\ d \in Seq(Chunk) /\ Ordered(d, lno, FALSE)
      /\ ~marked => \A u : Exact(d, u, added[n])
  <2>1. lno + due = lno
    BY <1>1, <1>2
  <2>2. QED
    BY <1>4, <2>1, LastOutside
<1> HIDE DEF d, n
<1>6. \A f \in 1..(n - 1) : /\ Ordered(files[f], MaxLine + 1, FALSE)
                            /\ ~marked => Exact(files[f], 0, added[f])
  BY DEF Steady, EarlierKept, n
<1>7. CASE k = 0
  <2>1. UNCHANGED <<files, sl, el, inHunk, status>>
    BY <1>3, <1>7 DEF ReadHunk, parser
  <2>2. due' = 0 /\ lno' = s + 1 /\ s + 1 \in Nat /\ s + 1 >= 1 /\ lno <= s + 1 /\ s + 1 <= MaxLine + 1
    BY <1>1, <1>2, <1>7 DEF Count, Omitted
  <2>3. inHunk' \in BOOLEAN /\ ~inHunk'
    BY <2>1 DEF Types
  <2>4. lno' \in Nat /\ lno' >= 1 /\ due' \in Nat
    BY <2>2
  <2>5. Types'
    <3>1. ~(due' > 0)
      BY <2>2
    <3>2. QED
      BY <1>2, <2>1, <2>3, <2>4, <3>1 DEF Types
  <2>6. Outside'
    <3>1. due' <= 1 /\ lno' + due' <= MaxLine + 1
      BY <1>1, <2>2
    <3>2. QED
      BY <2>2, <3>1 DEF Outside
  <2>7. lno' + due' = s + 1
    BY <2>2
  <2>8. Ordered(d, s + 1, FALSE)
    BY <1>1, <1>5, <2>2, OrderedLater
  <2>9. Ordered(files'[Len(files')], IF inHunk' THEN sl' ELSE lno' + due', inHunk')
    BY <2>1, <2>3, <2>7, <2>8 DEF Ordered, d, n
  <2>10. LastKept'
    BY <1>2, <1>5, <2>1, <2>9 DEF LastKept, d, n
  <2>11. EarlierKept'
    BY <1>2, <1>6, <2>1 DEF EarlierKept, n
  <2>12. QED
    BY <1>1, <1>2, <2>1, <2>3, <2>5, <2>6, <2>10, <2>11 DEF Steady, n
<1>8. CASE k # 0
  <2> DEFINE c == Count(k)
             e == IF k = Omitted THEN s ELSE U(s + k - 1)
  <2>1. c \in Nat /\ c > 0 /\ s >= lno /\ s >= 1 /\ s \in Nat /\ s + c - 1 \in 0..MaxLine /\ s <= s + c - 1
    BY <1>1, <1>2, <1>8 DEF Count, Omitted
  <2>2. e = s + c - 1
    <3>1. CASE k = Omitted
      BY <2>1, <3>1 DEF Count
    <3>2. CASE k # Omitted
      <4>1. c = k
        BY <3>2 DEF Count
      <4>2. U(s + c - 1) = s + c - 1
        BY <2>1, UIs
      <4>3. QED
        BY <3>2, <4>1, <4>2
    <3>3. QED
      BY <3>1, <3>2
  <2> HIDE DEF c
  <2>3. s # 0 /\ s <= e /\ e \in 0..MaxLine /\ e \in Nat
    BY <2>1, <2>2
  <2>4. /\ sl' = s /\ el' = e /\ (inHunk' = (s <= e)) /\ status' = status
        /\ files' = [files EXCEPT ![Len(files)] = @]
    BY <1>3, <1>4, <1>8, <2>3 DEF ReadHunk
  <2> HIDE DEF e
  <2>5. inHunk' /\ inHunk' \in BOOLEAN
    BY <2>3, <2>4
  <2>6. files' = files
    BY <1>1, <2>4
  <2>7. due' = c /\ lno' = s
    BY <1>2, <1>8 DEF c
  <2>8. Types'
    BY <1>1, <1>2, <1>4, <2>1, <2>3, <2>4, <2>5, <2>6, <2>7 DEF Types, n
  <2>9. CASE e = MaxLine
    BY <1>2, <2>4, <2>5, <2>8, <2>9 DEF Stuck
  <2>10. CASE e # MaxLine
    <3>1. Inside'
      <4>1. e < MaxLine
        BY <1>1, <2>3, <2>10
      <4>2. QED
        BY <1>2, <2>1, <2>2, <2>3, <2>4, <2>7, <4>1 DEF Inside
    <3>2. Ordered(d, s, TRUE)
      BY <1>1, <1>5, <2>1, OrderedLater
    <3>3. Ordered(files'[Len(files')], IF inHunk' THEN sl' ELSE lno' + due', inHunk')
      BY <2>4, <2>5, <2>6, <3>2 DEF Ordered, d, n
    <3>4. LastKept'
      BY <1>2, <1>5, <2>6, <3>3 DEF LastKept, d, n
    <3>5. EarlierKept'
      BY <1>2, <1>6, <2>6 DEF EarlierKept, n
    <3>6. QED
      BY <1>1, <1>2, <2>4, <2>5, <2>6, <2>8, <3>1, <3>4, <3>5 DEF Steady, n
  <2>11. QED
    BY <2>9, <2>10
<1>9. QED
  BY <1>7, <1>8

\* A row or another line of the hunk, or one behind it.
LEMMA LineKept ==
  ASSUME DiffAssumption, Types, Steady, Writing,
         NoNewline \/ \E kind : kind # "path" /\ kind # "hunk" /\ Row(kind)
  PROVE  Types' /\ Steady'
<1>0. /\ added' \in Seq(SUBSET Nat) /\ due' \in Nat /\ lno' \in Nat /\ lno' >= 1
      /\ (due' > 0 => added' # <<>>)
  BY AccountTyped
<1>1. /\ added \in Seq(SUBSET Nat) /\ Len(files) = Len(added) /\ (due > 0 => added # <<>>)
      /\ lno \in Nat /\ due \in Nat /\ MaxLine \in Nat /\ files \in Seq(Seq(Chunk))
  BY DEF DiffAssumption, Types, Steady
<1>2. ASSUME UNCHANGED parser, added' = added \/ (marked' /\ Len(added') = Len(added)),
             inHunk => due' = due /\ lno' = lno, ~inHunk => Outside',
             inHunk \/ ~marked' => marked' = marked,
             lno' + due' = lno + due
      PROVE  Types' /\ Steady'
  <2>1. /\ files' = files /\ sl' = sl /\ el' = el /\ status' = status
        /\ Len(added') = Len(added) /\ (~marked' => added' = added)
    BY <1>2 DEF parser
  <2>2. inHunk' = inHunk
    BY <1>2 DEF parser
  <2>3. Types'
    <3>1. inHunk' \in BOOLEAN /\ (inHunk' => files' # <<>>)
      BY <2>1, <2>2 DEF Types
    <3>2. QED
      BY <1>0, <2>1, <3>1 DEF Types
  <2>4. inHunk' => Inside'
    <3>1. CASE inHunk
      <4>1. Inside
        BY <3>1 DEF Steady
      <4>2. due' = due /\ lno' = lno
        BY <1>2, <3>1
      <4>3. marked' = marked
        BY <1>2, <3>1
      <4>4. QED
        BY <2>1, <4>1, <4>2, <4>3 DEF Inside
    <3>2. QED
      BY <2>2, <3>1
  <2>5. ~inHunk' => Outside'
    BY <1>2, <2>2
  <2>6. ~marked' => ~marked
    BY <1>2
  <2>7. EarlierKept'
    BY <2>1, <2>6 DEF Steady, EarlierKept
  <2>8. LastKept'
    <3>1. ASSUME files # <<>>
          PROVE  Ordered(files[Len(files)], IF inHunk' THEN sl' ELSE lno' + due', inHunk')
      <4>1. (IF inHunk' THEN sl' ELSE lno' + due') = (IF inHunk THEN sl ELSE lno + due)
        BY <1>2, <2>1, <2>2
      <4>2. Ordered(files[Len(files)], IF inHunk THEN sl ELSE lno + due, inHunk)
        BY <3>1 DEF Steady, LastKept
      <4>3. QED
        BY <2>2, <4>1, <4>2
    <3>2. QED
      BY <2>1, <2>6, <3>1 DEF Steady, LastKept
  <2>9. QED
    BY <1>1, <2>1, <2>3, <2>4, <2>5, <2>7, <2>8 DEF Steady
<1>3. CASE NoNewline
  <2> DEFINE line == [kind |-> "\\"]
  <2>1. /\ due' = due /\ lno' = lno /\ added' = added /\ ~marked /\ marked' /\ Read(line)
    BY <1>3 DEF NoNewline, Writes
  <2>2. line.kind \notin {"-", "path", "hunk"} /\ line.kind # "+"
    OBVIOUS
  <2> HIDE DEF line
  <2>3. CASE inHunk
    <3>1. ReadRow(line.kind)
      BY <2>1, <2>3 DEF Read
    <3>2. QED
      BY <2>1, <2>2, <2>3, <3>1, RowKept
  <2>4. CASE ~inHunk
    <3>1. UNCHANGED parser
      BY <2>1, <2>2, <2>4 DEF Read
    <3>2. Outside'
      BY <2>1, <2>4 DEF Steady, Outside
    <3>3. lno' + due' = lno + due
      BY <2>1
    <3>4. QED
      BY <1>2, <2>1, <2>4, <3>1, <3>2, <3>3
  <2>5. QED
    BY <2>3, <2>4
<1>4. ASSUME NEW kind, kind # "path", kind # "hunk", Row(kind)
      PROVE  Types' /\ Steady'
  <2> DEFINE line == [kind |-> kind]
  <2>1. Read(line) /\ marked' = marked
    BY <1>4 DEF Row, Writes
  <2>2. line.kind = kind /\ kind # "path" /\ kind # "hunk"
    BY <1>4
  <2> HIDE DEF line
  <2>3. kind # "-" => /\ due > 0 /\ due' = due - 1 /\ lno' = lno + 1
                      /\ added' = IF kind = "+" THEN [added EXCEPT ![Len(added)] = @ \cup {lno}] ELSE added
    BY <1>4 DEF Row
  <2>4. CASE kind = "-"
    <3>1. UNCHANGED parser
      <4>1. CASE inHunk
        BY <2>1, <2>2, <2>4, <4>1 DEF Read, ReadRow
      <4>2. CASE ~inHunk
        BY <2>1, <2>2, <4>2 DEF Read
      <4>3. QED
        BY <4>1, <4>2
    <3>2. due' = due /\ lno' = lno /\ added' = added
      BY <1>4, <2>4 DEF Row
    <3>3. ~inHunk => Outside'
      BY <2>1, <3>2 DEF Steady, Outside
    <3>4. lno' + due' = lno + due
      BY <3>2
    <3>5. QED
      BY <1>2, <2>1, <3>1, <3>2, <3>3, <3>4
  <2>5. CASE kind # "-" /\ inHunk
    <3>1. ReadRow(kind)
      BY <2>1, <2>2, <2>5 DEF Read
    <3>2. QED
      BY <2>1, <2>3, <2>5, <3>1, RowKept
  <2>6. CASE kind # "-" /\ ~inHunk
    <3>1. UNCHANGED parser
      BY <2>1, <2>2, <2>6 DEF Read
    <3>2. Outside
      BY <2>6 DEF Steady
    <3>3. due > 0 /\ due' = due - 1 /\ lno' = lno + 1
      BY <2>3, <2>6
    <3>4. due = 1 /\ lno + due <= MaxLine + 1
      BY <1>1, <3>2, <3>3 DEF Outside
    <3>5. marked
      BY <3>2, <3>4 DEF Outside
    <3>6. due' = 0 /\ lno' + due' = lno + due
      BY <1>1, <3>3, <3>4
    <3>7. due' <= 1 /\ lno' + due' <= MaxLine + 1
      BY <3>4, <3>6
    <3>8. marked'
      BY <2>1, <3>5
    <3>9. Outside'
      BY <3>7, <3>8 DEF Outside
    <3>10. Len(added') = Len(added)
      <4>1. added' = [added EXCEPT ![Len(added)] = @ \cup {lno}] \/ added' = added
        BY <2>3, <2>6
      <4>2. added # <<>> /\ added \in Seq(SUBSET Nat) /\ lno \in Nat
        BY <1>1, <3>3
      <4>3. \A x : [added EXCEPT ![Len(added)] = x] = added \/ Len([added EXCEPT ![Len(added)] = x]) = Len(added)
        BY <4>2
      <4>4. QED
        BY <4>1, <4>3
    <3>11. QED
      BY <1>2, <2>1, <2>6, <3>1, <3>6, <3>8, <3>9, <3>10
  <2>7. QED
    BY <2>4, <2>5, <2>6
<1>5. QED
  BY <1>3, <1>4

\* A hunk without a file in front of it is an error, or no hunk to the reader.
LEMMA OrphanKept ==
  ASSUME DiffAssumption, Types, Steady, NEW s, NEW k, Orphan(s, k), Writing
  PROVE  Types' /\ (Steady' \/ status' = "error")
<1>1. /\ added = <<>> /\ files = <<>> /\ added' = added /\ marked' = marked /\ lno' = lno
      /\ due' = 0 /\ ~inHunk /\ status = "reading"
  <2>1. added = <<>> /\ Len(files) = Len(added) /\ files \in Seq(Seq(Chunk))
    BY DEF Orphan, Types, Steady
  <2>2. files = <<>>
    BY <2>1
  <2>3. ~inHunk
    BY <2>2 DEF Types
  <2>4. QED
    BY <2>1, <2>2, <2>3 DEF Orphan, Writes
<1>2. ReadHunk(s, k)
  <2> DEFINE line == [kind |-> "hunk", s |-> s, n |-> k]
  <2>1. Read(line)
    BY DEF Orphan, Writes
  <2>2. line.kind = "hunk" /\ line.s = s /\ line.n = k
    OBVIOUS
  <2> HIDE DEF line
  <2>3. QED
    BY <1>1, <2>1, <2>2 DEF Read
<1>3. /\ files' = files /\ sl' = sl /\ el' = el /\ inHunk' = inHunk
      /\ status' = status \/ status' = "error"
  <2>1. CASE s = 0 \/ k = 0
    BY <1>2, <2>1 DEF ReadHunk, parser
  <2>2. CASE ~(s = 0 \/ k = 0)
    BY <1>1, <1>2, <2>2 DEF ReadHunk
  <2>3. QED
    BY <2>1, <2>2
<1>4. Types'
  <2>1. due' \in Nat /\ lno' \in Nat /\ ~(due' > 0)
    BY <1>1 DEF Types
  <2>2. QED
    BY <1>1, <1>3, <2>1 DEF Types
<1>5. CASE status' = status
  <2>1. Outside'
    <3>1. lno + due <= MaxLine + 1 /\ due \in Nat /\ lno \in Nat /\ MaxLine \in Nat
      BY <1>1 DEF DiffAssumption, Types, Steady, Outside
    <3>2. due' <= 1 /\ lno' + due' <= MaxLine + 1
      BY <1>1, <3>1
    <3>3. QED
      BY <1>1, <3>2 DEF Outside
  <2>2. EarlierKept' /\ LastKept'
    <3>1. Len(files) - 1 = -1
      BY <1>1
    <3>2. \A f \in 1..(Len(files) - 1) : FALSE
      BY <3>1
    <3>3. EarlierKept'
      BY <1>3, <3>2 DEF EarlierKept
    <3>4. LastKept'
      BY <1>1, <1>3 DEF LastKept
    <3>5. QED
      BY <3>3, <3>4
  <2>3. Len(files) = Len(added) /\ status \in {"reading", "done"}
    BY DEF Steady
  <2>4. QED
    BY <1>1, <1>3, <1>4, <1>5, <2>1, <2>2, <2>3 DEF Steady
<1>6. QED
  BY <1>3, <1>4, <1>5

LEMMA EndKept ==
  ASSUME Types, Stuck \/ Steady, End
  PROVE  IInv'
<1>1. /\ UNCHANGED <<files, sl, el, inHunk, env>> /\ status = "reading"
      /\ status' = IF inHunk THEN "error" ELSE "done"
  BY DEF End
<1>2. /\ files' = files /\ sl' = sl /\ el' = el /\ inHunk' = inHunk /\ due' = due /\ lno' = lno
      /\ added' = added /\ marked' = marked
  BY <1>1 DEF env
<1>3. Types'
  BY <1>1, <1>2 DEF Types
<1>4. CASE inHunk
  BY <1>1, <1>3, <1>4 DEF IInv
<1>5. CASE ~inHunk
  <2>1. Steady
    BY <1>5 DEF Stuck
  <2>2. Outside'
    BY <1>2, <1>5, <2>1 DEF Steady, Outside
  <2>3. EarlierKept'
    BY <1>2, <2>1 DEF Steady, EarlierKept
  <2>4. LastKept'
    BY <1>2, <2>1 DEF Steady, LastKept
  <2>5. Steady'
    BY <1>1, <1>2, <1>5, <2>1, <2>2, <2>3, <2>4 DEF Steady
  <2>6. QED
    BY <1>3, <2>5 DEF IInv
<1>6. QED
  BY <1>4, <1>5

LEMMA WritingKept ==
  ASSUME DiffAssumption, Types, Stuck \/ Steady, Writing
  PROVE  IInv'
<1>1. CASE Stuck
  BY <1>1, StuckKept DEF IInv
<1>2. ASSUME Steady, inHunk
      PROVE  due > 0 /\ added # <<>>
  <2>1. due > 0
    BY <1>2 DEF Steady, Inside
  <2>2. QED
    BY <2>1 DEF Types
<1>3. CASE Steady
  <2>1. CASE Path
    <3>1. ~inHunk
      <4>1. due = 0
        BY <2>1 DEF Path
      <4>2. QED
        BY <1>2, <1>3, <4>1
    <3>2. QED
      BY <1>3, <2>1, <3>1, PathKept DEF IInv
  <2>2. CASE NoNewline
    BY <1>3, <2>2, LineKept DEF IInv
  <2>3. ASSUME NEW s \in 0..MaxLine, NEW k \in Omitted..MaxCount, Hunk(s, k)
        PROVE  IInv'
    <3>1. ~inHunk
      <4>1. due = 0
        BY <2>3 DEF Hunk
      <4>2. QED
        BY <1>2, <1>3, <4>1
    <3>2. QED
      BY <1>3, <2>3, <3>1, HunkKept DEF IInv
  <2>4. ASSUME NEW s, NEW k, Orphan(s, k)
        PROVE  IInv'
    BY <1>3, <2>4, OrphanKept DEF IInv
  <2>5. ASSUME NEW kind \in {"+", "-", " "}, Row(kind)
        PROVE  IInv'
    <3>1. kind # "path" /\ kind # "hunk"
      BY Zenon
    <3>2. Types' /\ Steady'
      BY <1>3, <2>5, <3>1, LineKept, Zenon
    <3>3. QED
      BY <3>2, Zenon DEF IInv
  <2>6. QED
    BY <2>1, <2>2, <2>3, <2>4, <2>5, Zenon DEF Writing
<1>4. QED
  BY <1>1, <1>3

LEMMA NextOK == DiffAssumption /\ IInv /\ [Next]_vars => IInv'
<1> SUFFICES ASSUME DiffAssumption, IInv, [Next]_vars
             PROVE  IInv'
  OBVIOUS
<1>1. CASE UNCHANGED vars
  <2>1. /\ files' = files /\ sl' = sl /\ el' = el /\ inHunk' = inHunk /\ status' = status
        /\ due' = due /\ lno' = lno /\ added' = added /\ marked' = marked
    BY <1>1 DEF vars, parser, env
  <2>2. Types'
    BY <2>1 DEF IInv, Types
  <2>3. Stuck => Stuck'
    BY <2>1 DEF Stuck
  <2>4. Steady => Steady'
    <3>1. Outside => Outside'
      BY <2>1 DEF Outside
    <3>2. Inside => Inside'
      BY <2>1 DEF Inside
    <3>3. EarlierKept => EarlierKept'
      BY <2>1 DEF EarlierKept
    <3>4. LastKept => LastKept'
      BY <2>1 DEF LastKept
    <3>5. QED
      BY <2>1, <3>1, <3>2, <3>3, <3>4 DEF Steady
  <2>5. QED
    BY <2>1, <2>2, <2>3, <2>4 DEF IInv
<1>2. CASE Writing
  <2>1. PICK line : Writes(line)
    BY <1>2, AccountTyped DEF IInv
  <2>2. status = "reading"
    BY <2>1 DEF Writes
  <2>3. QED
    BY <1>2, <2>2, WritingKept DEF IInv
<1>3. CASE End
  <2>1. status = "reading"
    BY <1>3 DEF End
  <2>2. QED
    BY <1>3, <2>1, EndKept DEF IInv
<1>4. Next => Writing \/ End
  BY Zenon DEF Next, Writing
<1>5. QED
  BY <1>1, <1>2, <1>3, <1>4

-----------------------------------------------------------------------------
(* What follows from it.                                                   *)

LEMMA ExactOK == DiffAssumption /\ IInv => ChunksExact
<1> SUFFICES ASSUME DiffAssumption, IInv
             PROVE  ChunksExact
  OBVIOUS
<1>1. TypeOK
  BY DEF IInv, Types, TypeOK, Chunk
<1>2. \A f \in 1..Len(files) : files[f] \in Seq(Chunk) /\ Len(files[f]) \in Nat
                               /\ DOMAIN files[f] = 1..Len(files[f])
  BY DEF IInv, Types
<1>3. DOMAIN files = 1..Len(files) /\ Len(files) \in Nat
  BY DEF IInv, Types
<1>4. ASSUME Steady, ~inHunk, NEW f \in 1..Len(files)
      PROVE  /\ \E b : Ordered(files[f], b, FALSE)
             /\ ~marked => Exact(files[f], 0, added[f])
  <2>1. CASE f = Len(files)
    <3>1. files # <<>>
      BY <1>3
    <3>2. QED
      BY <1>4, <2>1, <3>1, LastOutside DEF IInv
  <2>2. CASE f # Len(files)
    <3>1. \A n \in Nat : \A i \in 1..n : i # n => i \in 1..(n - 1)
      OBVIOUS
    <3>2. f \in 1..(Len(files) - 1)
      BY <1>3, <1>4, <2>2, <3>1
    <3>3. QED
      BY <1>4, <3>2 DEF Steady, EarlierKept
  <2>3. QED
    BY <2>1, <2>2
<1>5. AddedCovered
  <2> SUFFICES ASSUME ~marked, status = "done", NEW f \in DOMAIN files
               PROVE  Covered(f)
    BY DEF AddedCovered, ChangesCovered
  <2>1. Steady /\ ~inHunk
    <3>1. Steady
      BY DEF IInv, Stuck
    <3>2. QED
      BY <3>1 DEF Steady, Inside
  <2>2. Exact(files[f], 0, added[f])
    BY <1>3, <1>4, <2>1
  <2>3. PICK b : Ordered(files[f], b, FALSE)
    BY <1>3, <1>4, <2>1
  <2>4. \A i \in 1..Len(files[f]) : files[f][i].end # 0
    BY <2>3 DEF Ordered
  <2>5. \A i \in 1..Len(files[f]) : Reaches(files[f][i], 0) = files[f][i].end
    BY <2>4 DEF Reaches
  <2>6. \A m : Holds(files[f], 0, m) <=> GetChunk(files[f], m)
    BY <1>2, <1>3, <2>5 DEF Holds, GetChunk
  <2>7. QED
    BY <2>2, <2>6 DEF Covered, Exact
<1>6. ChunksOrdered
  <2> SUFFICES ASSUME status # "error", ~(inHunk /\ el = MaxLine),
                      NEW f \in DOMAIN files, NEW i \in DOMAIN files[f]
               PROVE  LET du == files[f][i]
                          open == du.end = 0 /\ f = Len(files) /\ i = Len(files[f]) /\ inHunk
                      IN  /\ open \/ du.beg <= du.end
                          /\ i > 1 => files[f][i - 1].end < du.beg
    BY DEF ChunksOrdered
  <2>1. Steady
    BY DEF IInv, Stuck
  <2>2. \E b, o : Ordered(files[f], b, o) /\ (o => f = Len(files) /\ inHunk)
    <3>1. CASE inHunk /\ f = Len(files)
      <4>1. files # <<>>
        BY <1>3
      <4>2. Ordered(files[f], sl, inHunk)
        BY <2>1, <3>1, <4>1 DEF Steady, LastKept
      <4>3. QED
        BY <3>1, <4>2
    <3>2. CASE inHunk /\ f # Len(files)
      <4>1. f \in 1..(Len(files) - 1)
        BY <1>3, <3>2
      <4>2. Ordered(files[f], MaxLine + 1, FALSE)
        BY <2>1, <4>1 DEF Steady, EarlierKept
      <4>3. QED
        BY <4>2
    <3>3. CASE ~inHunk
      BY <1>3, <1>4, <2>1, <3>3
    <3>4. QED
      BY <3>1, <3>2, <3>3
  <2>3. PICK b, o : Ordered(files[f], b, o) /\ (o => f = Len(files) /\ inHunk)
    BY <2>2
  <2>4. i \in 1..Len(files[f])
    BY <1>2, <1>3
  <2>5. /\ files[f][i].end # 0 => files[f][i].beg <= files[f][i].end
        /\ files[f][i].end = 0 => i = Len(files[f]) /\ o
        /\ i > 1 => files[f][i - 1].end < files[f][i].beg
    BY <2>3, <2>4 DEF Ordered
  <2>6. QED
    BY <2>3, <2>5
<1>7. InStep
  <2> SUFFICES ASSUME ~marked, status = "reading", due > 0, el # MaxLine
               PROVE  inHunk /\ sl = lno
    BY DEF InStep
  <2>1. Steady
    BY DEF IInv, Stuck
  <2>2. inHunk
    BY <2>1 DEF Steady, Outside
  <2>3. QED
    BY <2>1, <2>2 DEF Steady, Inside
<1>8. QED
  BY <1>1, <1>5, <1>6, <1>7 DEF ChunksExact

\* Whatever the diff and however long: the chunks that are read are the lines it
\* adds, in order, and reader and writer agree where a hunk ends.
THEOREM ChunksAlwaysExact ==
  ASSUME DiffAssumption
  PROVE  Spec => []ChunksExact
<1>1. Init => IInv
  BY InitOK
<1>2. IInv /\ [Next]_vars => IInv'
  BY NextOK
<1>3. IInv => ChunksExact
  BY ExactOK
<1>4. QED
  BY <1>1, <1>2, <1>3, PTL DEF Spec
=============================================================================
