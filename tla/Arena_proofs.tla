---------------------------- MODULE Arena_proofs ----------------------------
(***************************************************************************)
(* Proofs about Arena, for any alignment, sizes, number of objects and     *)
(* depth of scopes: what a scope holds is memory in use that is shared     *)
(* with nobody, and leaving a scope gives back what it took.               *)
(***************************************************************************)
EXTENDS Arena, TLAPS, FiniteSetTheorems, SequenceTheorems, WellFoundedInduction

-----------------------------------------------------------------------------
(* Addresses.                                                              *)

LEMMA AlignUpIs ==
  ASSUME ArenaAssumption, NEW n \in Nat
  PROVE  AlignUp(n) \in Nat /\ n <= AlignUp(n) /\ AlignUp(n) < n + Align
<1>1. Align \in Nat \ {0}
  BY DEF ArenaAssumption
<1> DEFINE q == (n + Align - 1) \div Align
<1>2. q \in Nat
  BY <1>1
<1>3. q * Align >= n /\ q * Align < n + Align
  BY <1>1
<1>4. q * Align \in Nat
  BY <1>1, <1>2
<1>5. QED
  BY <1>3, <1>4 DEF AlignUp

\* Poison, if any, fits between the end of an object and the next address.
LEMMA AlignIs ==
  ASSUME ArenaAssumption, NEW n \in Nat
  PROVE  /\ AlignAddress(n) \in Nat
         /\ n + Poison <= AlignAddress(n)
         /\ AlignAddress(n) = AlignUp(n) + Poison
<1>1. Align \in Nat \ {0} /\ Poison \in {0, Align}
  BY DEF ArenaAssumption
<1>2. AlignUp(n) \in Nat /\ n <= AlignUp(n) /\ AlignUp(n) < n + Align
  BY AlignUpIs
<1>3. QED
  BY <1>1, <1>2 DEF AlignAddress

LEMMA AlignMonotone ==
  ASSUME ArenaAssumption, NEW n \in Nat, NEW m \in Nat, n <= m
  PROVE  AlignAddress(n) <= AlignAddress(m)
<1>1. Align \in Nat \ {0}
  BY DEF ArenaAssumption
<1>2. (n + Align - 1) \div Align <= (m + Align - 1) \div Align
  BY <1>1
<1> DEFINE q == (n + Align - 1) \div Align
           r == (m + Align - 1) \div Align
<1>3. q \in Nat /\ r \in Nat /\ q <= r
  BY <1>1, <1>2
<1> HIDE DEF q, r
<1>4. q * Align <= r * Align
  BY <1>1, <1>3
<1>5. AlignUp(n) <= AlignUp(m)
  BY <1>4 DEF AlignUp, q, r
<1>6. AlignUp(n) \in Nat /\ AlignAddress(n) = AlignUp(n) + Poison
  BY AlignUpIs, AlignIs
<1>7. AlignUp(m) \in Nat /\ AlignAddress(m) = AlignUp(m) + Poison
  BY AlignUpIs, AlignIs
<1>8. Poison \in Nat
  BY DEF ArenaAssumption
<1>9. QED
  BY <1>5, <1>6, <1>7, <1>8

LEMMA AlignHeader ==
  ASSUME ArenaAssumption
  PROVE  AlignAddress(Header) = Header + Poison
<1>1. Align \in Nat \ {0} /\ Header \in Nat \ {0} /\ Header % Align = 0
  BY DEF ArenaAssumption
<1> DEFINE q == Header \div Align
           r == (Header + Align - 1) \div Align
<1>2. q \in Nat /\ r \in Nat /\ Header = q * Align
  BY <1>1
<1>3. r * Align >= Header /\ r * Align < Header + Align
  BY <1>1
<1> HIDE DEF q, r
<1>4. q * Align <= r * Align /\ r * Align < (q + 1) * Align
  BY <1>1, <1>2, <1>3
<1>5. q <= r /\ r < q + 1
  BY <1>1, <1>2, <1>4
<1>6. r = q
  BY <1>2, <1>5
<1>7. AlignUp(Header) = Header
  BY <1>2, <1>6 DEF AlignUp, r
<1>8. QED
  BY <1>1, <1>7, AlignIs

\* A power of two is larger than its exponent: a set has the sets of one
\* element and the empty one as subsets.
LEMMA PowerIs ==
  ASSUME NEW n \in Nat
  PROVE  2^n \in Nat /\ 2^n >= n
<1> DEFINE S == 1..n
           One == {{i} : i \in S}
<1>1. IsFiniteSet(S) /\ Cardinality(S) = n
  <2>1. IsFiniteSet(1..n) /\ Cardinality(1..n) = IF 1 > n THEN 0 ELSE n - 1 + 1
    BY FS_Interval
  <2>2. QED
    BY <2>1
<1> HIDE DEF S
<1>2. IsFiniteSet(SUBSET S) /\ Cardinality(SUBSET S) = 2^n
  BY <1>1, FS_SUBSET
<1>3. Cardinality(SUBSET S) \in Nat
  BY <1>2, FS_CardinalityType
<1>4. IsFiniteSet(One) /\ Cardinality(One) <= Cardinality(SUBSET S)
  <2>1. One \in SUBSET (SUBSET S)
    OBVIOUS
  <2> HIDE DEF One
  <2>2. QED
    BY <1>2, <2>1, FS_Subset
<1>5. Cardinality(One) = n
  <2> DEFINE f == [i \in S |-> {i}]
  <2>1. f \in Bijection(S, One)
    BY DEF Bijection, Injection, Surjection, IsInjective
  <2>2. ExistsBijection(S, One)
    BY <2>1 DEF ExistsBijection
  <2> HIDE DEF One
  <2>3. Cardinality(One) = Cardinality(S)
    BY <1>1, <2>2, FS_Bijection
  <2>4. QED
    BY <1>1, <2>3
<1>6. QED
  BY <1>2, <1>3, <1>4, <1>5

\* A frame made for an object holds it behind the header.
LEMMA FrameForIs ==
  ASSUME ArenaAssumption, NEW size \in Nat
  PROVE  FrameFor(size) \in Nat /\ FrameFor(size) >= size + Header + Poison
<1> DEFINE need == size + Header + Poison
           Enough(i) == FrameSize * 2^i >= need
           Minimal(i) == i \in 0..need /\ Enough(i) /\ \A j \in 0..i-1 : FrameSize * 2^j < need
<1>1. need \in Nat /\ FrameSize \in Nat \ {0}
  BY DEF ArenaAssumption
<1> HIDE DEF need
<1>2. \A i \in Nat : 2^i \in Nat
  BY PowerIs
<1>3. 2^need >= need
  BY <1>1, PowerIs
<1>4. Enough(need)
  <2> DEFINE x == 2^need
  <2>1. x \in Nat /\ x >= need
    BY <1>1, <1>2, <1>3
  <2> HIDE DEF x
  <2>2. FrameSize * x >= x
    BY <1>1, <2>1
  <2>3. FrameSize * x >= need
    BY <1>1, <2>1, <2>2
  <2>4. QED
    BY <2>3 DEF x
<1>5. PICK k \in {i \in Nat : Enough(i)} : \A j \in {i \in Nat : Enough(i)} : ~(<<j, k>> \in OpToRel(<, Nat))
  <2>1. IsWellFoundedOn(OpToRel(<, Nat), Nat)
    BY NatLessThanWellFounded
  <2>2. {i \in Nat : Enough(i)} # {} /\ {i \in Nat : Enough(i)} \subseteq Nat
    BY <1>1, <1>4
  <2> HIDE DEF Enough
  <2>3. QED
    BY <2>1, <2>2, WFMin
<1>6. k \in Nat /\ Enough(k) /\ \A j \in Nat : j < k => ~Enough(j)
  <2> HIDE DEF Enough
  <2>1. QED
    BY <1>5 DEF OpToRel
<1>7. k <= need
  <2> HIDE DEF Enough
  <2>1. QED
    BY <1>1, <1>4, <1>6
<1>8. Minimal(k)
  <2>1. ASSUME NEW j \in 0..k-1
        PROVE  FrameSize * 2^j < need
    <3>1. j \in Nat /\ 2^j \in Nat /\ ~Enough(j)
      BY <1>2, <1>6
    <3> DEFINE x == 2^j
    <3>2. x \in Nat /\ ~(FrameSize * x >= need)
      BY <3>1
    <3> HIDE DEF x
    <3>3. FrameSize * x < need
      BY <1>1, <3>2
    <3>4. QED
      BY <3>3 DEF x
  <2>2. k \in 0..need
    BY <1>1, <1>6, <1>7
  <2>3. QED
    BY <1>6, <2>1, <2>2
<1> DEFINE c == CHOOSE i \in 0..need : Enough(i) /\ \A j \in 0..i-1 : FrameSize * 2^j < need
<1>9. c \in 0..need /\ Enough(c)
  BY <1>8
<1>10. FrameFor(size) = FrameSize * 2^c
  BY DEF FrameFor, need
<1> HIDE DEF c
<1> DEFINE x == 2^c
<1>11. x \in Nat /\ FrameSize * x >= need
  BY <1>1, <1>2, <1>9
<1> HIDE DEF x
<1>12. FrameSize * x \in Nat
  BY <1>1, <1>11
<1>13. QED
  BY <1>10, <1>11, <1>12 DEF x, need

-----------------------------------------------------------------------------
(* The layout of objects in frames.                                        *)

Frame == [id : Nat, size : Nat, len : Nat]
Obj   == [id : Nat, scope : Nat, frame : Nat, off : Nat, size : Nat]

\* Frames are filled within their size and behind their header, and the newest
\* is first.
FramesOK(fs, m) ==
  /\ fs \in Seq(Frame)
  /\ \A i \in 1..Len(fs) :
       /\ Header <= fs[i].len /\ fs[i].len <= fs[i].size /\ fs[i].id < m
       /\ \A j \in 1..Len(fs) : i < j => fs[j].id < fs[i].id

\* Where the memory of an object ends, and where the next one may begin.
End(o)  == o.off + o.size
Behind(o) == AlignAddress(o.off + o.size)

\* The next object begins behind an object, unless the frame is full.
Inside(o, f) ==
  /\ Header <= o.off /\ End(o) <= f.len
  /\ Behind(o) <= f.len \/ f.len = f.size
Held(o, fs) == \E i \in 1..Len(fs) : fs[i].id = o.frame /\ Inside(o, fs[i])

\* An object that was the last one behind an empty one grows over it.
Covers(o, p) ==
  p.size = 0 /\ o.off < p.off /\ AlignAddress(p.off) = p.off /\ p.off < End(o)

\* Two objects of a frame of that size share nothing: one is behind the other
\* or empty.
Apart(o, p, size) ==
  \/ Behind(o) <= p.off \/ Behind(p) <= o.off
  \/ Covers(o, p) \/ Covers(p, o)
  \/ o.off = size \/ p.off = size

Named(os, m) ==
  /\ os \subseteq Obj
  /\ \A o \in os : o.id < m /\ \A p \in os : o.id = p.id => o = p

Unshared(os, fs) ==
  \A i \in 1..Len(fs) : \A o, p \in os :
     (o.frame = fs[i].id /\ p.frame = fs[i].id /\ o.id # p.id) => Apart(o, p, fs[i].size)

Layout(fs, os, m) ==
  /\ FramesOK(fs, m) /\ Named(os, m) /\ Unshared(os, fs)
  /\ \A o \in os : Held(o, fs)

\* The frames a scope found are those that are left of fs, the first of them
\* filled further at most.
Kept(fs, old) ==
  /\ 1 <= Len(old) /\ Len(old) <= Len(fs)
  /\ LET k == Len(fs) - Len(old)
     IN  /\ fs[k + 1].id = old[1].id /\ fs[k + 1].size = old[1].size
         /\ old[1].len <= fs[k + 1].len
         /\ \A j \in 2..Len(old) : fs[k + j] = old[j]

\* g is the frame f with an object of that size.
Pushed(f, size, g) ==
  /\ g \in Frame /\ g.id = f.id /\ g.size = f.size
  /\ f.len <= g.len /\ f.len + size <= g.len /\ g.len <= g.size
  /\ g.len = IF AlignAddress(f.len + size) > f.size THEN f.size ELSE AlignAddress(f.len + size)

LEMMA PushIs ==
  ASSUME ArenaAssumption, NEW f \in Frame, NEW size \in Nat, f.len + size <= f.size
  PROVE  Pushed(f, size, Push(f, size))
<1>1. f.len + size \in Nat /\ f.len \in Nat /\ f.size \in Nat
  BY DEF Frame
<1>2. AlignAddress(f.len + size) \in Nat /\ f.len + size + Poison <= AlignAddress(f.len + size)
  BY <1>1, AlignIs
<1>3. Poison \in Nat
  BY DEF ArenaAssumption
<1> DEFINE new == AlignAddress(f.len + size)
<1>4. new \in Nat /\ f.len + size <= new
  BY <1>1, <1>2, <1>3
<1>5. Push(f, size) = [f EXCEPT !.len = IF new > f.size THEN f.size ELSE new]
  BY DEF Push
<1> HIDE DEF new
<1>6. /\ Push(f, size) \in Frame /\ Push(f, size).id = f.id /\ Push(f, size).size = f.size
      /\ Push(f, size).len = IF new > f.size THEN f.size ELSE new
  BY <1>1, <1>4, <1>5 DEF Frame
<1>7. f.len <= Push(f, size).len /\ f.len + size <= Push(f, size).len
      /\ Push(f, size).len <= Push(f, size).size
  BY <1>1, <1>4, <1>6
<1>8. QED
  BY <1>6, <1>7 DEF Pushed, new

\* A new frame is filled up to its header.
LEMMA NewFrameIs ==
  ASSUME ArenaAssumption, NEW id \in Nat, NEW size \in Nat, size >= Header + Poison
  PROVE  NewFrame(id, size) = [id |-> id, size |-> size, len |-> Header + Poison]
<1>1. Header \in Nat /\ Poison \in Nat
  BY DEF ArenaAssumption
<1>2. AlignAddress(Header) = Header + Poison
  BY AlignHeader
<1>3. AlignAddress(0 + Header) = Header + Poison
  BY <1>1, <1>2
<1>4. ~(Header + Poison > size)
  BY <1>1
<1>5. QED
  BY <1>3, <1>4 DEF NewFrame, Push

\* The first frame replaced, and a frame put in front.
LEMMA HeadReplaced ==
  ASSUME NEW S, NEW fs \in Seq(S), fs # <<>>, NEW g \in S
  PROVE  LET r == <<g>> \o Tail(fs)
         IN  /\ r \in Seq(S) /\ Len(r) = Len(fs) /\ r[1] = g
             /\ \A i \in 2..Len(fs) : r[i] = fs[i]
OBVIOUS

LEMMA HeadAdded ==
  ASSUME NEW S, NEW fs \in Seq(S), NEW g \in S
  PROVE  LET r == <<g>> \o fs
         IN  /\ r \in Seq(S) /\ Len(r) = Len(fs) + 1 /\ r[1] = g
             /\ \A i \in 1..Len(fs) : r[i + 1] = fs[i]
OBVIOUS

\* Being apart and being inside, as arithmetic.
LEMMA EndsAre ==
  ASSUME ArenaAssumption, NEW o \in Obj
  PROVE  /\ End(o) \in Nat /\ o.off \in Nat /\ o.size \in Nat /\ o.off <= End(o)
         /\ Behind(o) \in Nat /\ End(o) + Poison <= Behind(o) /\ Poison \in Nat
         /\ End(o) = o.off + o.size
<1>1. o.off \in Nat /\ o.size \in Nat /\ o.off + o.size \in Nat
  BY DEF Obj
<1>2. Behind(o) \in Nat /\ o.off + o.size + Poison <= Behind(o)
  BY <1>1, AlignIs DEF Behind
<1>3. QED
  BY <1>1, <1>2 DEF End, ArenaAssumption

LEMMA ApartSymmetric ==
  ASSUME NEW o, NEW p, NEW size
  PROVE  Apart(o, p, size) => Apart(p, o, size)
BY DEF Apart

LEMMA FrameUnique ==
  ASSUME NEW fs, NEW m \in Nat, FramesOK(fs, m), NEW i \in 1..Len(fs), NEW j \in 1..Len(fs),
         fs[i].id = fs[j].id
  PROVE  i = j
<1>1. fs \in Seq(Frame) /\ Len(fs) \in Nat
  BY DEF FramesOK
<1>2. fs[i].id \in Nat /\ fs[j].id \in Nat
  <2>1. fs[i] \in Frame /\ fs[j] \in Frame
    BY <1>1
  <2>2. \A f \in Frame : f.id \in Nat
    BY DEF Frame
  <2>3. QED
    BY <2>1, <2>2
<1>3. ~(i < j) /\ ~(j < i)
  BY <1>2 DEF FramesOK
<1>4. QED
  BY <1>1, <1>3

\* The same frames, filled further.
Grown(fs, r) ==
  /\ r \in Seq(Frame) /\ Len(r) = Len(fs)
  /\ \A i \in 1..Len(fs) : /\ r[i].id = fs[i].id /\ r[i].size = fs[i].size
                           /\ fs[i].len <= r[i].len /\ r[i].len <= r[i].size

LEMMA GrownKeeps ==
  ASSUME ArenaAssumption, NEW fs, NEW r, NEW m \in Nat, NEW n \in Nat, m <= n,
         FramesOK(fs, m), Grown(fs, r)
  PROVE  /\ FramesOK(r, n)
         /\ \A o \in Obj : Held(o, fs) => Held(o, r)
         /\ \A os : Unshared(os, fs) => Unshared(os, r)
<1>1. /\ fs \in Seq(Frame) /\ r \in Seq(Frame) /\ Len(r) = Len(fs) /\ Len(fs) \in Nat
      /\ Header \in Nat
  BY DEF FramesOK, Grown, ArenaAssumption
<1>2. FramesOK(r, n)
  <2>1. ASSUME NEW i \in 1..Len(r)
        PROVE  /\ Header <= r[i].len /\ r[i].len <= r[i].size /\ r[i].id < n
               /\ \A j \in 1..Len(r) : i < j => r[j].id < r[i].id
    <3>1. fs[i] \in Frame /\ r[i] \in Frame /\ i \in 1..Len(fs)
      BY <1>1, <2>1
    <3>2. Header <= fs[i].len /\ fs[i].id < m
      BY <3>1 DEF FramesOK
    <3>3. fs[i].len <= r[i].len /\ r[i].len <= r[i].size /\ r[i].id = fs[i].id
      BY <3>1 DEF Grown
    <3>4. ASSUME NEW j \in 1..Len(r), i < j
          PROVE  r[j].id < r[i].id
      <4>1. j \in 1..Len(fs)
        BY <1>1, <3>4
      <4>2. fs[j].id < fs[i].id /\ r[j].id = fs[j].id
        BY <3>1, <3>4, <4>1 DEF FramesOK, Grown
      <4>3. QED
        BY <3>3, <4>2
    <3>5. fs[i].id \in Nat /\ fs[i].len \in Nat /\ r[i].len \in Nat
      BY <3>1 DEF Frame
    <3>6. Header <= r[i].len /\ r[i].id < n
      BY <1>1, <3>2, <3>3, <3>5
    <3>7. QED
      BY <3>3, <3>4, <3>6
  <2>2. QED
    BY <1>1, <2>1 DEF FramesOK
<1>3. ASSUME NEW o \in Obj, Held(o, fs)
      PROVE  Held(o, r)
  <2>1. PICK i \in 1..Len(fs) : fs[i].id = o.frame /\ Inside(o, fs[i])
    BY <1>3 DEF Held
  <2>2. fs[i] \in Frame /\ r[i] \in Frame
    BY <1>1, <2>1
  <2>3. fs[i].len <= r[i].len /\ r[i].len <= r[i].size /\ r[i].id = fs[i].id /\ r[i].size = fs[i].size
    BY <2>1 DEF Grown
  <2>4. End(o) \in Nat /\ Behind(o) \in Nat
    BY EndsAre
  <2>5. Inside(o, r[i])
    BY <2>1, <2>2, <2>3, <2>4 DEF Inside, Frame
  <2>6. QED
    BY <1>1, <2>1, <2>3, <2>5 DEF Held
<1>4. ASSUME NEW os, Unshared(os, fs)
      PROVE  Unshared(os, r)
  BY <1>1, <1>4 DEF Unshared, Grown
<1>5. QED
  BY <1>2, <1>3, <1>4

\* The first frame pushed is one filled further.
LEMMA HeadPushed ==
  ASSUME NEW fs, NEW m \in Nat, FramesOK(fs, m), fs # <<>>, NEW g \in Frame,
         g.id = fs[1].id, g.size = fs[1].size, fs[1].len <= g.len, g.len <= g.size
  PROVE  /\ Grown(fs, <<g>> \o Tail(fs)) /\ (<<g>> \o Tail(fs))[1] = g
         /\ \A i \in 2..Len(fs) : (<<g>> \o Tail(fs))[i] = fs[i]
<1>1. fs \in Seq(Frame) /\ Len(fs) \in Nat /\ Len(fs) > 0
  BY DEF FramesOK
<1> DEFINE r == <<g>> \o Tail(fs)
<1>2. r \in Seq(Frame) /\ Len(r) = Len(fs) /\ r[1] = g /\ \A i \in 2..Len(fs) : r[i] = fs[i]
  BY <1>1, HeadReplaced
<1> HIDE DEF r
<1>3. ASSUME NEW i \in 1..Len(fs)
      PROVE  /\ r[i].id = fs[i].id /\ r[i].size = fs[i].size
             /\ fs[i].len <= r[i].len /\ r[i].len <= r[i].size
  <2>1. fs[i] \in Frame /\ fs[i].len <= fs[i].size
    BY <1>1 DEF FramesOK
  <2>2. CASE i = 1
    BY <1>2, <2>2
  <2>3. CASE i # 1
    <3>1. r[i] = fs[i]
      BY <1>1, <1>2, <2>3
    <3>2. QED
      BY <2>1, <3>1 DEF Frame
  <2>4. QED
    BY <2>2, <2>3
<1>4. QED
  BY <1>2, <1>3 DEF Grown, r

\* An object behind all others of the current frame.
LEMMA AllocatedHere ==
  ASSUME ArenaAssumption, NEW fs, NEW os, NEW keep, NEW m \in Nat, NEW scope \in Nat,
         NEW size \in Nat, Layout(fs, os, m), keep \subseteq os, fs # <<>>,
         Fits(Head(fs), size)
  PROVE  /\ Layout(<<Push(Head(fs), size)>> \o Tail(fs),
                   keep \cup {Object(m, scope, Head(fs), size)}, m + 2)
         /\ Grown(fs, <<Push(Head(fs), size)>> \o Tail(fs))
         /\ Object(m, scope, Head(fs), size) \in Obj
<1> DEFINE f == fs[1]
           g == Push(f, size)
           r == <<g>> \o Tail(fs)
           o == Object(m, scope, f, size)
<1>1. /\ fs \in Seq(Frame) /\ Len(fs) \in Nat /\ Len(fs) >= 1 /\ Head(fs) = f /\ f \in Frame
      /\ FramesOK(fs, m) /\ Named(os, m) /\ Unshared(os, fs)
  BY DEF Layout, FramesOK
<1>2. Header <= f.len /\ f.len <= f.size /\ f.id < m /\ f.len + size <= f.size
  BY <1>1 DEF FramesOK, Fits
<1>3. Pushed(f, size, g)
  BY <1>1, <1>2, PushIs
<1>4. o = [id |-> m, scope |-> scope, frame |-> f.id, off |-> f.len, size |-> size]
  BY DEF Object
<1>5. o \in Obj
  BY <1>1, <1>4 DEF Obj, Frame
<1>6. f = fs[1]
  OBVIOUS
<1> HIDE DEF f, g, o
<1>7. Grown(fs, r) /\ r[1] = g
  BY <1>1, <1>3, <1>6, HeadPushed DEF Pushed
<1>8. FramesOK(r, m + 2) /\ (\A p \in Obj : Held(p, fs) => Held(p, r)) /\ Unshared(os, r)
  BY <1>1, <1>7, GrownKeeps
<1> HIDE DEF r
<1>9. Named(keep \cup {o}, m + 2)
  <2>1. keep \subseteq Obj /\ \A p \in keep : p.id < m /\ p.id \in Nat
    BY <1>1 DEF Named, Obj
  <2>2. o.id = m
    BY <1>4
  <2>3. \A p \in keep : p.id < m + 2 /\ p.id # o.id
    BY <2>1, <2>2
  <2>4. \A p, q \in keep : p.id = q.id => p = q
    BY <1>1 DEF Named
  <2>5. o.id < m + 2
    BY <2>2
  <2>6. QED
    BY <1>5, <2>1, <2>3, <2>4, <2>5 DEF Named
<1>10. o.frame = f.id /\ o.off = f.len /\ End(o) = f.len + size /\ Behind(o) = AlignAddress(f.len + size)
  BY <1>4 DEF End, Behind
<1>11. Held(o, r)
  <2>1. g.id = f.id /\ f.len + size <= g.len /\ g \in Frame /\ g.size = f.size
        /\ g.len = IF AlignAddress(f.len + size) > f.size THEN f.size ELSE AlignAddress(f.len + size)
    BY <1>3 DEF Pushed
  <2>2. AlignAddress(f.len + size) \in Nat
    BY <1>5, <1>10, EndsAre
  <2>3. Behind(o) <= g.len \/ g.len = g.size
    BY <1>10, <2>1, <2>2 DEF Frame
  <2>4. Inside(o, g)
    BY <1>2, <1>10, <2>1, <2>3 DEF Inside
  <2>5. 1 \in 1..Len(r)
    BY <1>1, <1>7 DEF Grown
  <2>6. QED
    BY <1>7, <1>10, <2>1, <2>4, <2>5 DEF Held
<1>12. \A p \in keep \cup {o} : Held(p, r)
  BY <1>1, <1>8, <1>11 DEF Layout, Named
<1>13. ASSUME NEW i \in 1..Len(r), NEW p \in keep, p.frame = r[i].id, o.frame = r[i].id
       PROVE  Apart(p, o, r[i].size)
  <2>1. i \in 1..Len(fs) /\ r[i].id = fs[i].id /\ r[i].size = fs[i].size /\ 1 \in 1..Len(fs)
    BY <1>1, <1>7 DEF Grown
  <2>2. fs[i].id = fs[1].id
    BY <1>6, <1>10, <1>13, <2>1
  <2>3. i = 1
    BY <1>1, <2>1, <2>2, FrameUnique
  <2>4. PICK j \in 1..Len(fs) : fs[j].id = p.frame /\ Inside(p, fs[j])
    BY DEF Layout, Held
  <2>5. fs[j].id = fs[1].id
    BY <1>13, <2>1, <2>2, <2>4
  <2>6. j = 1
    BY <1>1, <2>1, <2>5, FrameUnique
  <2>7. Behind(p) <= f.len \/ f.len = f.size
    BY <1>6, <2>4, <2>6 DEF Inside
  <2>8. QED
    BY <1>6, <1>10, <2>1, <2>3, <2>7 DEF Apart
<1>14. Unshared(keep \cup {o}, r)
  <2>1. ASSUME NEW i \in 1..Len(r), NEW p \in keep \cup {o}, NEW q \in keep \cup {o},
               p.frame = r[i].id, q.frame = r[i].id, p.id # q.id
        PROVE  Apart(p, q, r[i].size)
    <3>1. CASE p = o
      BY <1>13, <2>1, <3>1, ApartSymmetric
    <3>2. CASE q = o
      BY <1>13, <2>1, <3>2
    <3>3. CASE p # o /\ q # o
      BY <1>8, <2>1, <3>3 DEF Unshared
    <3>4. QED
      BY <3>1, <3>2, <3>3
  <2>2. QED
    BY <2>1 DEF Unshared
<1>15. Layout(r, keep \cup {o}, m + 2)
  BY <1>8, <1>9, <1>12, <1>14 DEF Layout
<1>16. r = <<Push(Head(fs), size)>> \o Tail(fs) /\ o = Object(m, scope, Head(fs), size)
  BY <1>1 DEF r, o, g
<1>17. QED
  BY <1>5, <1>7, <1>15, <1>16

\* A frame in front of the others.
Added(fs, r) ==
  r \in Seq(Frame) /\ Len(r) = Len(fs) + 1 /\ \A i \in 1..Len(fs) : r[i + 1] = fs[i]

LEMMA AddedKeeps ==
  ASSUME ArenaAssumption, NEW fs, NEW r, NEW m \in Nat, FramesOK(fs, m), Added(fs, r),
         r[1].id = m + 1, Header <= r[1].len, r[1].len <= r[1].size
  PROVE  /\ FramesOK(r, m + 2)
         /\ \A o : Held(o, fs) => Held(o, r)
         /\ \A os : (\A o \in os : Held(o, fs)) /\ Unshared(os, fs) => Unshared(os, r)
<1>1. /\ fs \in Seq(Frame) /\ r \in Seq(Frame) /\ Len(fs) \in Nat /\ Len(r) = Len(fs) + 1
      /\ \A i \in 1..Len(fs) : r[i + 1] = fs[i] /\ fs[i] \in Frame
  BY DEF FramesOK, Added
<1>2. \A i \in 1..Len(r) : i = 1 \/ (i - 1 \in 1..Len(fs) /\ r[i] = fs[i - 1])
  <2>1. ASSUME NEW i \in 1..Len(r), i # 1
        PROVE  i - 1 \in 1..Len(fs) /\ r[i] = fs[i - 1]
    <3>1. i - 1 \in 1..Len(fs) /\ (i - 1) + 1 = i
      BY <1>1, <2>1
    <3>2. QED
      BY <1>1, <3>1
  <2>2. QED
    BY <2>1
<1>3. \A i \in 1..Len(fs) : fs[i].id < m /\ fs[i].id \in Nat
  <2>1. \A f \in Frame : f.id \in Nat
    BY DEF Frame
  <2>2. QED
    BY <1>1, <2>1 DEF FramesOK
<1>4. FramesOK(r, m + 2)
  <2>1. ASSUME NEW i \in 1..Len(r)
        PROVE  Header <= r[i].len /\ r[i].len <= r[i].size /\ r[i].id < m + 2
    <3>1. CASE i = 1
      BY <3>1
    <3>2. CASE i # 1
      <4>1. i - 1 \in 1..Len(fs) /\ r[i] = fs[i - 1]
        BY <1>2, <3>2
      <4>2. QED
        BY <1>3, <4>1 DEF FramesOK
    <3>3. QED
      BY <3>1, <3>2
  <2>2. ASSUME NEW i \in 1..Len(r), NEW j \in 1..Len(r), i < j
        PROVE  r[j].id < r[i].id
    <3>1. j # 1 /\ j - 1 \in 1..Len(fs) /\ r[j] = fs[j - 1]
      BY <1>1, <1>2, <2>2
    <3>2. CASE i = 1
      BY <1>3, <3>1, <3>2
    <3>3. CASE i # 1
      <4>1. i - 1 \in 1..Len(fs) /\ r[i] = fs[i - 1] /\ i - 1 < j - 1
        BY <1>1, <1>2, <2>2, <3>3
      <4>2. QED
        BY <3>1, <4>1 DEF FramesOK
    <3>4. QED
      BY <3>2, <3>3
  <2>3. QED
    BY <1>1, <2>1, <2>2 DEF FramesOK
<1>5. ASSUME NEW o, Held(o, fs)
      PROVE  Held(o, r)
  <2>1. PICK i \in 1..Len(fs) : fs[i].id = o.frame /\ Inside(o, fs[i])
    BY <1>5 DEF Held
  <2>2. i + 1 \in 1..Len(r) /\ r[i + 1] = fs[i]
    BY <1>1, <2>1
  <2>3. QED
    BY <2>1, <2>2 DEF Held
<1>6. ASSUME NEW os, \A o \in os : Held(o, fs), Unshared(os, fs)
      PROVE  Unshared(os, r)
  <2>1. ASSUME NEW i \in 1..Len(r), NEW o \in os, NEW p \in os,
               o.frame = r[i].id, p.frame = r[i].id, o.id # p.id
        PROVE  Apart(o, p, r[i].size)
    <3>1. PICK j \in 1..Len(fs) : fs[j].id = o.frame
      BY <1>6 DEF Held
    <3>2. i # 1
      BY <1>3, <2>1, <3>1
    <3>3. i - 1 \in 1..Len(fs) /\ r[i] = fs[i - 1]
      BY <1>2, <3>2
    <3>4. QED
      BY <1>6, <2>1, <3>3 DEF Unshared
  <2>2. QED
    BY <2>1 DEF Unshared
<1>7. QED
  BY <1>4, <1>5, <1>6

\* An object in a frame of its own, which is large enough.
LEMMA AllocatedNew ==
  ASSUME ArenaAssumption, NEW fs, NEW os, NEW keep, NEW m \in Nat, NEW scope \in Nat,
         NEW size \in Nat, Layout(fs, os, m), keep \subseteq os
  PROVE  LET f == NewFrame(m + 1, FrameFor(size))
             r == <<Push(f, size)>> \o fs
             o == Object(m, scope, f, size)
         IN  /\ Fits(f, size) /\ Layout(r, keep \cup {o}, m + 2) /\ Added(fs, r) /\ o \in Obj
<1> DEFINE f == NewFrame(m + 1, FrameFor(size))
           g == Push(f, size)
           r == <<g>> \o fs
           o == Object(m, scope, f, size)
           z == FrameFor(size)
<1>1. z \in Nat /\ z >= size + Header + Poison /\ Header \in Nat /\ Poison \in Nat
  BY FrameForIs DEF ArenaAssumption
<1>2. f = [id |-> m + 1, size |-> z, len |-> Header + Poison]
  <2> HIDE DEF z
  <2>1. m + 1 \in Nat /\ z >= Header + Poison
    BY <1>1
  <2>2. NewFrame(m + 1, z) = [id |-> m + 1, size |-> z, len |-> Header + Poison]
    BY <1>1, <2>1, NewFrameIs
  <2>3. QED
    BY <2>2 DEF z
<1>3. o = [id |-> m, scope |-> scope, frame |-> f.id, off |-> f.len, size |-> size]
  BY DEF Object
<1> HIDE DEF f, o, z
<1>4. f \in Frame /\ f.id = m + 1 /\ f.len = Header + Poison /\ f.len + size <= f.size
  BY <1>1, <1>2 DEF Frame
<1>5. Pushed(f, size, g)
  BY <1>4, PushIs
<1>6. o \in Obj
  BY <1>3, <1>4, <1>1 DEF Obj
<1> HIDE DEF g
<1>7. g \in Frame /\ g.id = m + 1 /\ g.size = f.size /\ f.len <= g.len /\ f.len + size <= g.len
      /\ g.len <= g.size
      /\ g.len = IF AlignAddress(f.len + size) > f.size THEN f.size ELSE AlignAddress(f.len + size)
  BY <1>4, <1>5 DEF Pushed
<1>8. /\ fs \in Seq(Frame) /\ Len(fs) \in Nat /\ FramesOK(fs, m) /\ Named(os, m) /\ Unshared(os, fs)
      /\ \A p \in os : Held(p, fs)
  BY DEF Layout, FramesOK
<1>9. Added(fs, r) /\ r[1] = g
  BY <1>7, <1>8, HeadAdded DEF Added
<1> HIDE DEF r
<1>10. Header <= g.len
  BY <1>1, <1>4, <1>7 DEF Frame
<1>11. /\ FramesOK(r, m + 2) /\ (\A p : Held(p, fs) => Held(p, r))
       /\ Unshared(os, r)
  BY <1>7, <1>8, <1>9, <1>10, AddedKeeps
<1>12. Named(keep \cup {o}, m + 2)
  <2>1. keep \subseteq Obj /\ \A p \in keep : p.id < m /\ p.id \in Nat
    BY <1>8 DEF Named, Obj
  <2>2. o.id = m
    BY <1>3
  <2>3. \A p \in keep : p.id < m + 2 /\ p.id # o.id
    BY <2>1, <2>2
  <2>4. \A p, q \in keep : p.id = q.id => p = q
    BY <1>8 DEF Named
  <2>5. o.id < m + 2
    BY <2>2
  <2>6. QED
    BY <1>6, <2>1, <2>3, <2>4, <2>5 DEF Named
<1>13. o.frame = m + 1 /\ o.off = f.len /\ End(o) = f.len + size
       /\ Behind(o) = AlignAddress(f.len + size)
  BY <1>3, <1>4 DEF End, Behind
<1>14. Held(o, r)
  <2>1. Behind(o) \in Nat
    BY <1>6, EndsAre
  <2>2. Behind(o) <= g.len \/ g.len = g.size
    BY <1>7, <1>13, <2>1 DEF Frame
  <2>3. Header <= o.off
    BY <1>1, <1>4, <1>13
  <2>4. Inside(o, g)
    BY <1>7, <1>13, <2>2, <2>3 DEF Inside
  <2>5. 1 \in 1..Len(r)
    BY <1>8, <1>9 DEF Added
  <2>6. QED
    BY <1>7, <1>9, <1>13, <2>4, <2>5 DEF Held
<1>15. \A p \in keep \cup {o} : Held(p, r)
  BY <1>8, <1>11, <1>14
<1>16. \A p \in keep : p.frame # m + 1
  <2>1. ASSUME NEW p \in keep
        PROVE  p.frame # m + 1
    <3>1. PICK i \in 1..Len(fs) : fs[i].id = p.frame
      BY <1>8 DEF Held
    <3>2. fs[i] \in Frame /\ fs[i].id < m
      BY <1>8 DEF FramesOK
    <3>3. fs[i].id \in Nat
      BY <3>2 DEF Frame
    <3>4. QED
      BY <3>1, <3>2, <3>3
  <2>2. QED
    BY <2>1
<1>17. Unshared(keep \cup {o}, r)
  <2>1. ASSUME NEW i \in 1..Len(r), NEW p \in keep \cup {o}, NEW q \in keep \cup {o},
               p.frame = r[i].id, q.frame = r[i].id, p.id # q.id
        PROVE  Apart(p, q, r[i].size)
    <3>1. p # o /\ q # o
      BY <1>13, <1>16, <2>1
    <3>2. QED
      BY <1>11, <2>1, <3>1 DEF Unshared
  <2>2. QED
    BY <2>1 DEF Unshared
<1>18. Layout(r, keep \cup {o}, m + 2)
  BY <1>11, <1>12, <1>15, <1>17 DEF Layout
<1>19. Fits(f, size)
  BY <1>4 DEF Fits
<1>20. QED
  BY <1>6, <1>9, <1>18, <1>19 DEF r, g, f, o

\* An object of another size, where it was.
LEMMA Resized ==
  ASSUME NEW os, NEW m \in Nat, Named(os, m), NEW o \in os, NEW size \in Nat
  PROVE  LET q == [o EXCEPT !.size = size]
         IN  /\ o \in Obj /\ q \in Obj /\ q.id = o.id /\ q.scope = o.scope /\ q.frame = o.frame
             /\ q.off = o.off /\ q.size = size
             /\ Named((os \ {o}) \cup {q}, m + 2)
<1> DEFINE q == [o EXCEPT !.size = size]
<1>1. o \in Obj /\ os \subseteq Obj
  BY DEF Named
<1>2. /\ q \in Obj /\ q.id = o.id /\ q.scope = o.scope /\ q.frame = o.frame
      /\ q.off = o.off /\ q.size = size
  BY <1>1 DEF Obj
<1> HIDE DEF q
<1>3. \A p \in os : p.id < m + 2
  <2>1. \A p \in os : p.id \in Nat /\ p.id < m
    BY <1>1 DEF Named, Obj
  <2>2. QED
    BY <2>1
<1>4. \A p \in os \ {o} : p.id # q.id
  BY <1>2 DEF Named
<1>5. \A p, r \in os \ {o} : p.id = r.id => p = r
  BY DEF Named
<1>6. q.id < m + 2
  BY <1>2, <1>3
<1>7. Named((os \ {o}) \cup {q}, m + 2)
  BY <1>1, <1>2, <1>3, <1>4, <1>5, <1>6 DEF Named
<1>8. QED
  BY <1>1, <1>2, <1>7 DEF q

\* Shrunk in place.
LEMMA Shrunk ==
  ASSUME ArenaAssumption, NEW fs, NEW os, NEW m \in Nat, Layout(fs, os, m), NEW o \in os,
         NEW size \in Nat, size <= o.size
  PROVE  Layout(fs, (os \ {o}) \cup {[o EXCEPT !.size = size]}, m + 2)
<1> DEFINE q == [o EXCEPT !.size = size]
<1>1. FramesOK(fs, m) /\ Named(os, m) /\ Unshared(os, fs) /\ \A p \in os : Held(p, fs)
  BY DEF Layout
<1>2. /\ o \in Obj /\ q \in Obj /\ q.id = o.id /\ q.scope = o.scope /\ q.frame = o.frame
      /\ q.off = o.off /\ q.size = size
      /\ Named((os \ {o}) \cup {q}, m + 2)
  BY <1>1, Resized
<1> HIDE DEF q
<1>3. FramesOK(fs, m + 2)
  <2>1. fs \in Seq(Frame) /\ \A i \in 1..Len(fs) : fs[i] \in Frame
    BY <1>1 DEF FramesOK
  <2>2. \A f \in Frame : f.len \in Nat
    BY DEF Frame
  <2>3. Grown(fs, fs)
    BY <1>1, <2>1, <2>2 DEF Grown, FramesOK
  <2>4. QED
    BY <1>1, <2>3, GrownKeeps
<1>4. /\ End(o) \in Nat /\ o.off \in Nat /\ o.size \in Nat /\ Behind(o) \in Nat
      /\ End(o) = o.off + o.size
  BY <1>2, EndsAre
<1>5. End(q) \in Nat /\ Behind(q) \in Nat /\ End(q) = o.off + size
  BY <1>2, EndsAre
<1>6. End(q) <= End(o)
  BY <1>4, <1>5
<1>7. AlignAddress(End(q)) <= AlignAddress(End(o))
  BY <1>4, <1>5, <1>6, AlignMonotone
<1>8. Behind(q) = AlignAddress(End(q)) /\ Behind(o) = AlignAddress(End(o))
  BY DEF Behind, End
<1>9. Held(q, fs)
  <2>1. PICK i \in 1..Len(fs) : fs[i].id = o.frame /\ Inside(o, fs[i])
    BY <1>1 DEF Held
  <2>2. fs[i] \in Frame
    BY <1>1 DEF FramesOK
  <2>3. fs[i].len \in Nat
    BY <2>2 DEF Frame
  <2>4. Inside(q, fs[i])
    BY <1>2, <1>4, <1>5, <1>6, <1>7, <1>8, <2>1, <2>3 DEF Inside
  <2>5. QED
    BY <1>2, <2>1, <2>4 DEF Held
<1>10. ASSUME NEW p \in Obj, NEW z, Apart(o, p, z)
       PROVE  Apart(q, p, z)
  <2>1. End(p) \in Nat /\ p.off \in Nat /\ p.size \in Nat /\ Behind(p) \in Nat
        /\ AlignAddress(p.off) \in Nat
    BY EndsAre, AlignIs
  <2>2. CASE Behind(o) <= p.off
    BY <1>4, <1>5, <1>7, <1>8, <2>1, <2>2 DEF Apart
  <2>3. CASE Behind(p) <= o.off
    BY <1>2, <2>3 DEF Apart
  <2>4. CASE Covers(o, p)
    <3>1. p.size = 0 /\ o.off < p.off /\ AlignAddress(p.off) = p.off /\ p.off < End(o)
      BY <2>4 DEF Covers
    <3>2. CASE p.off < End(q)
      BY <1>2, <3>1, <3>2 DEF Apart, Covers
    <3>3. CASE ~(p.off < End(q))
      <4>1. End(q) <= p.off
        BY <1>5, <2>1, <3>3
      <4>2. AlignAddress(End(q)) <= AlignAddress(p.off)
        BY <1>5, <2>1, <4>1, AlignMonotone
      <4>3. QED
        BY <1>8, <3>1, <4>2 DEF Apart
    <3>4. QED
      BY <3>2, <3>3
  <2>5. CASE Covers(p, o)
    <3>1. o.size = 0 /\ p.off < o.off /\ AlignAddress(o.off) = o.off /\ o.off < End(p)
      BY <2>5 DEF Covers
    <3>2. size = 0
      BY <3>1
    <3>3. QED
      BY <1>2, <3>1, <3>2 DEF Apart, Covers
  <2>6. CASE o.off = z \/ p.off = z
    BY <1>2, <2>6 DEF Apart
  <2>7. QED
    BY <1>10, <2>2, <2>3, <2>4, <2>5, <2>6 DEF Apart
<1>11. Unshared((os \ {o}) \cup {q}, fs)
  <2>1. ASSUME NEW i \in 1..Len(fs), NEW p \in os \ {o}, p.frame = fs[i].id, q.frame = fs[i].id
        PROVE  Apart(q, p, fs[i].size)
    <3>1. p \in Obj /\ p.id # o.id
      BY <1>1 DEF Named
    <3>2. Apart(o, p, fs[i].size)
      BY <1>1, <1>2, <2>1, <3>1 DEF Unshared
    <3>3. QED
      BY <1>10, <3>1, <3>2
  <2>2. ASSUME NEW i \in 1..Len(fs), NEW p \in (os \ {o}) \cup {q}, NEW r \in (os \ {o}) \cup {q},
               p.frame = fs[i].id, r.frame = fs[i].id, p.id # r.id
        PROVE  Apart(p, r, fs[i].size)
    <3>1. CASE p = q
      BY <2>1, <2>2, <3>1
    <3>2. CASE r = q
      BY <2>1, <2>2, <3>2, ApartSymmetric
    <3>3. CASE p # q /\ r # q
      BY <1>1, <2>2, <3>3 DEF Unshared
    <3>4. QED
      BY <3>1, <3>2, <3>3
  <2>3. QED
    BY <2>2 DEF Unshared
<1>12. \A p \in (os \ {o}) \cup {q} : Held(p, fs)
  BY <1>1, <1>9
<1>13. QED
  BY <1>2, <1>3, <1>11, <1>12 DEF Layout, q

\* The last object of the current frame, grown in place.
LEMMA GrownLast ==
  ASSUME ArenaAssumption, NEW fs, NEW os, NEW m \in Nat, Layout(fs, os, m), NEW o \in os,
         NEW size \in Nat, size > o.size, fs # <<>>, o.frame = fs[1].id,
         Behind(o) = fs[1].len, o.off + size <= fs[1].size
  PROVE  LET r == <<Push([fs[1] EXCEPT !.len = o.off], size)>> \o Tail(fs)
         IN  /\ Layout(r, (os \ {o}) \cup {[o EXCEPT !.size = size]}, m + 2)
             /\ Grown(fs, r)
<1> DEFINE q == [o EXCEPT !.size = size]
           f == fs[1]
           h == [f EXCEPT !.len = o.off]
           g == Push(h, size)
           r == <<g>> \o Tail(fs)
<1>1. /\ FramesOK(fs, m) /\ Named(os, m) /\ Unshared(os, fs) /\ \A p \in os : Held(p, fs)
      /\ fs \in Seq(Frame) /\ Len(fs) \in Nat /\ Len(fs) >= 1 /\ f \in Frame
  BY DEF Layout, FramesOK
<1>2. /\ o \in Obj /\ q \in Obj /\ q.id = o.id /\ q.scope = o.scope /\ q.frame = o.frame
      /\ q.off = o.off /\ q.size = size
      /\ Named((os \ {o}) \cup {q}, m + 2)
  BY <1>1, Resized
<1> HIDE DEF q
<1>3. /\ End(o) \in Nat /\ o.off \in Nat /\ o.size \in Nat /\ Behind(o) \in Nat
      /\ End(o) = o.off + o.size /\ End(o) + Poison <= Behind(o) /\ Poison \in Nat
  BY <1>2, EndsAre
<1>4. End(q) \in Nat /\ Behind(q) \in Nat /\ End(q) = o.off + size
  BY <1>2, EndsAre
<1>5. Behind(o) <= Behind(q)
  <2>1. End(o) <= End(q)
    BY <1>3, <1>4
  <2>2. AlignAddress(End(o)) <= AlignAddress(End(q))
    BY <1>3, <1>4, <2>1, AlignMonotone
  <2>3. QED
    BY <2>2 DEF Behind, End
<1>6. f.len \in Nat /\ f.size \in Nat /\ f.len <= f.size /\ f.len = Behind(o) /\ Header <= f.len
      /\ Header \in Nat /\ f.id = o.frame
  BY <1>1 DEF Frame, FramesOK, ArenaAssumption
<1>7. h \in Frame /\ h.id = f.id /\ h.size = f.size /\ h.len = o.off
  BY <1>1, <1>3 DEF Frame
<1>8. f = fs[1]
  OBVIOUS
<1> HIDE DEF f, h
<1>9. Pushed(h, size, g)
  <2>1. h.len + size <= h.size
    BY <1>7, <1>8
  <2>2. QED
    BY <1>7, <2>1, PushIs
<1> HIDE DEF g
<1>10. /\ g \in Frame /\ g.id = f.id /\ g.size = f.size /\ End(q) <= g.len /\ g.len <= g.size
       /\ g.len = IF Behind(q) > f.size THEN f.size ELSE Behind(q)
  <2>1. Behind(q) = AlignAddress(o.off + size)
    BY <1>2 DEF Behind
  <2>2. QED
    BY <1>4, <1>7, <1>9, <2>1 DEF Pushed
<1>11. f.len <= g.len /\ g.len \in Nat
  BY <1>4, <1>5, <1>6, <1>10
<1>12. Grown(fs, r) /\ r[1] = g
  BY <1>1, <1>8, <1>10, <1>11, HeadPushed
<1>13. FramesOK(r, m + 2) /\ (\A p \in Obj : Held(p, fs) => Held(p, r)) /\ Unshared(os, r)
  BY <1>1, <1>12, GrownKeeps
<1> HIDE DEF r
<1>14. 1 \in 1..Len(r) /\ 1 \in 1..Len(fs) /\ Len(r) = Len(fs)
  BY <1>1, <1>12 DEF Grown
<1>15. Held(q, r)
  <2>1. Header <= o.off
    BY <1>1 DEF Held, Inside
  <2>2. Behind(q) <= g.len \/ g.len = g.size
    BY <1>4, <1>6, <1>10
  <2>3. Inside(q, g)
    BY <1>2, <1>10, <2>1, <2>2 DEF Inside
  <2>4. QED
    BY <1>2, <1>6, <1>10, <1>12, <1>14, <2>3 DEF Held
<1>16. ASSUME NEW p \in os, p.frame = f.id, Apart(o, p, f.size)
       PROVE  Apart(q, p, f.size)
  <2>1. p \in Obj
    BY <1>1 DEF Named
  <2>2. End(p) \in Nat /\ p.off \in Nat /\ p.size \in Nat /\ Behind(p) \in Nat /\ p.off <= End(p)
        /\ End(p) = p.off + p.size
    BY <2>1, EndsAre
  <2>3. Inside(p, f)
    <3>1. PICK i \in 1..Len(fs) : fs[i].id = p.frame /\ Inside(p, fs[i])
      BY <1>1 DEF Held
    <3>2. fs[i].id = fs[1].id
      BY <1>8, <1>16, <3>1
    <3>3. i = 1
      BY <1>1, <1>14, <3>1, <3>2, FrameUnique
    <3>4. QED
      BY <1>8, <3>1, <3>3
  <2>4. End(p) <= f.len /\ (Behind(p) <= f.len \/ f.len = f.size)
    BY <2>3 DEF Inside
  <2>5. CASE Behind(o) <= p.off
    <3>1. p.off = f.len /\ p.size = 0
      BY <1>6, <2>2, <2>4, <2>5
    <3>2. CASE f.len = f.size
      BY <3>1, <3>2 DEF Apart
    <3>3. CASE f.len # f.size
      <4>1. Behind(p) <= p.off
        BY <2>4, <3>1, <3>3
      <4>2. Behind(p) = AlignAddress(p.off)
        <5>1. p.off + p.size = p.off
          BY <2>2, <3>1
        <5>2. QED
          BY <5>1 DEF Behind
      <4>3. p.off <= AlignAddress(p.off) /\ AlignAddress(p.off) \in Nat
        <5>1. p.off + Poison <= AlignAddress(p.off) /\ AlignAddress(p.off) \in Nat
          BY <2>2, AlignIs
        <5>2. QED
          BY <1>3, <2>2, <5>1
      <4>4. AlignAddress(p.off) = p.off
        BY <2>2, <4>1, <4>2, <4>3
      <4>5. o.off <= p.off
        <5>1. o.off <= Behind(o) /\ o.off \in Nat /\ Behind(o) \in Nat
          BY <1>3
        <5>2. QED
          BY <2>2, <2>5, <5>1
      <4>6. CASE o.off = p.off
        BY <1>2, <4>1, <4>6 DEF Apart
      <4>7. CASE o.off < p.off /\ p.off < End(q)
        BY <1>2, <3>1, <4>4, <4>7 DEF Apart, Covers
      <4>8. CASE End(q) <= p.off
        <5>1. AlignAddress(End(q)) <= AlignAddress(p.off)
          BY <1>4, <2>2, <4>8, AlignMonotone
        <5>2. Behind(q) = AlignAddress(End(q))
          BY DEF Behind, End
        <5>3. QED
          BY <4>4, <5>1, <5>2 DEF Apart
      <4>9. QED
        BY <1>3, <1>4, <2>2, <4>5, <4>6, <4>7, <4>8
    <3>4. QED
      BY <3>2, <3>3
  <2>6. CASE Behind(p) <= o.off
    BY <1>2, <2>6 DEF Apart
  <2>7. CASE Covers(o, p)
    <3>1. p.size = 0 /\ o.off < p.off /\ AlignAddress(p.off) = p.off /\ p.off < End(o)
      BY <2>7 DEF Covers
    <3>2. p.off < End(q)
      BY <1>3, <1>4, <2>2, <3>1
    <3>3. QED
      BY <1>2, <3>1, <3>2 DEF Apart, Covers
  <2>8. CASE Covers(p, o)
    <3>1. o.size = 0 /\ o.off < End(p) /\ AlignAddress(o.off) = o.off
      BY <2>8 DEF Covers
    <3>2. o.off + o.size = o.off
      BY <1>3, <3>1
    <3>3. f.len = o.off
      BY <1>6, <3>1, <3>2 DEF Behind
    <3>4. QED
      BY <1>3, <2>2, <2>4, <3>1, <3>3
  <2>9. CASE o.off = f.size \/ p.off = f.size
    BY <1>2, <2>9 DEF Apart
  <2>10. QED
    BY <1>16, <2>5, <2>6, <2>7, <2>8, <2>9 DEF Apart
<1>17. Unshared((os \ {o}) \cup {q}, r)
  <2>1. ASSUME NEW i \in 1..Len(r), NEW p \in os \ {o}, p.frame = r[i].id, q.frame = r[i].id
        PROVE  Apart(q, p, r[i].size)
    <3>1. i \in 1..Len(fs) /\ r[i].id = fs[i].id /\ r[i].size = fs[i].size
      BY <1>12, <1>14 DEF Grown
    <3>2. fs[i].id = fs[1].id
      BY <1>2, <1>6, <1>8, <2>1, <3>1
    <3>3. i = 1
      BY <1>1, <1>14, <3>1, <3>2, FrameUnique
    <3>4. p.id # o.id
      BY <1>1 DEF Named
    <3>5. Apart(o, p, f.size) /\ p.frame = f.id
      BY <1>1, <1>2, <1>6, <1>8, <1>14, <2>1, <3>1, <3>3, <3>4 DEF Unshared
    <3>6. QED
      BY <1>8, <1>16, <3>1, <3>3, <3>5
  <2>2. ASSUME NEW i \in 1..Len(r), NEW p \in (os \ {o}) \cup {q}, NEW x \in (os \ {o}) \cup {q},
               p.frame = r[i].id, x.frame = r[i].id, p.id # x.id
        PROVE  Apart(p, x, r[i].size)
    <3>1. CASE p = q
      BY <2>1, <2>2, <3>1
    <3>2. CASE x = q
      BY <2>1, <2>2, <3>2, ApartSymmetric
    <3>3. CASE p # q /\ x # q
      BY <1>13, <2>2, <3>3 DEF Unshared
    <3>4. QED
      BY <3>1, <3>2, <3>3
  <2>3. QED
    BY <2>2 DEF Unshared
<1>18. \A p \in (os \ {o}) \cup {q} : Held(p, r)
  <2>1. \A p \in os : p \in Obj
    BY <1>1 DEF Named
  <2>2. QED
    BY <1>1, <1>13, <1>15, <2>1
<1>19. Layout(r, (os \ {o}) \cup {q}, m + 2)
  BY <1>2, <1>13, <1>17, <1>18 DEF Layout
<1>20. r = <<Push([fs[1] EXCEPT !.len = o.off], size)>> \o Tail(fs)
  BY DEF r, g, h, f
<1>21. QED
  BY <1>12, <1>19, <1>20 DEF q

-----------------------------------------------------------------------------
(* Scopes and the frames they found.                                       *)

LEMMA KeptSame ==
  ASSUME NEW fs, NEW m \in Nat, FramesOK(fs, m), fs # <<>>
  PROVE  Kept(fs, fs)
<1>1. fs \in Seq(Frame) /\ Len(fs) \in Nat /\ Len(fs) >= 1 /\ fs[1] \in Frame
  BY DEF FramesOK
<1>2. fs[1].len \in Nat
  BY <1>1 DEF Frame
<1>3. Len(fs) - Len(fs) = 0
  BY <1>1
<1> DEFINE n == Len(fs)
<1>4. n = Len(fs)
  OBVIOUS
<1>5. \A j \in 2..n : 0 + j = j
  BY <1>1
<1>6. QED
  BY <1>1, <1>2, <1>3, <1>5 DEF Kept

\* What a scope found is kept when the current frame is filled further, and when
\* frames are put in front of it.
LEMMA KeptGrown ==
  ASSUME NEW fs, NEW r, NEW old, NEW m \in Nat, FramesOK(fs, m), Grown(fs, r),
         \A i \in 2..Len(fs) : r[i] = fs[i], old \in Seq(Frame), Kept(fs, old)
  PROVE  Kept(r, old)
<1> DEFINE n == Len(fs)
           l == Len(old)
           k == n - l
<1>1. /\ fs \in Seq(Frame) /\ r \in Seq(Frame) /\ Len(r) = n /\ n \in Nat /\ l \in Nat
      /\ n = Len(fs) /\ l = Len(old) /\ k = n - l
  BY DEF FramesOK, Grown
<1>2. /\ 1 <= l /\ l <= n
      /\ fs[k + 1].id = old[1].id /\ fs[k + 1].size = old[1].size
      /\ old[1].len <= fs[k + 1].len
      /\ \A j \in 2..l : fs[k + j] = old[j]
  BY DEF Kept
<1> HIDE DEF n, l, k
<1>3. k + 1 \in 1..n /\ 1 \in 1..l
  BY <1>1, <1>2
<1>4. /\ r[k + 1].id = fs[k + 1].id /\ r[k + 1].size = fs[k + 1].size
      /\ fs[k + 1].len <= r[k + 1].len
  BY <1>1, <1>3 DEF Grown
<1>5. old[1] \in Frame /\ fs[k + 1] \in Frame /\ r[k + 1] \in Frame
  BY <1>1, <1>3
<1>6. old[1].len <= r[k + 1].len
  <2>1. \A f \in Frame : f.len \in Nat
    BY DEF Frame
  <2>2. QED
    BY <1>2, <1>4, <1>5, <2>1
<1>7. ASSUME NEW j \in 2..l
      PROVE  r[k + j] = old[j]
  <2>1. k + j \in 2..n
    BY <1>1, <1>2
  <2>2. QED
    BY <1>1, <1>2, <2>1
<1>8. QED
  BY <1>1, <1>2, <1>4, <1>6, <1>7 DEF Kept

LEMMA KeptAdded ==
  ASSUME NEW fs, NEW r, NEW old, NEW m \in Nat, FramesOK(fs, m), Added(fs, r),
         old \in Seq(Frame), Kept(fs, old)
  PROVE  Kept(r, old)
<1> DEFINE n == Len(fs)
           l == Len(old)
           k == n - l
<1>1. /\ fs \in Seq(Frame) /\ r \in Seq(Frame) /\ Len(r) = n + 1 /\ n \in Nat /\ l \in Nat
      /\ n = Len(fs) /\ l = Len(old) /\ k = n - l
  BY DEF FramesOK, Added
<1>2. /\ 1 <= l /\ l <= n
      /\ fs[k + 1].id = old[1].id /\ fs[k + 1].size = old[1].size
      /\ old[1].len <= fs[k + 1].len
      /\ \A j \in 2..l : fs[k + j] = old[j]
  BY DEF Kept
<1> HIDE DEF n, l, k
<1>3. ASSUME NEW j \in 1..l
      PROVE  r[((n + 1) - l) + j] = fs[k + j]
  <2>1. k + j \in 1..n /\ ((n + 1) - l) + j = (k + j) + 1
    BY <1>1, <1>2
  <2>2. QED
    BY <1>1, <2>1 DEF Added
<1>4. \A j \in 2..l : r[((n + 1) - l) + j] = old[j]
  <2>1. \A j \in 2..l : j \in 1..l
    BY <1>1
  <2>2. QED
    BY <1>2, <1>3, <2>1
<1>5. r[((n + 1) - l) + 1] = fs[k + 1]
  BY <1>1, <1>2, <1>3
<1>6. l <= n + 1
  BY <1>1, <1>2
<1>7. QED
  BY <1>1, <1>2, <1>4, <1>5, <1>6 DEF Kept

LEMMA SameSeq ==
  ASSUME NEW S, NEW s \in Seq(S), NEW t \in Seq(S), Len(s) = Len(t),
         \A i \in 1..Len(s) : s[i] = t[i]
  PROVE  s = t
OBVIOUS

\* Cutting back to where a scope began gives the frames it found.
LEMMA CutBackIs ==
  ASSUME NEW m \in Nat, FramesOK(frames, m), NEW old, FramesOK(old, m), Kept(frames, old)
  PROVE  CutBack(old[1].id, old[1].len) = old
<1> DEFINE n == Len(frames)
           l == Len(old)
           k == n - l
           Is(i) == frames[i].id = old[1].id
           at == CHOOSE i \in DOMAIN frames : Is(i)
           left == SubSeq(frames, at, n)
           g == [Head(left) EXCEPT !.len = IF old[1].len <= @ THEN old[1].len ELSE 0]
<1>1. /\ frames \in Seq(Frame) /\ old \in Seq(Frame) /\ n \in Nat /\ l \in Nat
      /\ n = Len(frames) /\ l = Len(old) /\ k = n - l /\ DOMAIN frames = 1..n
  BY DEF FramesOK
<1>2. /\ 1 <= l /\ l <= n
      /\ frames[k + 1].id = old[1].id /\ frames[k + 1].size = old[1].size
      /\ old[1].len <= frames[k + 1].len
      /\ \A j \in 2..l : frames[k + j] = old[j]
  BY DEF Kept
<1> HIDE DEF n, l, k
<1>3. k + 1 \in 1..n /\ 1 \in 1..l
  BY <1>1, <1>2
<1>4. \E i \in DOMAIN frames : Is(i)
  BY <1>1, <1>2, <1>3
<1>5. at = k + 1
  <2>1. at \in 1..n /\ Is(at)
    BY <1>1, <1>4
  <2> HIDE DEF at
  <2>2. frames[at].id = frames[k + 1].id
    BY <1>2, <2>1
  <2>3. QED
    BY <1>1, <1>3, <2>1, <2>2, FrameUnique
<1>6. CutBack(old[1].id, old[1].len) = IF left = <<>> THEN left ELSE <<g>> \o Tail(left)
  BY <1>1, <1>4 DEF CutBack
<1> HIDE DEF at
<1>7. left \in Seq(Frame) /\ Len(left) = l /\ \A j \in 1..l : left[j] = frames[k + j]
  <2>1. left = SubSeq(frames, k + 1, n)
    BY <1>5
  <2> HIDE DEF left
  <2>2. left \in Seq(Frame) /\ Len(left) = n - k
    BY <1>1, <1>2, <1>3, <2>1
  <2>3. \A j \in 1..(n - k) : left[j] = frames[(k + 1) + j - 1]
    BY <1>1, <1>2, <1>3, <2>1
  <2>4. n - k = l
    BY <1>1
  <2>5. \A j \in 1..l : (k + 1) + j - 1 = k + j
    BY <1>1
  <2>6. QED
    BY <2>2, <2>3, <2>4, <2>5
<1> HIDE DEF left
<1>8. left # <<>> /\ Head(left) = frames[k + 1] /\ frames[k + 1] \in Frame /\ old[1] \in Frame
  BY <1>1, <1>2, <1>3, <1>7
<1>9. g = old[1]
  <2>1. g = [frames[k + 1] EXCEPT !.len = old[1].len]
    BY <1>2, <1>8
  <2> HIDE DEF g
  <2>2. \A f, h \in Frame : (f.id = h.id /\ f.size = h.size) => [f EXCEPT !.len = h.len] = h
    BY DEF Frame
  <2>3. QED
    BY <1>2, <1>8, <2>1, <2>2
<1> HIDE DEF g
<1> DEFINE r == <<g>> \o Tail(left)
<1>10. r \in Seq(Frame) /\ Len(r) = l /\ r[1] = g /\ \A i \in 2..l : r[i] = left[i]
  <2>1. g \in Frame
    BY <1>8, <1>9
  <2>2. QED
    BY <1>7, <1>8, <2>1, HeadReplaced
<1> HIDE DEF r
<1>11. \A i \in 1..l : r[i] = old[i]
  <2>1. ASSUME NEW i \in 1..l
        PROVE  r[i] = old[i]
    <3>1. CASE i = 1
      BY <1>9, <1>10, <3>1
    <3>2. CASE i # 1
      <4>1. i \in 2..l
        BY <1>1, <3>2
      <4>2. QED
        BY <1>2, <1>7, <1>10, <4>1
    <3>3. QED
      BY <3>1, <3>2
  <2>2. QED
    BY <2>1
<1>12. r = old
  BY <1>1, <1>10, <1>11, SameSeq
<1>13. QED
  BY <1>6, <1>8, <1>12 DEF r

-----------------------------------------------------------------------------
(* The inductive invariant.                                                *)

Scope == [id : Nat, frame : Nat, len : Nat, cleanup : Seq(Nat), entry : Seq(Frame)]

\* Scopes are references, numbered by their depth, and an arena in use has a
\* frame.
Counted ==
  /\ scopes \in Seq(Scope) /\ freed \in BOOLEAN /\ made \in Nat /\ state \in {"ok", "trap"}
  /\ refs = Len(scopes) + (IF freed THEN 0 ELSE 1)
  /\ \A i \in 1..Len(scopes) : scopes[i].id = i + 1
  /\ refs > 0 => frames # <<>>

Owned == \A o \in objs : \E i \in 1..Len(scopes) : o.scope = scopes[i].id

\* Scopes are nested: what one found is kept in the frames and in what those
\* within it found, and holds the objects of those around it.
Nested(fs, sc, os, m) ==
  \A i \in 1..Len(sc) :
    /\ FramesOK(sc[i].entry, m) /\ Kept(fs, sc[i].entry)
    /\ sc[i].frame = sc[i].entry[1].id /\ sc[i].len = sc[i].entry[1].len
    /\ \A j \in 1..Len(sc) : i < j => Kept(sc[j].entry, sc[i].entry)
    /\ \A o \in os : o.scope < sc[i].id => Held(o, sc[i].entry)

RanBelow == ran \in Seq(Nat) /\ \A i \in DOMAIN ran : ran[i] < made

IInv ==
  /\ Counted /\ Layout(frames, objs, made) /\ Owned /\ Nested(frames, scopes, objs, made)
  /\ CleanupsOnce /\ RanBelow

LEMMA InitOK ==
  ASSUME ArenaAssumption, Init
  PROVE  IInv
<1>1. FrameSize \in Nat /\ FrameSize >= Header + Poison /\ Header \in Nat /\ Poison \in Nat
  BY DEF ArenaAssumption
<1> DEFINE f == [id |-> 0, size |-> FrameSize, len |-> Header + Poison]
<1>2. NewFrame(0, FrameSize) = f
  BY <1>1, NewFrameIs
<1>3. frames = <<f>> /\ scopes = <<>> /\ refs = 1 /\ freed = FALSE /\ objs = {} /\ made = 1
      /\ ran = <<>> /\ state = "ok"
  BY <1>2 DEF Init
<1>4. f \in Frame
  BY <1>1 DEF Frame
<1>5. f.len >= Header /\ f.len <= f.size /\ f.id < 1
  BY <1>1
<1> HIDE DEF f
<1>6. frames \in Seq(Frame) /\ Len(frames) = 1 /\ frames[1] = f
  BY <1>3, <1>4
<1>7. FramesOK(frames, made)
  <2>1. \A i \in 1..Len(frames) : i = 1
    BY <1>6
  <2>2. made = 1 /\ Header <= f.len
    BY <1>1, <1>3, <1>4, <1>5 DEF Frame
  <2>3. QED
    BY <1>5, <1>6, <2>1, <2>2 DEF FramesOK
<1>8. Layout(frames, objs, made)
  BY <1>3, <1>7 DEF Layout, Named, Unshared
<1>9. Counted
  <2>1. scopes \in Seq(Scope) /\ Len(scopes) = 0
    BY <1>3
  <2>2. frames # <<>>
    BY <1>6
  <2>3. refs = Len(scopes) + (IF freed THEN 0 ELSE 1)
    BY <1>3, <2>1
  <2>4. made \in Nat /\ freed \in BOOLEAN /\ state \in {"ok", "trap"}
    BY <1>3
  <2>5. QED
    BY <2>1, <2>2, <2>3, <2>4 DEF Counted
<1>10. Nested(frames, scopes, objs, made) /\ Owned
  BY <1>3 DEF Nested, Owned
<1>11. CleanupsOnce /\ RanBelow
  BY <1>3 DEF CleanupsOnce, RanBelow
<1>12. QED
  BY <1>8, <1>9, <1>10, <1>11 DEF IInv

LEMMA FramesLater ==
  ASSUME NEW fs, NEW m \in Nat, NEW n \in Nat, m <= n, FramesOK(fs, m)
  PROVE  FramesOK(fs, n)
<1>1. ASSUME NEW i \in 1..Len(fs)
      PROVE  fs[i].id < n
  <2>1. fs[i] \in Frame /\ fs[i].id < m
    BY DEF FramesOK
  <2>2. fs[i].id \in Nat
    BY <2>1 DEF Frame
  <2>3. QED
    BY <2>1, <2>2
<1>2. QED
  BY <1>1 DEF FramesOK

\* What an allocation for the scope s does, if it keeps the objects keep.
Given(s, keep) ==
  /\ state' = state /\ made' = made + 2 /\ frames' # <<>>
  /\ Layout(frames', objs', made')
  /\ \A old \in Seq(Frame) : Kept(frames, old) => Kept(frames', old)
  /\ \E o : objs' = keep \cup {o} /\ o.id = made /\ o.scope = scopes[s].id

LEMMA AllocateIs ==
  ASSUME ArenaAssumption, IInv, MayAllocate, NEW s \in DOMAIN scopes, NEW size \in Nat,
         NEW keep, keep \subseteq objs, Allocate(s, size, keep)
  PROVE  Given(s, keep)
<1> DEFINE f   == Head(frames)
           new == NewFrame(made + 1, FrameFor(size))
           scope == scopes[s].id
<1>1. /\ Layout(frames, objs, made) /\ made \in Nat /\ frames # <<>> /\ scope \in Nat
      /\ FramesOK(frames, made)
  <2>1. refs > 0
    BY DEF IInv, Counted, MayAllocate
  <2>2. scopes[s] \in Scope
    BY DEF IInv, Counted
  <2>3. scope \in Nat
    BY <2>2 DEF Scope
  <2>4. QED
    BY <2>1, <2>3 DEF IInv, Counted, Layout
<1>2. made' = made + 2
  BY DEF Allocate
<1>3. frames \in Seq(Frame)
  BY <1>1 DEF FramesOK
<1> HIDE DEF f, new, scope
<1>4. CASE Fits(f, size)
  <2> DEFINE r == <<Push(f, size)>> \o Tail(frames)
             o == Object(made, scope, f, size)
  <2>1. frames' = r /\ objs' = keep \cup {o} /\ state' = state
    BY <1>4 DEF Allocate, f, scope
  <2>2. Layout(r, keep \cup {o}, made + 2) /\ Grown(frames, r)
    BY <1>1, <1>4, AllocatedHere DEF f
  <2>3. o.id = made /\ o.scope = scope
    BY DEF Object
  <2>4. \A i \in 2..Len(frames) : r[i] = frames[i]
    <3> DEFINE g == Push(f, size)
    <3>1. Len(frames) \in Nat /\ 1 \in 1..Len(frames)
      BY <1>1, <1>3
    <3>2. \A i \in 2..Len(frames) : r[i] = Tail(frames)[i - 1]
      <4>1. Tail(frames) \in Seq(Frame) /\ Len(Tail(frames)) = Len(frames) - 1
        BY <1>1, <1>3
      <4> HIDE DEF g
      <4>2. QED
        BY <3>1, <4>1
    <3>3. \A i \in 2..Len(frames) : Tail(frames)[i - 1] = frames[i]
      BY <1>1, <1>3, <3>1
    <3>4. QED
      BY <3>2, <3>3
  <2> HIDE DEF o, r
  <2>5. r # <<>>
    BY <1>1, <1>3, <2>2 DEF Grown
  <2>6. \A old \in Seq(Frame) : Kept(frames, old) => Kept(r, old)
    BY <1>1, <2>2, <2>4, KeptGrown
  <2>7. QED
    BY <1>2, <2>1, <2>2, <2>3, <2>5, <2>6 DEF Given, scope
<1>5. CASE ~Fits(f, size)
  <2> DEFINE r == <<Push(new, size)>> \o frames
             o == Object(made, scope, new, size)
  <2>1. Fits(new, size) /\ Layout(r, keep \cup {o}, made + 2) /\ Added(frames, r)
    BY <1>1, AllocatedNew DEF new
  <2>2. frames' = r /\ objs' = keep \cup {o} /\ state' = state
    BY <1>5, <2>1 DEF Allocate, f, scope, new
  <2>3. o.id = made /\ o.scope = scope
    BY DEF Object
  <2> HIDE DEF o, r
  <2>4. r # <<>>
    BY <1>1, <1>3, <2>1 DEF Added
  <2>5. \A old \in Seq(Frame) : Kept(frames, old) => Kept(r, old)
    BY <1>1, <2>1, KeptAdded
  <2>6. QED
    BY <1>2, <2>1, <2>2, <2>3, <2>4, <2>5 DEF Given, scope
<1>6. QED
  BY <1>4, <1>5

\* What the scopes found is kept by a step that keeps it in the frames, if
\* objects are new in the innermost scope only.
LEMMA NestedKept ==
  ASSUME NEW fs, NEW sc, NEW os, NEW m \in Nat, Nested(fs, sc, os, m),
         NEW gs, NEW tc, NEW ps, NEW n \in Nat, m <= n, Len(tc) = Len(sc),
         \A i \in 1..Len(sc) : /\ tc[i].id = sc[i].id /\ tc[i].frame = sc[i].frame
                               /\ tc[i].len = sc[i].len /\ tc[i].entry = sc[i].entry,
         \A old \in Seq(Frame) : Kept(fs, old) => Kept(gs, old),
         \A o \in ps : o \in os \/ \A i \in 1..Len(sc) : ~(o.scope < sc[i].id)
  PROVE  Nested(gs, tc, ps, n)
<1>1. ASSUME NEW i \in 1..Len(tc)
      PROVE  /\ FramesOK(tc[i].entry, n) /\ Kept(gs, tc[i].entry)
             /\ tc[i].frame = tc[i].entry[1].id /\ tc[i].len = tc[i].entry[1].len
             /\ \A j \in 1..Len(tc) : i < j => Kept(tc[j].entry, tc[i].entry)
             /\ \A o \in ps : o.scope < tc[i].id => Held(o, tc[i].entry)
  <2> DEFINE e == sc[i].entry
  <2>1. /\ i \in 1..Len(sc) /\ tc[i].entry = e /\ tc[i].id = sc[i].id
        /\ tc[i].frame = sc[i].frame /\ tc[i].len = sc[i].len
    BY <1>1
  <2>2. /\ FramesOK(e, m) /\ Kept(fs, e)
        /\ sc[i].frame = e[1].id /\ sc[i].len = e[1].len
        /\ \A j \in 1..Len(sc) : i < j => Kept(sc[j].entry, e)
        /\ \A o \in os : o.scope < sc[i].id => Held(o, e)
    BY <2>1 DEF Nested
  <2> HIDE DEF e
  <2>3. FramesOK(e, n) /\ e \in Seq(Frame)
    BY <2>2, FramesLater DEF FramesOK
  <2>4. Kept(gs, e)
    BY <2>2, <2>3
  <2>5. \A j \in 1..Len(tc) : i < j => Kept(tc[j].entry, e)
    BY <2>2
  <2>6. \A o \in ps : o.scope < sc[i].id => Held(o, e)
    BY <2>1, <2>2
  <2>7. QED
    BY <2>1, <2>2, <2>3, <2>4, <2>5, <2>6
<1>2. QED
  BY <1>1 DEF Nested

\* The innermost scope is the one that may allocate, and no scope is within it.
LEMMA Innermost ==
  ASSUME Counted, NEW s \in DOMAIN scopes
  PROVE  /\ scopes[s].id = s + 1 /\ Len(scopes) \in Nat /\ s \in 1..Len(scopes)
         /\ ~freed /\ Valid(s) => s = Len(scopes)
         /\ s = Len(scopes) => \A i \in 1..Len(scopes) : ~(scopes[s].id < scopes[i].id)
<1>1. Len(scopes) \in Nat /\ s \in 1..Len(scopes)
  BY DEF Counted
<1>2. scopes[s].id = s + 1 /\ \A i \in 1..Len(scopes) : scopes[i].id = i + 1
  BY <1>1 DEF Counted
<1>3. ~freed /\ Valid(s) => s = Len(scopes)
  BY <1>1, <1>2 DEF Counted, Valid
<1>4. s = Len(scopes) => \A i \in 1..Len(scopes) : ~(scopes[s].id < scopes[i].id)
  BY <1>1, <1>2
<1>5. QED
  BY <1>1, <1>2, <1>3, <1>4

\* A step that keeps the records of cleanups keeps what is said of them.
LEMMA RecordsKept ==
  ASSUME CleanupsOnce, RanBelow, made \in Nat, scopes' = scopes, ran' = ran,
         made' \in Nat, made <= made',
         \A o \in objs : IsRecord(o) => \E q \in objs' : q.id = o.id /\ q.scope = o.scope
  PROVE  CleanupsOnce' /\ RanBelow'
<1>1. ASSUME NEW s \in DOMAIN scopes, NEW i \in DOMAIN scopes[s].cleanup
      PROVE  \E q \in objs' : q.id = scopes[s].cleanup[i] /\ q.scope = scopes[s].id
  <2>1. PICK o \in objs : o.id = scopes[s].cleanup[i] /\ o.scope = scopes[s].id
    BY DEF CleanupsOnce
  <2>2. IsRecord(o)
    BY <2>1 DEF IsRecord, Range
  <2>3. QED
    BY <2>1, <2>2
<1>2. CleanupsOnce'
  BY <1>1 DEF CleanupsOnce
<1>3. RanBelow'
  <2>1. \A i \in DOMAIN ran : ran[i] \in Nat /\ ran[i] < made
    BY DEF RanBelow
  <2>2. QED
    BY <2>1 DEF RanBelow
<1>4. QED
  BY <1>2, <1>3

\* The same of scopes, cleanups that ran and objects that are given.
RecordsAt(sc, rn, os, s) ==
  /\ \A i, j \in DOMAIN sc[s].cleanup : i < j => sc[s].cleanup[i] > sc[s].cleanup[j]
  /\ \A i \in DOMAIN sc[s].cleanup :
       /\ \A j \in DOMAIN rn : rn[j] # sc[s].cleanup[i]
       /\ \E o \in os : o.id = sc[s].cleanup[i] /\ o.scope = sc[s].id
       /\ \A t \in DOMAIN sc : t > s =>
             \A j \in DOMAIN sc[t].cleanup : sc[t].cleanup[j] > sc[s].cleanup[i]
Distinct(rn) == \A i, j \in DOMAIN rn : i # j => rn[i] # rn[j]

LEMMA CleanupsAre ==
  /\ CleanupsOnce <=> Distinct(ran) /\ \A s \in DOMAIN scopes : RecordsAt(scopes, ran, objs, s)
  /\ CleanupsOnce' <=> Distinct(ran') /\ \A s \in DOMAIN scopes' : RecordsAt(scopes', ran', objs', s)
BY DEF CleanupsOnce, RecordsAt, Distinct

LEMMA EnterOK ==
  ASSUME ArenaAssumption, IInv, ScopeEnter
  PROVE  IInv'
<1> DEFINE n == Len(scopes)
           new == [id |-> refs + 1, frame |-> Head(frames).id, len |-> Head(frames).len,
                   cleanup |-> <<>>, entry |-> frames]
<1>1. /\ Counted /\ Layout(frames, objs, made) /\ Owned /\ CleanupsOnce /\ RanBelow
      /\ Nested(frames, scopes, objs, made)
  BY DEF IInv
<1>2. /\ scopes' = Append(scopes, new) /\ refs' = refs + 1 /\ ~freed
      /\ UNCHANGED <<frames, freed, objs, made, ran, state>>
  BY DEF ScopeEnter
<1>3. /\ scopes \in Seq(Scope) /\ n \in Nat /\ refs = n + 1 /\ n = Len(scopes)
      /\ frames # <<>> /\ made \in Nat /\ frames \in Seq(Frame) /\ FramesOK(frames, made)
  BY <1>1, <1>2 DEF Counted, Layout, FramesOK
<1>4. frames[1] \in Frame /\ Head(frames) = frames[1]
  BY <1>3
<1>5. /\ new \in Scope /\ new.id = n + 2 /\ new.entry = frames /\ new.frame = frames[1].id
      /\ new.len = frames[1].len /\ new.cleanup = <<>>
  <2>1. frames[1].id \in Nat /\ frames[1].len \in Nat
    BY <1>4 DEF Frame
  <2>2. <<>> \in Seq(Nat)
    OBVIOUS
  <2>3. refs + 1 \in Nat /\ refs + 1 = n + 2
    BY <1>3
  <2>4. QED
    BY <1>3, <1>4, <2>1, <2>2, <2>3 DEF Scope
<1> HIDE DEF new, n
<1>6. /\ scopes' \in Seq(Scope) /\ Len(scopes') = n + 1 /\ scopes'[n + 1] = new
      /\ \A i \in 1..n : scopes'[i] = scopes[i]
  BY <1>2, <1>3, <1>5
<1>7. Counted'
  <2>1. \A i \in 1..(n + 1) : scopes'[i].id = i + 1
    <3>1. ASSUME NEW i \in 1..(n + 1)
          PROVE  scopes'[i].id = i + 1
      <4>1. CASE i = n + 1
        BY <1>3, <1>5, <1>6, <4>1
      <4>2. CASE i # n + 1
        <5>1. i \in 1..n
          BY <1>3, <4>2
        <5>2. scopes[i].id = i + 1
          BY <1>1, <1>3, <5>1 DEF Counted
        <5>3. QED
          BY <1>6, <5>1, <5>2
      <4>3. QED
        BY <4>1, <4>2
    <3>2. QED
      BY <3>1
  <2>2. refs' = Len(scopes') + (IF freed' THEN 0 ELSE 1)
    BY <1>1, <1>2, <1>3, <1>6
  <2>3. freed \in BOOLEAN /\ state \in {"ok", "trap"}
    BY <1>1 DEF Counted
  <2>4. QED
    BY <1>2, <1>3, <1>6, <2>1, <2>2, <2>3 DEF Counted
<1>8. Owned'
  <2>1. ASSUME NEW o \in objs
        PROVE  \E i \in 1..(n + 1) : o.scope = scopes'[i].id
    <3>1. PICK i \in 1..n : o.scope = scopes[i].id
      BY <1>1, <1>3 DEF Owned
    <3>2. i \in 1..(n + 1) /\ scopes'[i] = scopes[i]
      BY <1>3, <1>6, <3>1
    <3>3. QED
      BY <3>1, <3>2
  <2>2. QED
    BY <1>2, <1>6, <2>1 DEF Owned
<1>9. Nested(frames, scopes', objs, made)
  <2>1. \A o \in objs : Held(o, frames)
    BY <1>1 DEF Layout
  <2>2. Kept(frames, frames)
    BY <1>3, KeptSame
  <2>3. ASSUME NEW i \in 1..n
        PROVE  /\ FramesOK(scopes'[i].entry, made) /\ Kept(frames, scopes'[i].entry)
               /\ scopes'[i].frame = scopes'[i].entry[1].id
               /\ scopes'[i].len = scopes'[i].entry[1].len
               /\ \A j \in 1..(n + 1) : i < j => Kept(scopes'[j].entry, scopes'[i].entry)
               /\ \A o \in objs : o.scope < scopes'[i].id => Held(o, scopes'[i].entry)
    <3>1. scopes'[i] = scopes[i]
      BY <1>6
    <3>2. /\ FramesOK(scopes[i].entry, made) /\ Kept(frames, scopes[i].entry)
          /\ scopes[i].frame = scopes[i].entry[1].id /\ scopes[i].len = scopes[i].entry[1].len
          /\ \A j \in 1..n : i < j => Kept(scopes[j].entry, scopes[i].entry)
          /\ \A o \in objs : o.scope < scopes[i].id => Held(o, scopes[i].entry)
      BY <1>1, <1>3 DEF Nested
    <3>3. ASSUME NEW j \in 1..(n + 1), i < j
          PROVE  Kept(scopes'[j].entry, scopes[i].entry)
      <4>1. CASE j = n + 1
        BY <1>5, <1>6, <3>2, <4>1
      <4>2. CASE j # n + 1
        <5>1. j \in 1..n
          BY <1>3, <4>2
        <5>2. QED
          BY <1>6, <3>2, <3>3, <5>1
      <4>3. QED
        BY <4>1, <4>2
    <3>4. QED
      BY <3>1, <3>2, <3>3
  <2>4. ASSUME NEW i \in 1..(n + 1), i = n + 1
        PROVE  /\ FramesOK(scopes'[i].entry, made) /\ Kept(frames, scopes'[i].entry)
               /\ scopes'[i].frame = scopes'[i].entry[1].id
               /\ scopes'[i].len = scopes'[i].entry[1].len
               /\ \A j \in 1..(n + 1) : i < j => Kept(scopes'[j].entry, scopes'[i].entry)
               /\ \A o \in objs : o.scope < scopes'[i].id => Held(o, scopes'[i].entry)
    <3>1. scopes'[i] = new
      BY <1>6, <2>4
    <3>2. \A j \in 1..(n + 1) : ~(i < j)
      BY <1>3, <2>4
    <3>3. QED
      BY <1>3, <1>5, <2>1, <2>2, <3>1, <3>2
  <2>5. \A i \in 1..(n + 1) : i \in 1..n \/ i = n + 1
    BY <1>3
  <2>6. Len(scopes') = n + 1
    BY <1>6
  <2>7. QED
    BY <2>3, <2>4, <2>5, <2>6 DEF Nested
<1>10. CleanupsOnce'
  <2>1. DOMAIN scopes = 1..n /\ DOMAIN scopes' = 1..(n + 1)
    BY <1>3, <1>6
  <2>2. ASSUME NEW s \in 1..(n + 1)
        PROVE  RecordsAt(scopes', ran, objs, s)
    <3>1. CASE s = n + 1
      <4>1. DOMAIN scopes'[s].cleanup = {}
        BY <1>5, <1>6, <3>1
      <4>2. QED
        BY <4>1 DEF RecordsAt
    <3>2. CASE s # n + 1
      <4>1. s \in 1..n /\ scopes'[s] = scopes[s]
        BY <1>3, <1>6, <3>2
      <4>2. ASSUME NEW t \in 1..(n + 1), t > s, NEW i \in DOMAIN scopes[s].cleanup,
                   NEW j \in DOMAIN scopes'[t].cleanup
            PROVE  scopes'[t].cleanup[j] > scopes[s].cleanup[i]
        <5>1. t # n + 1
          <6>1. DOMAIN <<>> = {}
            OBVIOUS
          <6>2. QED
            BY <1>5, <1>6, <4>2, <6>1
        <5>2. t \in 1..n /\ scopes'[t] = scopes[t]
          BY <1>3, <1>6, <5>1
        <5>3. QED
          BY <1>1, <2>1, <4>1, <4>2, <5>2 DEF CleanupsOnce
      <4>3. /\ \A i, j \in DOMAIN scopes[s].cleanup : i < j => scopes[s].cleanup[i] > scopes[s].cleanup[j]
            /\ \A i \in DOMAIN scopes[s].cleanup :
                 /\ \A j \in DOMAIN ran : ran[j] # scopes[s].cleanup[i]
                 /\ \E o \in objs : o.id = scopes[s].cleanup[i] /\ o.scope = scopes[s].id
        BY <1>1, <2>1, <4>1 DEF CleanupsOnce
      <4>4. QED
        BY <2>1, <4>1, <4>2, <4>3 DEF RecordsAt
    <3>3. QED
      BY <3>1, <3>2
  <2>3. Distinct(ran)
    BY <1>1, CleanupsAre
  <2>4. Distinct(ran') /\ \A s \in DOMAIN scopes' : RecordsAt(scopes', ran', objs', s)
    BY <1>2, <2>1, <2>2, <2>3
  <2>5. QED
    BY <2>4, CleanupsAre
<1>11. RanBelow'
  BY <1>1, <1>2 DEF RanBelow
<1>12. QED
  BY <1>1, <1>2, <1>7, <1>8, <1>9, <1>10, <1>11 DEF IInv

\* An allocation for the innermost scope, whatever cleanup lists it changes.
LEMMA GivenOK ==
  ASSUME IInv, MayAllocate, NEW s \in DOMAIN scopes, Valid(s), NEW keep, keep \subseteq objs,
         Given(s, keep), UNCHANGED <<refs, freed>>, scopes' \in Seq(Scope),
         Len(scopes') = Len(scopes),
         \A i \in 1..Len(scopes) : /\ scopes'[i].id = scopes[i].id
                                   /\ scopes'[i].frame = scopes[i].frame
                                   /\ scopes'[i].len = scopes[i].len
                                   /\ scopes'[i].entry = scopes[i].entry
  PROVE  Counted' /\ Layout(frames', objs', made') /\ Owned'
         /\ Nested(frames', scopes', objs', made')
<1>1. /\ Counted /\ Owned /\ Nested(frames, scopes, objs, made) /\ made \in Nat
      /\ made' = made + 2 /\ state' = state /\ Layout(frames', objs', made') /\ frames' # <<>>
      /\ \A old \in Seq(Frame) : Kept(frames, old) => Kept(frames', old)
  BY DEF IInv, Given, Counted
<1>2. PICK o : objs' = keep \cup {o} /\ o.scope = scopes[s].id
  BY DEF Given
<1>3. /\ Len(scopes) \in Nat /\ s \in 1..Len(scopes)
      /\ \A i \in 1..Len(scopes) : ~(scopes[s].id < scopes[i].id)
  BY <1>1, Innermost DEF MayAllocate
<1>4. Counted'
  <2>1. \A i \in 1..Len(scopes) : scopes'[i].id = i + 1
    BY <1>1 DEF Counted
  <2>2. refs' = Len(scopes') + (IF freed' THEN 0 ELSE 1)
    BY <1>1 DEF Counted
  <2>3. freed' \in BOOLEAN /\ state' \in {"ok", "trap"} /\ made' \in Nat
    BY <1>1 DEF Counted
  <2>4. QED
    BY <1>1, <2>1, <2>2, <2>3 DEF Counted
<1>5. Owned'
  BY <1>1, <1>2, <1>3 DEF Owned
<1>6. Nested(frames', scopes', objs', made')
  <2>1. \A p \in objs' : p \in objs \/ \A i \in 1..Len(scopes) : ~(p.scope < scopes[i].id)
    BY <1>2, <1>3
  <2>2. made <= made' /\ made' \in Nat
    BY <1>1
  <2>3. QED
    BY <1>1, <2>1, <2>2, NestedKept
<1>7. QED
  BY <1>1, <1>4, <1>5, <1>6

LEMMA TrapOK ==
  ASSUME IInv, Trap
  PROVE  IInv'
<1>1. UNCHANGED <<frames, scopes, refs, freed, objs, made, ran>> /\ state' = "trap"
  BY DEF Trap
<1>2. Counted'
  BY <1>1 DEF IInv, Counted
<1>3. Layout(frames, objs, made)' /\ Owned' /\ Nested(frames, scopes, objs, made)'
  BY <1>1 DEF IInv, Owned
<1>4. CleanupsOnce' /\ RanBelow'
  BY <1>1 DEF IInv, CleanupsOnce, RanBelow
<1>5. QED
  BY <1>2, <1>3, <1>4 DEF IInv

\* An allocation that leaves the scopes alone.
LEMMA TakenOK ==
  ASSUME IInv, MayAllocate, NEW s \in DOMAIN scopes, Valid(s), NEW keep, keep \subseteq objs,
         Given(s, keep), UNCHANGED <<scopes, refs, freed, ran>>,
         \A o \in objs : IsRecord(o) => o \in keep
  PROVE  IInv'
<1>1. scopes \in Seq(Scope) /\ made \in Nat /\ CleanupsOnce /\ RanBelow
  BY DEF IInv, Counted
<1>2. Counted' /\ Layout(frames', objs', made') /\ Owned'
      /\ Nested(frames', scopes', objs', made')
  BY <1>1, GivenOK
<1>3. made' \in Nat /\ made <= made' /\ keep \subseteq objs'
  BY <1>1 DEF Given
<1>4. CleanupsOnce' /\ RanBelow'
  BY <1>1, <1>3, RecordsKept
<1>5. QED
  BY <1>2, <1>4 DEF IInv

LEMMA MallocOK ==
  ASSUME ArenaAssumption, IInv, NEW s \in DOMAIN scopes, NEW size \in Nat, Malloc(s, size)
  PROVE  IInv'
<1>1. CASE Valid(s)
  <2>1. MayAllocate /\ Allocate(s, size, objs) /\ UNCHANGED <<scopes, refs, freed, ran>>
    BY <1>1 DEF Malloc
  <2>2. Given(s, objs)
    BY <2>1, AllocateIs
  <2>3. QED
    BY <1>1, <2>1, <2>2, TakenOK
<1>2. CASE ~Valid(s)
  BY <1>2, TrapOK DEF Malloc
<1>3. QED
  BY <1>1, <1>2

LEMMA CleanupOK ==
  ASSUME ArenaAssumption, IInv, NEW s \in DOMAIN scopes, Cleanup(s)
  PROVE  IInv'
<1>1. CASE ~Valid(s)
  BY <1>1, TrapOK DEF Cleanup
<1>2. CASE Valid(s)
  <2> DEFINE new == [scopes[s] EXCEPT !.cleanup = <<made>> \o @]
             n   == Len(scopes)
             old == scopes[s].cleanup
             mine == <<made>> \o old
  <2>1. /\ MayAllocate /\ Allocate(s, Record, objs) /\ UNCHANGED <<refs, freed, ran>>
        /\ scopes' = [scopes EXCEPT ![s] = new]
    BY <1>2 DEF Cleanup
  <2>2. Record \in Nat
    BY DEF ArenaAssumption
  <2>3. Given(s, objs)
    BY <2>1, <2>2, AllocateIs
  <2>4. /\ scopes \in Seq(Scope) /\ made \in Nat /\ n \in Nat /\ n = Len(scopes)
        /\ Counted /\ CleanupsOnce /\ RanBelow /\ Layout(frames, objs, made)
    BY DEF IInv, Counted
  <2>5. s = n /\ s \in 1..n /\ DOMAIN scopes = 1..n
    BY <1>2, <2>1, <2>4, Innermost DEF MayAllocate
  <2>6. scopes[s] \in Scope
    BY <2>4
  <2>7. /\ new \in Scope /\ new.id = scopes[s].id /\ new.frame = scopes[s].frame
        /\ new.len = scopes[s].len /\ new.entry = scopes[s].entry /\ new.cleanup = mine
    <3>1. old \in Seq(Nat)
      BY <2>6 DEF Scope
    <3>2. mine \in Seq(Nat)
      BY <2>4, <3>1
    <3>3. new = [scopes[s] EXCEPT !.cleanup = mine]
      OBVIOUS
    <3> HIDE DEF mine, new
    <3>4. QED
      BY <2>6, <3>2, <3>3 DEF Scope
  <2>8. /\ mine[1] = made /\ DOMAIN mine = 1..(Len(old) + 1) /\ Len(old) \in Nat
        /\ \A i \in 1..Len(old) : mine[i + 1] = old[i]
    <3>1. old \in Seq(Nat)
      BY <2>6 DEF Scope
    <3>2. QED
      BY <2>4, <3>1
  <2>9. DOMAIN old = 1..Len(old)
    <3>1. old \in Seq(Nat)
      BY <2>6 DEF Scope
    <3>2. QED
      BY <3>1
  <2> HIDE DEF new, mine, old, n
  <2>10. /\ scopes' \in Seq(Scope) /\ Len(scopes') = n /\ scopes'[s] = new
         /\ DOMAIN scopes' = 1..n
         /\ \A i \in 1..n : i # s => scopes'[i] = scopes[i]
    BY <2>1, <2>4, <2>5, <2>7
  <2>11. Counted' /\ Layout(frames', objs', made') /\ Owned'
         /\ Nested(frames', scopes', objs', made')
    <3>1. \A i \in 1..n : /\ scopes'[i].id = scopes[i].id
                          /\ scopes'[i].frame = scopes[i].frame
                          /\ scopes'[i].len = scopes[i].len
                          /\ scopes'[i].entry = scopes[i].entry
      BY <2>7, <2>10
    <3>2. QED
      BY <1>2, <2>1, <2>3, <2>4, <2>10, <3>1, GivenOK
  <2>12. PICK q : objs' = objs \cup {q} /\ q.id = made /\ q.scope = scopes[s].id
    BY <2>3 DEF Given
  <2>13. \A t \in 1..n : \A i \in DOMAIN scopes[t].cleanup :
            scopes[t].cleanup[i] < made /\ scopes[t].cleanup[i] \in Nat
    <3>1. ASSUME NEW t \in 1..n, NEW i \in DOMAIN scopes[t].cleanup
          PROVE  scopes[t].cleanup[i] < made /\ scopes[t].cleanup[i] \in Nat
      <4>1. PICK o \in objs : o.id = scopes[t].cleanup[i]
        BY <2>4, <2>5, <3>1 DEF CleanupsOnce
      <4>2. o.id < made /\ o \in Obj
        BY <2>4 DEF Layout, Named
      <4>3. QED
        BY <4>1, <4>2 DEF Obj
    <3>2. QED
      BY <3>1
  <2>14. \A j \in DOMAIN ran : ran[j] # made
    <3>1. \A j \in DOMAIN ran : ran[j] \in Nat /\ ran[j] < made
      BY <2>4 DEF RanBelow
    <3>2. QED
      BY <2>4, <3>1
  <2>15. \A t \in 1..n : RecordsAt(scopes, ran, objs, t)
    BY <2>4, <2>5, CleanupsAre
  <2>16. \A i \in DOMAIN mine : i = 1 \/ (i - 1 \in DOMAIN old /\ mine[i] = old[i - 1])
    <3>1. ASSUME NEW i \in DOMAIN mine, i # 1
          PROVE  i - 1 \in DOMAIN old /\ mine[i] = old[i - 1]
      <4>1. i - 1 \in 1..Len(old) /\ (i - 1) + 1 = i /\ i \in Nat
        BY <2>8, <3>1
      <4>2. QED
        BY <2>8, <2>9, <4>1
    <3>2. QED
      BY <3>1
  <2>17. RecordsAt(scopes', ran, objs', s)
    <3>1. ASSUME NEW i \in DOMAIN mine, NEW j \in DOMAIN mine, i < j
          PROVE  mine[i] > mine[j]
      <4>1. j # 1 /\ i \in Nat /\ j \in Nat
        BY <2>8, <3>1
      <4>2. j - 1 \in DOMAIN old /\ mine[j] = old[j - 1]
        BY <2>16, <4>1
      <4>3. old[j - 1] < made /\ old[j - 1] \in Nat
        BY <2>5, <2>13, <4>2 DEF old
      <4>4. CASE i = 1
        BY <2>4, <2>8, <4>2, <4>3, <4>4
      <4>5. CASE i # 1
        <5>1. i - 1 \in DOMAIN old /\ mine[i] = old[i - 1] /\ i - 1 < j - 1
          BY <2>16, <3>1, <4>1, <4>5
        <5>2. QED
          BY <2>5, <2>15, <4>2, <5>1 DEF RecordsAt, old
      <4>6. QED
        BY <4>4, <4>5
    <3>2. ASSUME NEW i \in DOMAIN mine
          PROVE  /\ \A j \in DOMAIN ran : ran[j] # mine[i]
                 /\ \E o \in objs' : o.id = mine[i] /\ o.scope = scopes[s].id
      <4>1. CASE i = 1
        BY <2>8, <2>12, <2>14, <4>1
      <4>2. CASE i # 1
        <5>1. i - 1 \in DOMAIN old /\ mine[i] = old[i - 1]
          BY <2>16, <4>2
        <5>2. QED
          BY <2>5, <2>12, <2>15, <5>1 DEF RecordsAt, old
      <4>3. QED
        BY <4>1, <4>2
    <3>3. \A t \in 1..n : ~(t > s)
      BY <2>4, <2>5
    <3>4. scopes'[s].cleanup = mine /\ scopes'[s].id = scopes[s].id /\ DOMAIN scopes' = 1..n
      BY <2>7, <2>10
    <3>5. QED
      BY <3>1, <3>2, <3>3, <3>4 DEF RecordsAt
  <2>18. ASSUME NEW t \in 1..n, t # s
         PROVE  RecordsAt(scopes', ran, objs', t)
    <3>1. scopes'[t] = scopes[t] /\ RecordsAt(scopes, ran, objs, t)
      BY <2>10, <2>15, <2>18
    <3>2. ASSUME NEW i \in DOMAIN scopes[t].cleanup, NEW u \in 1..n, u > t,
                 NEW j \in DOMAIN scopes'[u].cleanup
          PROVE  scopes'[u].cleanup[j] > scopes[t].cleanup[i]
      <4>1. CASE u # s
        BY <2>5, <2>10, <3>1, <3>2, <4>1 DEF RecordsAt
      <4>2. CASE u = s
        <5>1. scopes'[u].cleanup = mine /\ j \in DOMAIN mine
          BY <2>7, <2>10, <3>2, <4>2
        <5>2. CASE j = 1
          BY <2>4, <2>8, <2>13, <3>2, <5>1, <5>2
        <5>3. CASE j # 1
          <6>1. j - 1 \in DOMAIN old /\ mine[j] = old[j - 1]
            BY <2>16, <5>1, <5>3
          <6>2. QED
            BY <2>5, <3>1, <3>2, <4>2, <5>1, <6>1 DEF RecordsAt, old
        <5>4. QED
          BY <5>2, <5>3
      <4>3. QED
        BY <4>1, <4>2
    <3>3. \A i \in DOMAIN scopes[t].cleanup :
             \E o \in objs' : o.id = scopes[t].cleanup[i] /\ o.scope = scopes[t].id
      BY <2>12, <3>1 DEF RecordsAt
    <3>4. /\ \A i, j \in DOMAIN scopes[t].cleanup : i < j => scopes[t].cleanup[i] > scopes[t].cleanup[j]
          /\ \A i \in DOMAIN scopes[t].cleanup : \A j \in DOMAIN ran : ran[j] # scopes[t].cleanup[i]
      BY <3>1 DEF RecordsAt
    <3>5. QED
      BY <2>10, <3>1, <3>2, <3>3, <3>4 DEF RecordsAt
  <2>19. CleanupsOnce'
    <3>1. Distinct(ran) /\ ran' = ran
      BY <2>1, <2>4, CleanupsAre
    <3>2. \A t \in DOMAIN scopes' : RecordsAt(scopes', ran', objs', t)
      BY <2>10, <2>17, <2>18, <3>1
    <3>3. QED
      BY <3>1, <3>2, CleanupsAre
  <2>20. RanBelow'
    <3>1. \A j \in DOMAIN ran : ran[j] \in Nat /\ ran[j] < made
      BY <2>4 DEF RanBelow
    <3>2. made' = made + 2 /\ ran' = ran
      BY <2>1, <2>3 DEF Given
    <3>3. QED
      BY <2>4, <3>1, <3>2 DEF RanBelow
  <2>21. QED
    BY <2>11, <2>19, <2>20 DEF IInv
<1>3. QED
  BY <1>1, <1>2

\* An object of the innermost scope is given another size where it is.
LEMMA ResizedOK ==
  ASSUME IInv, MayAllocate, NEW s \in DOMAIN scopes, s = Len(scopes), NEW o \in objs,
         o.scope = scopes[s].id, NEW size \in Nat,
         objs' = (objs \ {o}) \cup {[o EXCEPT !.size = size]}, made' = made + 2,
         UNCHANGED <<scopes, refs, freed, ran, state>>,
         Layout(frames', objs', made'), frames' # <<>>,
         \A old \in Seq(Frame) : Kept(frames, old) => Kept(frames', old)
  PROVE  IInv'
<1> DEFINE q == [o EXCEPT !.size = size]
<1>1. /\ Counted /\ Owned /\ Nested(frames, scopes, objs, made) /\ made \in Nat /\ CleanupsOnce
      /\ RanBelow /\ Named(objs, made)
  BY DEF IInv, Counted, Layout
<1>2. q.id = o.id /\ q.scope = o.scope
  BY <1>1, Resized
<1> HIDE DEF q
<1>3. objs' = (objs \ {o}) \cup {q}
  BY DEF q
<1>4. Counted'
  <2>1. made' \in Nat
    BY <1>1
  <2>2. QED
    BY <1>1, <2>1 DEF Counted
<1>5. Owned'
  BY <1>1, <1>2, <1>3 DEF Owned
<1>6. Nested(frames', scopes', objs', made')
  <2>1. \A i \in 1..Len(scopes) : ~(scopes[s].id < scopes[i].id)
    BY <1>1, Innermost
  <2>2. \A p \in objs' : p \in objs \/ \A i \in 1..Len(scopes) : ~(p.scope < scopes[i].id)
    BY <1>2, <1>3, <2>1
  <2>3. made' \in Nat /\ made <= made'
    BY <1>1
  <2>4. QED
    BY <1>1, <2>2, <2>3, NestedKept
<1>7. CleanupsOnce' /\ RanBelow'
  <2>1. \A p \in objs : \E x \in objs' : x.id = p.id /\ x.scope = p.scope
    BY <1>2, <1>3
  <2>2. made' \in Nat /\ made <= made'
    BY <1>1
  <2>3. QED
    BY <1>1, <2>1, <2>2, RecordsKept
<1>8. QED
  BY <1>4, <1>5, <1>6, <1>7 DEF IInv

LEMMA ReallocOK ==
  ASSUME ArenaAssumption, GrowOuter = FALSE, IInv, NEW s \in DOMAIN scopes, NEW o \in objs,
         NEW size \in Nat, Realloc(s, o, size)
  PROVE  IInv'
<1>1. MayAllocate /\ o.scope = scopes[s].id /\ ~IsRecord(o) /\ s = Len(scopes)
  BY DEF Realloc
<1>2. /\ Counted /\ Layout(frames, objs, made) /\ made \in Nat /\ FramesOK(frames, made)
      /\ Named(objs, made) /\ o \in Obj
  BY DEF IInv, Counted, Layout, Named
<1>3. frames # <<>> /\ frames \in Seq(Frame) /\ Len(frames) \in Nat /\ Head(frames) = frames[1]
      /\ frames[1] \in Frame
  <2>1. refs > 0
    BY <1>1, <1>2 DEF Counted, MayAllocate
  <2>2. QED
    BY <1>2, <2>1 DEF Counted, FramesOK
<1>4. o.size \in Nat
  BY <1>2 DEF Obj
<1>5. CASE /\ size <= o.size /\ objs' = (objs \ {o}) \cup {[o EXCEPT !.size = size]}
           /\ made' = made + 2 /\ UNCHANGED <<frames, scopes, refs, freed, ran, state>>
  <2>1. Layout(frames, (objs \ {o}) \cup {[o EXCEPT !.size = size]}, made + 2)
    BY <1>2, <1>5, Shrunk
  <2>2. Layout(frames', objs', made')
    BY <1>5, <2>1
  <2>3. QED
    BY <1>1, <1>3, <1>5, <2>2, ResizedOK
<1>6. CASE /\ size > o.size /\ GrowsInPlace(o, size)
           /\ objs' = (objs \ {o}) \cup {[o EXCEPT !.size = size]}
           /\ frames' = <<Regrown(o, size)>> \o Tail(frames)
           /\ made' = made + 2 /\ UNCHANGED <<scopes, refs, freed, ran, state>>
  <2> DEFINE f == frames[1]
             h == [f EXCEPT !.len = o.off]
             g == Push(h, size)
             r == <<g>> \o Tail(frames)
  <2>1. frames' = r
    BY <1>3, <1>6 DEF Regrown
  <2>2. o.frame = f.id /\ Behind(o) = f.len /\ Fits(h, size)
    BY <1>3, <1>6 DEF GrowsInPlace, IsLast, Behind
  <2>3. h.len = o.off /\ h.size = f.size
    BY <1>3 DEF Frame
  <2>4. o.off + size <= f.size
    BY <2>2, <2>3 DEF Fits
  <2>5. Layout(r, (objs \ {o}) \cup {[o EXCEPT !.size = size]}, made + 2) /\ Grown(frames, r)
    BY <1>2, <1>3, <1>6, <2>2, <2>4, GrownLast
  <2>6. \A i \in 2..Len(frames) : r[i] = frames[i]
    <3> HIDE DEF g
    <3>1. ASSUME NEW i \in 2..Len(frames)
          PROVE  r[i] = frames[i]
      <4>1. Tail(frames) \in Seq(Frame) /\ Len(Tail(frames)) = Len(frames) - 1
        BY <1>3
      <4>2. r[i] = Tail(frames)[i - 1]
        BY <1>3, <4>1
      <4>3. Tail(frames)[i - 1] = frames[i]
        BY <1>3
      <4>4. QED
        BY <4>2, <4>3
    <3>2. QED
      BY <3>1
  <2> HIDE DEF r
  <2>7. r # <<>>
    BY <1>3, <2>5 DEF Grown
  <2>8. \A old \in Seq(Frame) : Kept(frames, old) => Kept(r, old)
    BY <1>2, <2>5, <2>6, KeptGrown
  <2>9. Layout(frames', objs', made')
    BY <1>6, <2>1, <2>5
  <2>10. QED
    BY <1>1, <1>6, <2>1, <2>7, <2>8, <2>9, ResizedOK
<1>7. CASE /\ size > o.size /\ ~GrowsInPlace(o, size)
           /\ IF Valid(s) THEN /\ Allocate(s, size, objs \ {o})
                               /\ UNCHANGED <<scopes, refs, freed, ran>>
                          ELSE Trap
  <2>1. CASE ~Valid(s)
    BY <1>7, <2>1, TrapOK
  <2>2. CASE Valid(s)
    <3>1. Given(s, objs \ {o})
      BY <1>1, <1>7, <2>2, AllocateIs
    <3>2. \A p \in objs : IsRecord(p) => p \in objs \ {o}
      BY <1>1
    <3>3. QED
      BY <1>1, <1>7, <2>2, <3>1, <3>2, TakenOK
  <2>3. QED
    BY <2>1, <2>2
<1>8. QED
  BY <1>5, <1>6, <1>7 DEF Realloc

\* The scope that is left is the innermost one: what it found is what is left.
LEMMA LeaveIs ==
  ASSUME IInv, ScopeLeave
  PROVE  LET n == Len(scopes)
         IN  /\ n \in Nat /\ n >= 1 /\ scopes' \in Seq(Scope) /\ Len(scopes') = n - 1
             /\ \A i \in 1..(n - 1) : scopes'[i] = scopes[i]
             /\ Last(scopes) = scopes[n]
             /\ refs > 1 => frames' = scopes[n].entry
             /\ refs = 1 => frames' = <<>> /\ n = 1 /\ objs' = {}
             /\ refs \in Nat /\ refs >= 1
             /\ \A o \in objs' : o \in objs /\ o.scope < scopes[n].id
             /\ \A o \in objs : o.scope # scopes[n].id => o \in objs'
<1> DEFINE n == Len(scopes)
<1>1. /\ Counted /\ Layout(frames, objs, made) /\ Owned /\ Nested(frames, scopes, objs, made)
      /\ made \in Nat
  BY DEF IInv, Counted
<1>2. scopes \in Seq(Scope) /\ scopes # <<>>
  BY <1>1 DEF Counted, ScopeLeave
<1>3. n \in Nat /\ n >= 1 /\ n = Len(scopes)
  BY <1>2
<1>4. Last(scopes) = scopes[n]
  BY DEF Last
<1>5. scopes' = SubSeq(scopes, 1, n - 1)
  BY DEF ScopeLeave, Front
<1> HIDE DEF n
<1>6. scopes' \in Seq(Scope) /\ Len(scopes') = n - 1 /\ \A i \in 1..(n - 1) : scopes'[i] = scopes[i]
  BY <1>2, <1>3, <1>5
<1>7. refs = n + (IF freed THEN 0 ELSE 1) /\ refs \in Nat /\ refs >= 1
  BY <1>1, <1>3 DEF Counted
<1>8. frames' = FramesLeft(scopes[n]) /\ objs' = {o \in objs : o.scope # scopes[n].id}
  BY <1>4 DEF ScopeLeave
<1>9. ASSUME refs > 1
      PROVE  frames' = scopes[n].entry
  <2> DEFINE e == scopes[n].entry
  <2>1. n \in 1..Len(scopes)
    BY <1>3
  <2>2. /\ FramesOK(e, made) /\ Kept(frames, e)
        /\ scopes[n].frame = e[1].id /\ scopes[n].len = e[1].len
    BY <1>1, <2>1 DEF Nested
  <2>3. FramesOK(frames, made)
    BY <1>1 DEF Layout
  <2> HIDE DEF e
  <2>4. CutBack(e[1].id, e[1].len) = e
    BY <1>1, <2>2, <2>3, CutBackIs
  <2>5. frames' = CutBack(scopes[n].frame, scopes[n].len)
    BY <1>7, <1>8, <1>9 DEF FramesLeft
  <2>6. QED
    BY <2>2, <2>4, <2>5 DEF e
<1>10. ASSUME NEW o \in objs, o.scope # scopes[n].id
       PROVE  o.scope < scopes[n].id
  <2>1. PICK i \in 1..n : o.scope = scopes[i].id
    BY <1>1, <1>3 DEF Owned
  <2>2. scopes[i].id = i + 1 /\ scopes[n].id = n + 1
    BY <1>1, <1>3, <2>1 DEF Counted
  <2>3. i # n
    BY <1>10, <2>1
  <2>4. QED
    BY <1>3, <2>1, <2>2, <2>3
<1>11. ASSUME refs = 1
       PROVE  frames' = <<>> /\ n = 1 /\ objs' = {}
  <2>1. n = 1
    BY <1>3, <1>7, <1>11
  <2>2. frames' = <<>>
    BY <1>8, <1>11 DEF FramesLeft
  <2>3. \A o \in objs : o.scope = scopes[1].id
    <3>1. \A o \in objs : \E i \in 1..n : o.scope = scopes[i].id
      BY <1>1, <1>3 DEF Owned
    <3>2. QED
      BY <2>1, <3>1
  <2>4. QED
    BY <1>8, <2>1, <2>2, <2>3
<1>12. QED
  BY <1>3, <1>4, <1>6, <1>7, <1>8, <1>9, <1>10, <1>11 DEF n

LEMMA LeaveOK ==
  ASSUME IInv, ScopeLeave
  PROVE  IInv'
<1> DEFINE n == Len(scopes)
<1>1. /\ n \in Nat /\ n >= 1 /\ scopes' \in Seq(Scope) /\ Len(scopes') = n - 1
      /\ \A i \in 1..(n - 1) : scopes'[i] = scopes[i]
      /\ Last(scopes) = scopes[n]
      /\ refs > 1 => frames' = scopes[n].entry
      /\ refs = 1 => frames' = <<>> /\ n = 1 /\ objs' = {}
      /\ refs \in Nat /\ refs >= 1
      /\ \A o \in objs' : o \in objs /\ o.scope < scopes[n].id
      /\ \A o \in objs : o.scope # scopes[n].id => o \in objs'
  BY LeaveIs
<1>2. /\ Counted /\ Layout(frames, objs, made) /\ Owned /\ Nested(frames, scopes, objs, made)
      /\ made \in Nat /\ CleanupsOnce /\ RanBelow /\ n = Len(scopes) /\ scopes \in Seq(Scope)
  BY DEF IInv, Counted
<1>3. /\ ran' = ran \o scopes[n].cleanup /\ refs' = refs - 1
      /\ UNCHANGED <<freed, made, state>>
  BY <1>1 DEF ScopeLeave
<1> HIDE DEF n
<1>4. n \in 1..n /\ scopes[n] \in Scope /\ DOMAIN scopes = 1..n /\ DOMAIN scopes' = 1..(n - 1)
      /\ \A i \in 1..(n - 1) : i \in 1..n /\ i # n /\ i < n
  BY <1>1, <1>2
<1> DEFINE e == scopes[n].entry
<1>5. /\ FramesOK(e, made) /\ Kept(frames, e) /\ \A o \in objs' : Held(o, e)
      /\ e \in Seq(Frame)
  BY <1>1, <1>2, <1>4 DEF Nested, FramesOK
<1>6. Layout(frames', objs', made)
  <2>1. CASE refs = 1
    <3>1. frames' = <<>> /\ objs' = {}
      BY <1>1, <2>1
    <3>2. FramesOK(<<>>, made)
      BY DEF FramesOK
    <3>3. QED
      BY <3>1, <3>2 DEF Layout, Named, Unshared
  <2>2. CASE refs > 1
    <3>1. frames' = e
      BY <1>1, <2>2
    <3>2. Named(objs', made)
      BY <1>1, <1>2 DEF Layout, Named
    <3>3. Unshared(objs', e)
      <4> DEFINE l == Len(e)
                 k == Len(frames) - l
      <4>1. frames \in Seq(Frame) /\ Len(frames) \in Nat /\ l \in Nat /\ l = Len(e)
            /\ k = Len(frames) - l
        BY <1>2, <1>5 DEF Layout, FramesOK
      <4>2. /\ 1 <= l /\ l <= Len(frames)
            /\ frames[k + 1].id = e[1].id /\ frames[k + 1].size = e[1].size
            /\ \A j \in 2..l : frames[k + j] = e[j]
        BY <1>5 DEF Kept
      <4> HIDE DEF l, k, e
      <4>3. ASSUME NEW i \in 1..l
            PROVE  k + i \in 1..Len(frames) /\ frames[k + i].id = e[i].id
                   /\ frames[k + i].size = e[i].size
        <5>1. k + i \in 1..Len(frames)
          BY <4>1, <4>2
        <5>2. CASE i = 1
          BY <4>2, <5>1, <5>2
        <5>3. CASE i # 1
          <6>1. i \in 2..l
            BY <4>1, <5>3
          <6>2. QED
            BY <4>2, <5>1, <6>1
        <5>4. QED
          BY <5>2, <5>3
      <4>4. Unshared(objs, frames)
        BY <1>2 DEF Layout
      <4>5. ASSUME NEW i \in 1..l, NEW o \in objs', NEW p \in objs',
                   o.frame = e[i].id, p.frame = e[i].id, o.id # p.id
            PROVE  Apart(o, p, e[i].size)
        <5>1. k + i \in 1..Len(frames) /\ frames[k + i].id = e[i].id
              /\ frames[k + i].size = e[i].size
          BY <4>3
        <5>2. o \in objs /\ p \in objs
          BY <1>1
        <5>3. Apart(o, p, frames[k + i].size)
          BY <4>4, <4>5, <5>1, <5>2 DEF Unshared
        <5>4. QED
          BY <5>1, <5>3
      <4>6. QED
        BY <4>1, <4>5 DEF Unshared
    <3>4. QED
      BY <1>5, <3>1, <3>2, <3>3 DEF Layout
  <2>3. QED
    BY <1>1, <2>1, <2>2
<1>7. Counted'
  <2>1. \A i \in 1..(n - 1) : scopes'[i].id = i + 1
    BY <1>1, <1>2, <1>4 DEF Counted
  <2>2. refs' = Len(scopes') + (IF freed' THEN 0 ELSE 1)
    BY <1>1, <1>2, <1>3 DEF Counted
  <2>3. refs' > 0 => frames' # <<>>
    <3>1. e # <<>>
      BY <1>5 DEF Kept
    <3>2. refs' > 0 => refs > 1
      BY <1>1, <1>3
    <3>3. QED
      BY <1>1, <3>1, <3>2
  <2>4. freed' \in BOOLEAN /\ made' \in Nat /\ state' \in {"ok", "trap"}
    BY <1>2, <1>3 DEF Counted
  <2>5. QED
    BY <1>1, <2>1, <2>2, <2>3, <2>4 DEF Counted
<1>8. Owned'
  <2>1. ASSUME NEW o \in objs'
        PROVE  \E i \in 1..(n - 1) : o.scope = scopes'[i].id
    <3>1. o \in objs /\ o.scope < scopes[n].id
      BY <1>1
    <3>2. PICK i \in 1..n : o.scope = scopes[i].id
      BY <1>2, <3>1 DEF Owned
    <3>3. scopes[i].id = i + 1 /\ scopes[n].id = n + 1
      BY <1>2, <1>4, <3>2 DEF Counted
    <3>4. i \in 1..(n - 1)
      BY <1>1, <3>1, <3>2, <3>3
    <3>5. QED
      BY <1>1, <3>2, <3>4
  <2>2. QED
    BY <1>1, <2>1 DEF Owned
<1>9. Nested(frames', scopes', objs', made)
  <2>1. ASSUME NEW i \in 1..(n - 1)
        PROVE  /\ FramesOK(scopes'[i].entry, made) /\ Kept(frames', scopes'[i].entry)
               /\ scopes'[i].frame = scopes'[i].entry[1].id
               /\ scopes'[i].len = scopes'[i].entry[1].len
               /\ \A j \in 1..(n - 1) : i < j => Kept(scopes'[j].entry, scopes'[i].entry)
               /\ \A o \in objs' : o.scope < scopes'[i].id => Held(o, scopes'[i].entry)
    <3>1. scopes'[i] = scopes[i] /\ i \in 1..n /\ i < n /\ n \in 1..n
      BY <1>1, <1>4
    <3>2. /\ FramesOK(scopes[i].entry, made)
          /\ scopes[i].frame = scopes[i].entry[1].id
          /\ scopes[i].len = scopes[i].entry[1].len
          /\ \A j \in 1..n : i < j => Kept(scopes[j].entry, scopes[i].entry)
          /\ \A o \in objs : o.scope < scopes[i].id => Held(o, scopes[i].entry)
      BY <1>2, <3>1 DEF Nested
    <3>3. Kept(frames', scopes[i].entry)
      <4>1. Kept(e, scopes[i].entry)
        BY <3>1, <3>2
      <4>2. refs > 1
        BY <1>1, <3>1
      <4>3. QED
        BY <1>1, <4>1, <4>2
    <3>4. \A j \in 1..(n - 1) : i < j => Kept(scopes'[j].entry, scopes[i].entry)
      BY <1>1, <1>4, <3>2
    <3>5. \A o \in objs' : o.scope < scopes[i].id => Held(o, scopes[i].entry)
      BY <1>1, <3>2
    <3>6. QED
      BY <3>1, <3>2, <3>3, <3>4, <3>5
  <2>2. Len(scopes') = n - 1
    BY <1>1
  <2>3. QED
    BY <2>1, <2>2 DEF Nested
<1> DEFINE mine == scopes[n].cleanup
           m == Len(ran)
<1>10. /\ ran \in Seq(Nat) /\ mine \in Seq(Nat) /\ m \in Nat /\ Len(mine) \in Nat
       /\ DOMAIN ran = 1..m /\ DOMAIN mine = 1..Len(mine)
       /\ \A i \in DOMAIN ran : ran[i] \in Nat /\ ran[i] < made
  <2>1. ran \in Seq(Nat) /\ \A i \in DOMAIN ran : ran[i] < made
    BY <1>2 DEF RanBelow
  <2>2. mine \in Seq(Nat)
    BY <1>4 DEF Scope
  <2> HIDE DEF mine
  <2>3. QED
    BY <2>1, <2>2
<1>11. \A t \in 1..n : RecordsAt(scopes, ran, objs, t)
  BY <1>2, <1>4, CleanupsAre
<1>12. /\ \A i, j \in DOMAIN mine : i < j => mine[i] > mine[j]
       /\ \A i \in DOMAIN mine : /\ \A j \in DOMAIN ran : ran[j] # mine[i]
                                 /\ \E o \in objs : o.id = mine[i]
  BY <1>4, <1>11 DEF RecordsAt
<1>13. \A i \in DOMAIN mine : mine[i] \in Nat /\ mine[i] < made
  <2>1. \A o \in objs : o.id < made
    BY <1>2 DEF Layout, Named
  <2>2. \A i \in DOMAIN mine : mine[i] < made
    BY <1>12, <2>1
  <2> HIDE DEF mine
  <2>3. QED
    BY <1>10, <2>2
<1>14. \A t \in 1..(n - 1) : \A i \in DOMAIN scopes[t].cleanup : \A j \in DOMAIN mine :
          mine[j] > scopes[t].cleanup[i] /\ scopes[t].cleanup[i] \in Nat
  <2>1. ASSUME NEW t \in 1..(n - 1), NEW i \in DOMAIN scopes[t].cleanup, NEW j \in DOMAIN mine
        PROVE  mine[j] > scopes[t].cleanup[i] /\ scopes[t].cleanup[i] \in Nat
    <3>1. t \in 1..n /\ n > t /\ n \in 1..n
      BY <1>1, <1>4
    <3>2. mine[j] > scopes[t].cleanup[i]
      BY <1>4, <1>11, <2>1, <3>1 DEF RecordsAt
    <3>3. scopes[t] \in Scope
      BY <1>2, <1>4, <3>1
    <3>4. scopes[t].cleanup \in Seq(Nat)
      BY <3>3 DEF Scope
    <3>5. scopes[t].cleanup[i] \in Nat
      BY <2>1, <3>4
    <3>6. QED
      BY <3>2, <3>5
  <2>2. QED
    BY <2>1
<1> HIDE DEF mine, m
<1>15. /\ ran' \in Seq(Nat) /\ DOMAIN ran' = 1..(m + Len(mine))
       /\ \A i \in 1..(m + Len(mine)) :
            \/ i \in DOMAIN ran /\ ran'[i] = ran[i]
            \/ i > m /\ i - m \in DOMAIN mine /\ ran'[i] = mine[i - m]
  <2>1. ran' = ran \o mine /\ m = Len(ran)
    BY <1>3 DEF mine, m
  <2>2. QED
    BY <1>10, <2>1
<1>16. Distinct(ran')
  <2>1. ASSUME NEW i \in DOMAIN ran', NEW j \in DOMAIN ran', i # j
        PROVE  ran'[i] # ran'[j]
    <3>1. /\ \/ i \in DOMAIN ran /\ ran'[i] = ran[i]
             \/ i > m /\ i - m \in DOMAIN mine /\ ran'[i] = mine[i - m]
          /\ \/ j \in DOMAIN ran /\ ran'[j] = ran[j]
             \/ j > m /\ j - m \in DOMAIN mine /\ ran'[j] = mine[j - m]
      BY <1>15, <2>1
    <3>2. CASE i \in DOMAIN ran /\ ran'[i] = ran[i] /\ j \in DOMAIN ran /\ ran'[j] = ran[j]
      <4>1. Distinct(ran)
        BY <1>2, CleanupsAre
      <4>2. QED
        BY <2>1, <3>2, <4>1 DEF Distinct
    <3>3. CASE i \in DOMAIN ran /\ ran'[i] = ran[i] /\ j - m \in DOMAIN mine /\ ran'[j] = mine[j - m]
      BY <1>12, <3>3
    <3>4. CASE i - m \in DOMAIN mine /\ ran'[i] = mine[i - m] /\ j \in DOMAIN ran /\ ran'[j] = ran[j]
      BY <1>12, <3>4
    <3>5. CASE i - m \in DOMAIN mine /\ ran'[i] = mine[i - m] /\ j - m \in DOMAIN mine /\ ran'[j] = mine[j - m]
      <4>1. i \in Nat /\ j \in Nat /\ (i - m < j - m \/ j - m < i - m)
        BY <1>10, <1>15, <2>1
      <4>2. mine[i - m] \in Nat /\ mine[j - m] \in Nat
        BY <1>13, <3>5
      <4>3. mine[i - m] > mine[j - m] \/ mine[j - m] > mine[i - m]
        BY <1>12, <3>5, <4>1
      <4>4. QED
        BY <3>5, <4>2, <4>3
    <3>6. QED
      BY <3>1, <3>2, <3>3, <3>4, <3>5
  <2>2. QED
    BY <2>1 DEF Distinct
<1>17. ASSUME NEW t \in 1..(n - 1)
       PROVE  RecordsAt(scopes', ran', objs', t)
  <2>1. scopes'[t] = scopes[t] /\ t \in 1..n /\ RecordsAt(scopes, ran, objs, t)
    BY <1>1, <1>4, <1>11
  <2>2. scopes[t].id # scopes[n].id
    <3>1. scopes[t].id = t + 1 /\ scopes[n].id = n + 1
      BY <1>2, <1>4, <2>1 DEF Counted
    <3>2. QED
      BY <1>1, <2>1, <3>1
  <2>3. \A i \in DOMAIN scopes[t].cleanup :
          \E o \in objs' : o.id = scopes[t].cleanup[i] /\ o.scope = scopes[t].id
    <3>1. \A i \in DOMAIN scopes[t].cleanup :
            \E o \in objs : o.id = scopes[t].cleanup[i] /\ o.scope = scopes[t].id
      BY <2>1 DEF RecordsAt
    <3>2. QED
      BY <1>1, <2>2, <3>1
  <2>4. ASSUME NEW i \in DOMAIN scopes[t].cleanup, NEW j \in DOMAIN ran'
        PROVE  ran'[j] # scopes[t].cleanup[i]
    <3>1. CASE j \in DOMAIN ran /\ ran'[j] = ran[j]
      BY <2>1, <2>4, <3>1 DEF RecordsAt
    <3>2. CASE j - m \in DOMAIN mine /\ ran'[j] = mine[j - m]
      <4>1. mine[j - m] > scopes[t].cleanup[i] /\ scopes[t].cleanup[i] \in Nat
        BY <1>14, <2>4, <3>2
      <4>2. mine[j - m] \in Nat
        BY <1>13, <3>2
      <4>3. QED
        BY <3>2, <4>1, <4>2
    <3>3. QED
      BY <1>15, <2>4, <3>1, <3>2
  <2>5. /\ \A i, j \in DOMAIN scopes[t].cleanup : i < j => scopes[t].cleanup[i] > scopes[t].cleanup[j]
        /\ \A i \in DOMAIN scopes[t].cleanup : \A u \in 1..(n - 1) : u > t =>
             \A j \in DOMAIN scopes'[u].cleanup : scopes'[u].cleanup[j] > scopes[t].cleanup[i]
    BY <1>1, <1>4, <2>1 DEF RecordsAt
  <2>6. QED
    BY <1>4, <2>1, <2>3, <2>4, <2>5 DEF RecordsAt
<1>18. CleanupsOnce'
  BY <1>4, <1>16, <1>17, CleanupsAre
<1>19. RanBelow'
  <2>1. \A i \in DOMAIN ran' : ran'[i] < made
    BY <1>10, <1>13, <1>15
  <2>2. QED
    BY <1>3, <1>15, <2>1 DEF RanBelow
<1>20. QED
  BY <1>3, <1>6, <1>7, <1>8, <1>9, <1>18, <1>19 DEF IInv

LEMMA FreeOK ==
  ASSUME IInv, ArenaFree
  PROVE  IInv'
<1>1. /\ Counted /\ Layout(frames, objs, made) /\ Owned /\ Nested(frames, scopes, objs, made)
      /\ made \in Nat /\ CleanupsOnce /\ RanBelow /\ scopes \in Seq(Scope)
  BY DEF IInv, Counted
<1>2. /\ ~freed /\ freed' = TRUE /\ refs' = refs - 1
      /\ frames' = IF refs > 1 THEN frames ELSE <<>>
      /\ UNCHANGED <<scopes, objs, made, ran, state>>
  BY DEF ArenaFree
<1>3. Len(scopes) \in Nat /\ refs = Len(scopes) + 1
  BY <1>1, <1>2 DEF Counted
<1>4. Counted'
  <2>1. refs' = Len(scopes) + 0 /\ (refs' > 0 => refs > 1)
    BY <1>2, <1>3
  <2>2. refs > 1 => frames' # <<>>
    BY <1>1, <1>2 DEF Counted
  <2>3. QED
    BY <1>1, <1>2, <2>1, <2>2 DEF Counted
<1>5. CleanupsOnce' /\ RanBelow' /\ Owned'
  BY <1>1, <1>2 DEF CleanupsOnce, RanBelow, Owned
<1>6. CASE refs > 1
  BY <1>1, <1>2, <1>4, <1>5, <1>6 DEF IInv
<1>7. CASE ~(refs > 1)
  <2>1. Len(scopes) = 0 /\ frames' = <<>>
    BY <1>2, <1>3, <1>7
  <2>2. objs = {}
    BY <1>1, <2>1 DEF Owned
  <2>3. FramesOK(<<>>, made)
    BY DEF FramesOK
  <2>4. Layout(frames', objs', made')
    BY <1>2, <2>1, <2>2, <2>3 DEF Layout, Named, Unshared
  <2>5. Nested(frames', scopes', objs', made')
    BY <1>2, <2>1 DEF Nested
  <2>6. QED
    BY <1>4, <1>5, <2>4, <2>5 DEF IInv
<1>8. QED
  BY <1>6, <1>7

LEMMA NextOK ==
  ASSUME ArenaAssumption, GrowOuter = FALSE, IInv, [Next]_vars
  PROVE  IInv'
<1>1. CASE ScopeEnter
  BY <1>1, EnterOK
<1>2. CASE ScopeLeave
  BY <1>2, LeaveOK
<1>3. CASE ArenaFree
  BY <1>3, FreeOK
<1>4. Sizes \subseteq Nat
  BY DEF ArenaAssumption
<1>5. ASSUME NEW s \in DOMAIN scopes, Cleanup(s)
      PROVE  IInv'
  BY <1>5, CleanupOK
<1>6. ASSUME NEW s \in DOMAIN scopes, NEW size \in Sizes, Malloc(s, size)
      PROVE  IInv'
  BY <1>4, <1>6, MallocOK
<1>7. ASSUME NEW s \in DOMAIN scopes, NEW size \in Sizes, Strndup(s, size)
      PROVE  IInv'
  <2>1. size + 1 \in Nat /\ Malloc(s, size + 1)
    BY <1>4, <1>7 DEF Strndup
  <2>2. QED
    BY <2>1, MallocOK
<1>8. ASSUME NEW s \in DOMAIN scopes, NEW o \in objs, NEW size \in Sizes, Realloc(s, o, size)
      PROVE  IInv'
  BY <1>4, <1>8, ReallocOK
<1>9. CASE UNCHANGED vars
  <2>1. UNCHANGED <<frames, scopes, refs, freed, objs, made, ran, state>>
    BY <1>9 DEF vars
  <2>2. Counted' /\ Owned' /\ CleanupsOnce' /\ RanBelow'
    BY <2>1 DEF IInv, Counted, Owned, CleanupsOnce, RanBelow
  <2>3. Layout(frames', objs', made') /\ Nested(frames', scopes', objs', made')
    BY <2>1 DEF IInv
  <2>4. QED
    BY <2>2, <2>3 DEF IInv
<1>10. QED
  BY <1>1, <1>2, <1>3, <1>5, <1>6, <1>7, <1>8, <1>9 DEF Next

-----------------------------------------------------------------------------
(* What follows from the invariant.                                        *)

\* Objects of a frame that share nothing and are not empty are a poison apart.
LEMMA ApartPoison ==
  ASSUME ArenaAssumption, NEW o \in Obj, NEW p \in Obj, o.size > 0, p.size > 0,
         NEW size \in Nat, Apart(o, p, size), End(o) <= size, End(p) <= size
  PROVE  \/ o.off + o.size + Poison <= p.off
         \/ p.off + p.size + Poison <= o.off
<1>1. /\ End(o) = o.off + o.size /\ End(o) + Poison <= Behind(o) /\ Behind(o) \in Nat
      /\ o.off \in Nat /\ o.size \in Nat /\ Poison \in Nat
  BY EndsAre
<1>2. /\ End(p) = p.off + p.size /\ End(p) + Poison <= Behind(p) /\ Behind(p) \in Nat
      /\ p.off \in Nat /\ p.size \in Nat
  BY EndsAre
<1>3. Behind(o) <= p.off \/ Behind(p) <= o.off
  BY <1>1, <1>2 DEF Apart, Covers
<1>4. QED
  BY <1>1, <1>2, <1>3

LEMMA Sound ==
  ASSUME ArenaAssumption, IInv
  PROVE  ArenaSound
<1>1. /\ Counted /\ FramesOK(frames, made) /\ Named(objs, made) /\ Unshared(objs, frames)
      /\ made \in Nat /\ (\A o \in objs : o \in Obj /\ Held(o, frames))
      /\ Nested(frames, scopes, objs, made) /\ CleanupsOnce
  BY DEF IInv, Counted, Layout, Named
<1>2. /\ frames \in Seq(Frame) /\ scopes \in Seq(Scope) /\ Len(frames) \in Nat /\ Len(scopes) \in Nat
      /\ DOMAIN frames = 1..Len(frames) /\ DOMAIN scopes = 1..Len(scopes)
  BY <1>1 DEF Counted, FramesOK
<1>3. \A i \in 1..Len(frames) : frames[i] \in Frame /\ Header <= frames[i].len
                                 /\ frames[i].len <= frames[i].size
  BY <1>1, <1>2 DEF FramesOK
<1>4. TypeOK
  <2>1. \A i \in DOMAIN frames : frames[i].len \in 0..frames[i].size
    <3>1. \A f \in Frame : f.len \in Nat /\ f.size \in Nat
      BY DEF Frame
    <3>2. QED
      BY <1>2, <1>3, <3>1
  <2>2. QED
    BY <1>1, <1>2, <2>1 DEF TypeOK, Counted
<1>5. ASSUME NEW i \in 1..Len(frames), NEW o \in objs, frames[i].id = o.frame
      PROVE  Inside(o, frames[i]) /\ FrameOf(o) = frames[i] /\ FrameOf(o) \in Range(frames)
  <2>1. PICK j \in 1..Len(frames) : frames[j].id = o.frame /\ Inside(o, frames[j])
    BY <1>1 DEF Held
  <2>2. frames[i].id = frames[j].id
    BY <1>5, <2>1
  <2>3. i = j
    BY <1>1, <2>1, <2>2, FrameUnique
  <2>4. frames[i] \in Range(frames)
    BY <1>2 DEF Range
  <2>5. ASSUME NEW f \in Range(frames), f.id = o.frame
        PROVE  f = frames[i]
    <3>1. PICK k \in 1..Len(frames) : f = frames[k]
      BY <1>2 DEF Range
    <3>2. frames[k].id = frames[i].id
      BY <1>5, <2>5, <3>1
    <3>3. k = i
      BY <1>1, <3>1, <3>2, FrameUnique
    <3>4. QED
      BY <3>1, <3>3
  <2>6. FrameOf(o) = frames[i]
    BY <1>5, <2>4, <2>5 DEF FrameOf
  <2>7. QED
    BY <2>1, <2>3, <2>4, <2>6
<1>6. LiveAllocated
  <2>1. ASSUME NEW o \in objs
        PROVE  /\ \E f \in Range(frames) : f.id = o.frame
               /\ Header <= o.off /\ o.off + o.size <= FrameOf(o).len
    <3>1. PICK i \in 1..Len(frames) : frames[i].id = o.frame
      BY <1>1 DEF Held
    <3>2. Inside(o, frames[i]) /\ FrameOf(o) = frames[i] /\ FrameOf(o) \in Range(frames)
      BY <1>5, <3>1
    <3>3. QED
      BY <3>1, <3>2 DEF Inside, End
  <2>2. QED
    BY <2>1 DEF LiveAllocated
<1>7. LiveDisjoint
  <2>1. ASSUME NEW o \in objs, NEW p \in objs, o.size > 0, p.size > 0, o.frame = p.frame,
               o.id # p.id
        PROVE  \/ o.off + o.size + Poison <= p.off
               \/ p.off + p.size + Poison <= o.off
    <3>1. PICK i \in 1..Len(frames) : frames[i].id = o.frame
      BY <1>1 DEF Held
    <3>2. Inside(o, frames[i]) /\ Inside(p, frames[i])
      BY <1>5, <2>1, <3>1
    <3>3. Apart(o, p, frames[i].size)
      BY <1>1, <2>1, <3>1 DEF Unshared
    <3>4. frames[i].size \in Nat /\ frames[i].len \in Nat /\ frames[i].len <= frames[i].size
      <4>1. \A f \in Frame : f.len \in Nat /\ f.size \in Nat
        BY DEF Frame
      <4>2. QED
        BY <1>3, <3>1, <4>1
    <3>5. o \in Obj /\ p \in Obj
      BY <1>1
    <3>6. End(o) \in Nat
      BY <3>5, EndsAre
    <3>7. End(p) \in Nat
      BY <3>5, EndsAre
    <3>8. End(o) <= frames[i].size /\ End(p) <= frames[i].size
      BY <3>2, <3>4, <3>6, <3>7 DEF Inside
    <3>9. QED
      BY <2>1, <3>3, <3>4, <3>5, <3>8, ApartPoison
  <2>2. QED
    BY <2>1 DEF LiveDisjoint
<1>8. ScopesNested
  <2>1. ASSUME NEW s \in 1..Len(scopes)
        PROVE  \E f \in Range(frames) : f.id = scopes[s].frame /\ scopes[s].len <= f.len
    <3> DEFINE e == scopes[s].entry
               k == Len(frames) - Len(e)
    <3>1. FramesOK(e, made) /\ Kept(frames, e) /\ scopes[s].frame = e[1].id
          /\ scopes[s].len = e[1].len
      BY <1>1 DEF Nested
    <3>2. Len(e) \in Nat /\ 1 <= Len(e) /\ Len(e) <= Len(frames)
      BY <3>1 DEF Kept, FramesOK
    <3>3. frames[k + 1].id = e[1].id /\ e[1].len <= frames[k + 1].len
      BY <3>1 DEF Kept
    <3>4. k + 1 \in DOMAIN frames
      BY <1>2, <3>2
    <3>5. frames[k + 1] \in Range(frames)
      BY <3>4 DEF Range
    <3>6. QED
      BY <3>1, <3>3, <3>5
  <2>2. QED
    BY <1>2, <2>1 DEF ScopesNested
<1>9. NoError
  BY <1>1 DEF NoError, Counted
<1>10. QED
  BY <1>1, <1>4, <1>6, <1>7, <1>8, <1>9 DEF ArenaSound

\* Whatever is allocated, grown, shrunk and left, in whatever sizes and however
\* deep scopes are, as long as objects of outer scopes are left alone in a
\* nested one: what a scope holds is memory in use that nobody shares, each
\* cleanup runs once, and no allocation fails (libks/arena.c).
THEOREM AlwaysSound ==
  ASSUME ArenaAssumption, GrowOuter = FALSE
  PROVE  Spec => []ArenaSound
<1>1. Init => IInv
  BY InitOK
<1>2. IInv /\ [Next]_vars => IInv'
  BY NextOK
<1>3. IInv => ArenaSound
  BY Sound
<1>4. QED
  BY <1>1, <1>2, <1>3, PTL DEF Spec

LEMMA RestoresOK ==
  ASSUME IInv, [Next]_vars
  PROVE  [Restores]_vars
<1>1. scopes \in Seq(Scope) /\ Len(scopes) \in Nat
  BY DEF IInv, Counted
<1>2. CASE ScopeLeave
  <2>1. refs > 1 => frames' = Last(scopes).entry
    BY <1>2, LeaveIs
  <2>2. QED
    BY <2>1 DEF Restores
<1>3. CASE ScopeEnter
  <2> DEFINE new == [id |-> refs + 1, frame |-> Head(frames).id, len |-> Head(frames).len,
                     cleanup |-> <<>>, entry |-> frames]
  <2>1. scopes' = Append(scopes, new)
    BY <1>3 DEF ScopeEnter
  <2> HIDE DEF new
  <2>2. Len(scopes') = Len(scopes) + 1
    BY <1>1, <2>1
  <2>3. QED
    BY <1>1, <2>2 DEF Restores
<1>4. ASSUME scopes' = scopes
      PROVE  Restores
  BY <1>1, <1>4 DEF Restores
<1>5. ASSUME NEW s \in DOMAIN scopes, NEW x, scopes' = [scopes EXCEPT ![s].cleanup = x]
      PROVE  Restores
  <2>1. Len(scopes') = Len(scopes)
    BY <1>1, <1>5
  <2>2. QED
    BY <1>1, <2>1 DEF Restores
<1>6. ASSUME NEW s \in DOMAIN scopes, Cleanup(s)
      PROVE  Restores
  BY <1>4, <1>5, <1>6 DEF Cleanup, Trap
<1>7. ASSUME NEW s \in DOMAIN scopes, NEW size, Malloc(s, size)
      PROVE  Restores
  BY <1>4, <1>7 DEF Malloc, Trap
<1>8. ASSUME NEW s \in DOMAIN scopes, NEW o \in objs, NEW size, Realloc(s, o, size)
      PROVE  Restores
  BY <1>4, <1>8 DEF Realloc, Trap
<1>9. CASE ArenaFree
  BY <1>4, <1>9 DEF ArenaFree
<1>10. CASE UNCHANGED vars
  BY <1>10
<1>11. QED
  BY <1>2, <1>3, <1>6, <1>7, <1>8, <1>9, <1>10 DEF Next, Strndup

\* Leaving a scope gives back exactly what was taken since it was entered
\* (arena_scope_leave()).
THEOREM AlwaysRestores ==
  ASSUME ArenaAssumption, GrowOuter = FALSE
  PROVE  Spec => [][Restores]_vars
<1>1. Init => IInv
  BY InitOK
<1>2. IInv /\ [Next]_vars => IInv'
  BY NextOK
<1>3. IInv /\ [Next]_vars => [Restores]_vars
  BY RestoresOK
<1>4. QED
  BY <1>1, <1>2, <1>3, PTL DEF Spec
=============================================================================
