-------------------------- MODULE Containers_proofs --------------------------
(***************************************************************************)
(* Proofs about the containers.  The map: its list links the elements in   *)
(* the order of insertion, each is found in the bucket its hash tells,     *)
(* whatever was expanded and removed, and the map implements a dictionary. *)
(* The buffer: it holds what was appended, whichever growth failed, a file *)
(* is read as a whole, and the lines got are the lines of the content.     *)
(***************************************************************************)
EXTENDS HashMap, Buffer, FiniteSetTheorems, SequenceTheorems,
        NaturalsInduction, WellFoundedInduction, TLAPS

-----------------------------------------------------------------------------
(* Induction, and sequences one after the other.                             *)

\* Induction up to n, the property being the set of its numbers.
LEMMA UpTo ==
  ASSUME NEW n \in Nat, NEW S, 0 \in S, \A i \in 0..n-1 : i \in S => i + 1 \in S
  PROVE  0..n \subseteq S
<1> DEFINE T == {i \in Nat : i \in 0..n /\ i \notin S}
<1> SUFFICES ASSUME T # {}
             PROVE  FALSE
  OBVIOUS
<1>1. PICK m \in T : \A l \in T : ~(<<l, m>> \in OpToRel(<, Nat))
  <2>1. T \subseteq Nat
    OBVIOUS
  <2> HIDE DEF T
  <2>2. QED
    BY <2>1, NatLessThanWellFounded, WFMin
<1>2. m \in 0..n /\ m \notin S
  BY <1>1
<1>3. m # 0
  BY <1>2
<1>4. m \in 1..n /\ m - 1 \in 0..n-1 /\ m - 1 \in Nat /\ m \in Nat /\ m - 1 < m
      /\ m - 1 + 1 = m /\ m - 1 \in 0..n
  BY <1>2, <1>3
<1>5. m - 1 \in S => m \in S
  BY <1>4
<1>6. m - 1 \in T
  BY <1>2, <1>4, <1>5
<1>7. <<m - 1, m>> \in OpToRel(<, Nat)
  BY <1>4 DEF OpToRel
<1>8. QED
  BY <1>1, <1>6, <1>7

LEMMA ConcatDistinct ==
  ASSUME NEW S, NEW s \in Seq(S), NEW t \in Seq(S), IsInjective(s), IsInjective(t),
         ToSet(s) \cap ToSet(t) = {}
  PROVE  /\ s \o t \in Seq(S) /\ IsInjective(s \o t)
         /\ ToSet(s \o t) = ToSet(s) \cup ToSet(t)
<1> DEFINE m == Len(s)
           n == Len(t)
           u == s \o t
<1>1. /\ m \in Nat /\ n \in Nat /\ DOMAIN s = 1..m /\ DOMAIN t = 1..n
      /\ u \in Seq(S) /\ Len(u) = m + n /\ DOMAIN u = 1..m+n
  OBVIOUS
<1>2. /\ \A i \in 1..m : u[i] = s[i]
      /\ \A i \in 1..n : u[m + i] = t[i]
  OBVIOUS
<1>3. \A i \in 1..m+n : i \in 1..m \/ (i - m \in 1..n /\ m + (i - m) = i)
  BY <1>1
<1> HIDE DEF u, m, n
<1>4. ToSet(u) = ToSet(s) \cup ToSet(t)
  <2>1. \A i \in 1..n : m + i \in 1..m+n
    BY <1>1
  <2>2. \A i \in 1..m : i \in 1..m+n
    BY <1>1
  <2>3. ASSUME NEW i \in 1..m+n
        PROVE  u[i] \in ToSet(s) \cup ToSet(t)
    <3>1. CASE i \in 1..m
      BY <1>1, <1>2, <3>1 DEF ToSet
    <3>2. CASE i - m \in 1..n /\ m + (i - m) = i
      <4>1. u[m + (i - m)] = t[i - m]
        BY <1>2, <3>2
      <4>2. QED
        BY <1>1, <3>2, <4>1 DEF ToSet
    <3>3. QED
      BY <1>3, <3>1, <3>2
  <2>4. ToSet(u) \subseteq ToSet(s) \cup ToSet(t)
    BY <1>1, <2>3 DEF ToSet
  <2>5. ASSUME NEW i \in 1..m
        PROVE  s[i] \in ToSet(u)
    BY <1>1, <1>2, <2>2 DEF ToSet
  <2>6. ASSUME NEW i \in 1..n
        PROVE  t[i] \in ToSet(u)
    BY <1>1, <1>2, <2>1 DEF ToSet
  <2>7. ToSet(s) \subseteq ToSet(u) /\ ToSet(t) \subseteq ToSet(u)
    BY <1>1, <2>5, <2>6 DEF ToSet
  <2>8. QED
    BY <2>4, <2>7
<1>5. ASSUME NEW i \in 1..m+n, NEW j \in 1..m+n, u[i] = u[j]
      PROVE  i = j
  <2>1. CASE i \in 1..m /\ j \in 1..m
    <3>1. s[i] = s[j]
      BY <1>2, <1>5, <2>1
    <3>2. QED
      BY <1>1, <2>1, <3>1 DEF IsInjective
  <2>2. CASE i \in 1..m /\ j - m \in 1..n /\ m + (j - m) = j
    <3>1. s[i] = t[j - m]
      BY <1>2, <1>5, <2>2
    <3>2. QED
      BY <1>1, <2>2, <3>1 DEF ToSet
  <2>3. CASE j \in 1..m /\ i - m \in 1..n /\ m + (i - m) = i
    <3>1. s[j] = t[i - m]
      BY <1>2, <1>5, <2>3
    <3>2. QED
      BY <1>1, <2>3, <3>1 DEF ToSet
  <2>4. CASE i - m \in 1..n /\ m + (i - m) = i /\ j - m \in 1..n /\ m + (j - m) = j
    <3>1. t[i - m] = t[j - m]
      BY <1>2, <1>5, <2>4
    <3>2. i - m = j - m
      BY <1>1, <2>4, <3>1 DEF IsInjective
    <3>3. QED
      BY <2>4, <3>2
  <2>5. QED
    BY <1>3, <2>1, <2>2, <2>3, <2>4
<1>6. QED
  BY <1>1, <1>4, <1>5 DEF IsInjective, u

\* What FlattenSeq() makes of one sequence after the other.
LEMMA FlattenSteps ==
  ASSUME NEW n \in Nat \ {0}, NEW S, NEW ss \in [1..n -> S]
  PROVE  \E f : /\ f[1] = ss[1] /\ \A i \in 2..n : f[i] = f[i-1] \o ss[i]
                /\ FlattenSeq(ss) = f[n]
<1> DEFINE Is(f, m) == f = [i \in 1..m |-> IF i = 1 THEN ss[i] ELSE f[i-1] \o ss[i]]
           e == CHOOSE f : Is(f, n)
<1>1. ss \in Seq(S) /\ Len(ss) = n
  OBVIOUS
<1>2. FlattenSeq(ss) = e[n]
  BY <1>1 DEF FlattenSeq
<1>3. ASSUME NEW f, NEW m \in Nat, Is(f, m)
      PROVE  \E g : Is(g, m + 1)
  <2> DEFINE g == [i \in 1..m+1 |-> IF i = 1 THEN ss[i]
                                    ELSE IF i \in 1..m THEN f[i] ELSE f[m] \o ss[i]]
  <2>1. ASSUME NEW i \in 1..m+1
        PROVE  g[i] = IF i = 1 THEN ss[i] ELSE g[i-1] \o ss[i]
    <3>1. CASE i = 1
      BY <3>1
    <3>2. CASE i # 1 /\ i \in 1..m
      <4>1. i - 1 \in 1..m /\ i - 1 \in 1..m+1
        BY <3>2
      <4>2. g[i-1] = f[i-1]
        <5>1. CASE i - 1 = 1
          <6>1. f[i-1] = ss[i-1]
            BY <1>3, <4>1, <5>1
          <6>2. QED
            BY <4>1, <5>1, <6>1
        <5>2. QED
          BY <4>1, <5>1
      <4>3. f[i] = f[i-1] \o ss[i]
        BY <1>3, <3>2
      <4>4. QED
        BY <3>2, <4>2, <4>3
    <3>3. CASE i # 1 /\ i = m + 1
      <4>1. i - 1 = m /\ m \in 1..m+1 /\ m \in 1..m /\ i \notin 1..m
        BY <3>3
      <4>2. g[m] = f[m]
        <5>1. CASE m = 1
          <6>1. f[m] = ss[m]
            BY <1>3, <4>1, <5>1
          <6>2. QED
            BY <4>1, <5>1, <6>1
        <5>2. QED
          BY <4>1, <5>1
      <4>3. g[i] = f[m] \o ss[i]
        BY <3>3, <4>1
      <4>4. QED
        BY <3>3, <4>1, <4>2, <4>3
    <3>4. QED
      BY <3>1, <3>2, <3>3
  <2>2. g = [i \in 1..m+1 |-> g[i]]
    OBVIOUS
  <2> HIDE DEF g
  <2>3. QED
    BY <2>1, <2>2, ZenonT(40)
<1>4. \E f : Is(f, n)
  <2> DEFINE T == {m \in Nat : \E f : Is(f, m)}
  <2>1. 0 \in T
    <3>1. Is([i \in 1..0 |-> 0], 0)
      OBVIOUS
    <3>2. QED
      BY <3>1
  <2>2. ASSUME NEW m \in 0..n-1, m \in T
        PROVE  m + 1 \in T
    <3>1. PICK f : Is(f, m)
      BY <2>2
    <3>2. m \in Nat /\ m + 1 \in Nat
      OBVIOUS
    <3> HIDE DEF Is
    <3>3. \E g : Is(g, m + 1)
      BY <1>3, <3>1, <3>2
    <3>4. QED
      BY <3>2, <3>3
  <2> HIDE DEF T
  <2>3. 0..n \subseteq T
    BY <2>1, <2>2, UpTo
  <2>4. n \in T
    BY <2>3
  <2>5. QED
    BY <2>4 DEF T
<1> HIDE DEF Is
<1>5. Is(e, n)
  BY <1>4
<1> HIDE DEF e
<1>6. e[1] = ss[1] /\ \A i \in 2..n : e[i] = e[i-1] \o ss[i]
  <2>1. e = [i \in 1..n |-> IF i = 1 THEN ss[i] ELSE e[i-1] \o ss[i]]
    BY <1>5 DEF Is
  <2>2. 1 \in 1..n /\ \A i \in 2..n : i \in 1..n /\ i # 1
    OBVIOUS
  <2>3. QED
    BY <2>1, <2>2
<1>7. QED
  BY <1>2, <1>6

\* Sequences that have nothing in common, one after the other.
LEMMA FlattenDistinct ==
  ASSUME NEW S, NEW n \in Nat \ {0}, NEW ss \in [1..n -> Seq(S)],
         \A i \in 1..n : IsInjective(ss[i]),
         \A i, j \in 1..n : i # j => ToSet(ss[i]) \cap ToSet(ss[j]) = {}
  PROVE  /\ FlattenSeq(ss) \in Seq(S) /\ IsInjective(FlattenSeq(ss))
         /\ ToSet(FlattenSeq(ss)) = UNION {ToSet(ss[i]) : i \in 1..n}
<1>1. PICK f : /\ f[1] = ss[1] /\ \A i \in 2..n : f[i] = f[i-1] \o ss[i]
               /\ FlattenSeq(ss) = f[n]
  BY FlattenSteps
<1> DEFINE Good(m) == /\ f[m] \in Seq(S) /\ IsInjective(f[m])
                      /\ ToSet(f[m]) = UNION {ToSet(ss[i]) : i \in 1..m}
           T == {m \in Nat : m # 0 => Good(m)}
<1>2. Good(1)
  BY <1>1
<1>3. ASSUME NEW m \in 1..n-1, Good(m)
      PROVE  Good(m + 1)
  <2>1. m + 1 \in 2..n /\ m + 1 \in 1..n /\ m \in 1..n /\ m + 1 - 1 = m
    OBVIOUS
  <2>2. f[m+1] = f[m] \o ss[m+1]
    <3> DEFINE l == m + 1
    <3>1. l \in 2..n /\ l - 1 = m
      BY <2>1
    <3> HIDE DEF l
    <3>2. f[l] = f[l-1] \o ss[l]
      BY <1>1, <3>1
    <3>3. QED
      BY <3>1, <3>2 DEF l
  <2>3. \A i \in 1..m : i \in 1..n /\ i # m + 1
    OBVIOUS
  <2>4. ToSet(f[m]) \cap ToSet(ss[m+1]) = {}
    BY <1>3, <2>1, <2>3
  <2>5. ss[m+1] \in Seq(S) /\ IsInjective(ss[m+1])
    BY <2>1
  <2>6. /\ f[m+1] \in Seq(S) /\ IsInjective(f[m+1])
        /\ ToSet(f[m+1]) = ToSet(f[m]) \cup ToSet(ss[m+1])
    BY <1>3, <2>2, <2>4, <2>5, ConcatDistinct
  <2>7. 1..m+1 = 1..m \cup {m+1}
    OBVIOUS
  <2>8. QED
    BY <1>3, <2>6, <2>7
<1> HIDE DEF Good
<1>4. 0 \in T
  OBVIOUS
<1>5. \A m \in 0..n-1 : m \in T => m + 1 \in T
  BY <1>2, <1>3
<1>6. n \in T
  <2> HIDE DEF T
  <2>1. 0..n \subseteq T
    BY <1>4, <1>5, UpTo
  <2>2. QED
    BY <2>1
<1>7. QED
  BY <1>1, <1>6 DEF Good

-----------------------------------------------------------------------------
\* A sequence that holds an element once, without it.
LEMMA RemoveFirstIs ==
  ASSUME NEW S, NEW s \in Seq(S), IsInjective(s), NEW e
  PROVE  /\ e \notin ToSet(s) => RemoveFirst(s, e) = s
         /\ \A i \in 1..Len(s) : s[i] = e => RemoveFirst(s, e) = RemoveAt(s, i)
<1>1. Len(s) \in Nat /\ DOMAIN s = 1..Len(s)
  OBVIOUS
<1>2. ASSUME e \notin ToSet(s)
      PROVE  RemoveFirst(s, e) = s
  BY <1>1, <1>2 DEF RemoveFirst, ToSet
<1>3. ASSUME NEW i \in 1..Len(s), s[i] = e
      PROVE  RemoveFirst(s, e) = RemoveAt(s, i)
  <2> DEFINE I == {j \in 1..Len(s) : s[j] = e}
  <2>1. I = {i}
    BY <1>1, <1>3 DEF IsInjective
  <2>2. Min(I) = i
    <3>1. i \in Int /\ i <= i
      OBVIOUS
    <3> HIDE DEF I
    <3>2. QED
      BY <2>1, <3>1 DEF Min
  <2>3. SelectInSeq(s, LAMBDA v : v = e) = i
    BY <2>1, <2>2 DEF SelectInSeq
  <2>4. QED
    BY <1>3, <2>3 DEF RemoveFirst
<1>4. QED
  BY <1>2, <1>3

LEMMA ConcatAt ==
  ASSUME NEW S, NEW s \in Seq(S), NEW t \in Seq(S)
  PROVE  /\ s \o t \in Seq(S) /\ Len(s \o t) = Len(s) + Len(t)
         /\ DOMAIN (s \o t) = 1..Len(s \o t)
         /\ \A j \in 1..Len(s) : (s \o t)[j] = s[j]
         /\ \A j \in 1..Len(t) : (s \o t)[Len(s) + j] = t[j]
OBVIOUS

LEMMA WithoutItem ==
  ASSUME NEW S, NEW s \in Seq(S), IsInjective(s), NEW i \in 1..Len(s),
         NEW t, t = RemoveAt(s, i)
  PROVE  /\ t \in Seq(S) /\ Len(t) = Len(s) - 1
         /\ \A j \in 1..Len(s)-1 : t[j] = IF j < i THEN s[j] ELSE s[j+1]
         /\ IsInjective(t) /\ ToSet(t) = ToSet(s) \ {s[i]}
<1> DEFINE n == Len(s)
           a == SubSeq(s, 1, i-1)
           b == SubSeq(s, i+1, n)
<1>1. n \in Nat /\ DOMAIN s = 1..n /\ i \in 1..n /\ i \in Nat /\ s \in Seq(S)
  OBVIOUS
<1>2. /\ a \in Seq(S) /\ Len(a) = i - 1 /\ \A j \in 1..i-1 : a[j] = s[j]
      /\ b \in Seq(S) /\ Len(b) = n - i /\ \A j \in 1..n-i : b[j] = s[i + j]
  OBVIOUS
<1>3. t = a \o b
  BY DEF RemoveAt
<1> HIDE DEF n, a, b
<1>4. /\ t \in Seq(S) /\ Len(t) = Len(a) + Len(b) /\ DOMAIN t = 1..Len(t)
      /\ \A j \in 1..Len(a) : t[j] = a[j]
      /\ \A j \in 1..Len(b) : t[Len(a) + j] = b[j]
  <2>1. a \in Seq(S) /\ b \in Seq(S)
    BY <1>2
  <2>2. /\ a \o b \in Seq(S) /\ Len(a \o b) = Len(a) + Len(b)
        /\ DOMAIN (a \o b) = 1..Len(a \o b)
        /\ \A j \in 1..Len(a) : (a \o b)[j] = a[j]
        /\ \A j \in 1..Len(b) : (a \o b)[Len(a) + j] = b[j]
    BY <2>1, ConcatAt
  <2>3. QED
    BY <1>3, <2>2
<1>5. Len(t) = n - 1 /\ DOMAIN t = 1..n-1
  <2>1. Len(t) = (i - 1) + (n - i)
    BY <1>2, <1>4
  <2>2. (i - 1) + (n - i) = n - 1
    BY <1>1
  <2>3. Len(t) = n - 1
    BY <2>1, <2>2
  <2>4. QED
    BY <1>4, <2>3
<1>6. ASSUME NEW j \in 1..n-1
      PROVE  t[j] = IF j < i THEN s[j] ELSE s[j+1]
  <2>1. CASE j < i
    <3>1. j \in 1..i-1
      BY <1>1, <2>1
    <3>2. QED
      BY <1>2, <1>4, <2>1, <3>1
  <2>2. CASE ~(j < i)
    <3> DEFINE l == j - (i - 1)
    <3>1. l \in 1..n-i /\ (i - 1) + l = j /\ i + l = j + 1
      BY <1>1, <2>2
    <3> HIDE DEF l
    <3>2. t[(i - 1) + l] = b[l]
      BY <1>2, <1>4, <3>1
    <3>3. b[l] = s[i + l]
      BY <1>2, <3>1
    <3>4. QED
      BY <2>2, <3>1, <3>2, <3>3
  <2>3. QED
    BY <2>1, <2>2
<1> DEFINE at == [j \in 1..n-1 |-> IF j < i THEN j ELSE j + 1]
<1>7. /\ \A j \in 1..n-1 : at[j] \in 1..n /\ at[j] # i
      /\ \A j, l \in 1..n-1 : at[j] = at[l] => j = l
      /\ \A j \in 1..n : j # i => \E l \in 1..n-1 : at[l] = j
  <2>1. \A j \in 1..n-1 : at[j] \in 1..n /\ at[j] # i
    BY <1>1
  <2>2. \A j, l \in 1..n-1 : at[j] = at[l] => j = l
    BY <1>1
  <2>3. ASSUME NEW j \in 1..n, j # i
        PROVE  \E l \in 1..n-1 : at[l] = j
    <3>1. CASE j < i
      <4>1. j \in 1..n-1 /\ at[j] = j
        BY <1>1, <3>1
      <4>2. QED
        BY <4>1
    <3>2. CASE j > i
      <4>1. j - 1 \in 1..n-1 /\ at[j-1] = j
        BY <1>1, <3>2
      <4>2. QED
        BY <4>1
    <3>3. QED
      BY <1>1, <2>3, <3>1, <3>2
  <2>4. QED
    BY <2>1, <2>2, <2>3
<1>8. \A j \in 1..n-1 : t[j] = s[at[j]]
  BY <1>6
<1> HIDE DEF at
<1>9. IsInjective(t)
  <2>1. SUFFICES ASSUME NEW j \in 1..n-1, NEW l \in 1..n-1, t[j] = t[l]
                 PROVE  j = l
    BY <1>5 DEF IsInjective
  <2>2. s[at[j]] = s[at[l]] /\ at[j] \in 1..n /\ at[l] \in 1..n
    BY <1>7, <1>8, <2>1
  <2>3. at[j] = at[l]
    BY <1>1, <2>2 DEF IsInjective
  <2>4. QED
    BY <1>7, <2>3
<1>10. ToSet(t) = ToSet(s) \ {s[i]}
  <2>1. ASSUME NEW j \in 1..n-1
        PROVE  t[j] \in ToSet(s) /\ t[j] # s[i]
    <3>1. t[j] = s[at[j]] /\ at[j] \in 1..n /\ at[j] # i
      BY <1>7, <1>8
    <3>2. QED
      BY <1>1, <3>1 DEF ToSet, IsInjective
  <2>2. ASSUME NEW j \in 1..n, s[j] # s[i]
        PROVE  s[j] \in ToSet(t)
    <3>1. PICK l \in 1..n-1 : at[l] = j
      BY <1>7, <2>2
    <3>2. QED
      BY <1>5, <1>8, <3>1 DEF ToSet
  <2>3. ToSet(t) \subseteq ToSet(s) \ {s[i]}
    BY <1>5, <2>1 DEF ToSet
  <2>4. ToSet(s) \ {s[i]} \subseteq ToSet(t)
    BY <1>1, <2>2 DEF ToSet
  <2>5. QED
    BY <2>3, <2>4
<1>11. QED
  BY <1>4, <1>5, <1>6, <1>9, <1>10 DEF n

-----------------------------------------------------------------------------
(* The table.                                                                *)

\* A table of n buckets holds each element of k, a function from elements to
\* keys, once, in the bucket of its key.
Filled(bs, n, k) ==
    /\ bs \in [0..n-1 -> [chain : Seq(DOMAIN k), mult : Nat]]
    /\ \A b \in 0..n-1 :
          /\ IsInjective(bs[b].chain)
          /\ \A e \in ToSet(bs[b].chain) : ToBucket(k[e], n) = b
    /\ \A e \in DOMAIN k : e \in ToSet(bs[ToBucket(k[e], n)].chain)

Table(t, k) ==
    /\ t = [buckets |-> t.buckets, tail |-> t.tail, items |-> t.items,
            nonideal |-> t.nonideal, ineff |-> t.ineff, noexpand |-> t.noexpand]
    /\ \E n \in Nat \ {0} : Filled(t.buckets, n, k)

LEMMA BucketNo ==
  ASSUME NEW key \in Keys, NEW n \in Nat \ {0}
  PROVE  ToBucket(key, n) \in 0..n-1
BY HashAssumption DEF ToBucket

LEMMA BucketCount ==
  ASSUME NEW n \in Nat \ {0}, NEW t, NEW k, Filled(t.buckets, n, k)
  PROVE  NumBuckets(t) = n
<1>1. DOMAIN t.buckets = 0..n-1
  BY DEF Filled
<1>2. Cardinality(0..n-1) = n
  <2>1. 0 \in Int /\ n - 1 \in Int /\ ~(0 > n - 1) /\ n - 1 - 0 + 1 = n
    OBVIOUS
  <2>2. QED
    BY <2>1, FS_Interval
<1>3. QED
  BY <1>1, <1>2 DEF NumBuckets

LEMMA EmptyFilled ==
  ASSUME NEW n \in Nat \ {0}, NEW k, DOMAIN k = {}
  PROVE  Filled(EmptyBuckets(n), n, k)
<1>1. /\ <<>> \in Seq(DOMAIN k) /\ IsInjective(<<>>) /\ ToSet(<<>>) = {}
  BY DEF IsInjective, ToSet
<1>2. \A b \in 0..n-1 : EmptyBuckets(n)[b] = [chain |-> <<>>, mult |-> 0]
  BY DEF EmptyBuckets, Bucket
<1>3. EmptyBuckets(n) \in [0..n-1 -> [chain : Seq(DOMAIN k), mult : Nat]]
  BY <1>1 DEF EmptyBuckets, Bucket
<1>4. QED
  BY <1>1, <1>2, <1>3 DEF Filled

LEMMA FilledSame ==
  ASSUME NEW n, NEW bs, NEW k, Filled(bs, n, k), NEW r, DOMAIN r = DOMAIN k,
         \A e \in DOMAIN k : r[e] = k[e]
  PROVE  Filled(bs, n, r)
<1>1. ASSUME NEW b \in 0..n-1
      PROVE  \A e \in ToSet(bs[b].chain) : ToBucket(r[e], n) = b
  <2>1. bs[b] \in [chain : Seq(DOMAIN k), mult : Nat]
    BY DEF Filled
  <2>2. ToSet(bs[b].chain) \subseteq DOMAIN k
    BY <2>1 DEF ToSet
  <2>3. QED
    BY <2>2 DEF Filled
<1>2. QED
  BY <1>1 DEF Filled

\* An element put in front of its chain.
LEMMA FilledPut ==
  ASSUME NEW n \in Nat \ {0}, NEW bs, NEW k, Filled(bs, n, k), NEW e, e \notin DOMAIN k,
         NEW r, DOMAIN r = DOMAIN k \cup {e}, \A f \in DOMAIN k : r[f] = k[f],
         r[e] \in Keys, NEW m \in Nat,
         NEW cs, cs = [bs EXCEPT ![ToBucket(r[e], n)] =
                          [chain |-> <<e>> \o bs[ToBucket(r[e], n)].chain, mult |-> m]]
  PROVE  Filled(cs, n, r)
<1> DEFINE c == ToBucket(r[e], n)
           s == bs[c].chain
           u == <<e>> \o s
<1>1. c \in 0..n-1
  BY BucketNo
<1>2. /\ DOMAIN bs = 0..n-1 /\ s \in Seq(DOMAIN k) /\ IsInjective(s)
      /\ \A b \in 0..n-1 : bs[b] \in [chain : Seq(DOMAIN k), mult : Nat]
  BY <1>1 DEF Filled
<1>3. /\ s \in Seq(DOMAIN r)
      /\ \A b \in 0..n-1 : bs[b] \in [chain : Seq(DOMAIN r), mult : Nat]
  <2>1. Seq(DOMAIN k) \subseteq Seq(DOMAIN r)
    OBVIOUS
  <2>2. QED
    BY <1>2, <2>1
<1>4. u \in Seq(DOMAIN r) /\ IsInjective(u) /\ ToSet(u) = {e} \cup ToSet(s)
  <2>1. <<e>> \in Seq(DOMAIN r) /\ IsInjective(<<e>>) /\ ToSet(<<e>>) = {e}
    BY DEF IsInjective, ToSet
  <2>2. e \notin ToSet(s)
    BY <1>2 DEF ToSet
  <2> HIDE DEF s
  <2>3. ToSet(<<e>>) \cap ToSet(s) = {}
    BY <2>1, <2>2
  <2>4. s \in Seq(DOMAIN r) /\ IsInjective(s)
    BY <1>2, <1>3
  <2> DEFINE h == <<e>>
             D == DOMAIN r
  <2>5. h \in Seq(D) /\ IsInjective(h) /\ ToSet(h) = {e} /\ u = h \o s
    BY <2>1
  <2>6. ToSet(h) \cap ToSet(s) = {}
    BY <2>3
  <2>7. s \in Seq(D) /\ IsInjective(s)
    BY <2>4
  <2> HIDE DEF h, D, u
  <2>8. h \o s \in Seq(D) /\ IsInjective(h \o s) /\ ToSet(h \o s) = ToSet(h) \cup ToSet(s)
    BY <2>5, <2>6, <2>7, ConcatDistinct
  <2>9. QED
    BY <2>5, <2>8 DEF D
<1>5. /\ cs[c].chain = u /\ cs[c] = [chain |-> u, mult |-> m]
      /\ \A b \in 0..n-1 : b # c => cs[b] = bs[b]
      /\ cs = [b \in 0..n-1 |-> IF b = c THEN [chain |-> u, mult |-> m] ELSE bs[b]]
  BY <1>1, <1>2
<1> HIDE DEF c, s, u
<1>6. cs \in [0..n-1 -> [chain : Seq(DOMAIN r), mult : Nat]]
  BY <1>3, <1>4, <1>5
<1>7. ASSUME NEW b \in 0..n-1
      PROVE  /\ IsInjective(cs[b].chain)
             /\ \A f \in ToSet(cs[b].chain) : ToBucket(r[f], n) = b
  <2>1. /\ IsInjective(bs[b].chain) /\ ToSet(bs[b].chain) \subseteq DOMAIN k
        /\ \A f \in ToSet(bs[b].chain) : ToBucket(r[f], n) = b
    <3>1. ToSet(bs[b].chain) \subseteq DOMAIN k
      BY <1>2 DEF ToSet
    <3>2. QED
      BY <3>1 DEF Filled
  <2>2. CASE b = c
    BY <1>4, <1>5, <2>1, <2>2 DEF s, c
  <2>3. CASE b # c
    BY <1>5, <2>1, <2>3
  <2>4. QED
    BY <2>2, <2>3
<1>8. ASSUME NEW f \in DOMAIN r
      PROVE  f \in ToSet(cs[ToBucket(r[f], n)].chain)
  <2>1. CASE f = e
    BY <1>4, <1>5, <2>1 DEF c
  <2>2. CASE f \in DOMAIN k
    <3> DEFINE b == ToBucket(r[f], n)
    <3>1. f \in ToSet(bs[b].chain)
      BY <2>2 DEF Filled
    <3>2. b \in DOMAIN bs \/ b \notin DOMAIN bs
      OBVIOUS
    <3>3. CASE b = c
      BY <1>4, <1>5, <3>1, <3>3 DEF s
    <3>4. CASE b # c
      BY <1>5, <3>1, <3>4, <1>2
    <3>5. QED
      BY <3>3, <3>4
  <2>3. QED
    BY <2>1, <2>2
<1>9. QED
  BY <1>6, <1>7, <1>8 DEF Filled

\* An element taken out of its chain.
LEMMA FilledTake ==
  ASSUME NEW n \in Nat \ {0}, NEW bs, NEW k, Filled(bs, n, k), NEW e \in DOMAIN k,
         NEW r, DOMAIN r = DOMAIN k \ {e}, \A f \in DOMAIN r : r[f] = k[f],
         \A f \in DOMAIN k : k[f] \in Keys,
         NEW cs, cs = [bs EXCEPT ![ToBucket(k[e], n)].chain = RemoveFirst(@, e)]
  PROVE  Filled(cs, n, r)
<1> DEFINE c == ToBucket(k[e], n)
           s == bs[c].chain
           u == RemoveFirst(s, e)
<1>1. c \in 0..n-1
  BY BucketNo
<1>2. /\ DOMAIN bs = 0..n-1 /\ s \in Seq(DOMAIN k) /\ IsInjective(s) /\ e \in ToSet(s)
      /\ \A b \in 0..n-1 : bs[b] \in [chain : Seq(DOMAIN k), mult : Nat]
  BY <1>1 DEF Filled
<1>3. \A b \in 0..n-1 :
         /\ IsInjective(bs[b].chain) /\ ToSet(bs[b].chain) \subseteq DOMAIN k
         /\ \A f \in ToSet(bs[b].chain) : ToBucket(k[f], n) = b
  <2>1. ASSUME NEW b \in 0..n-1
        PROVE  ToSet(bs[b].chain) \subseteq DOMAIN k
    <3>1. bs[b].chain \in Seq(DOMAIN k)
      BY <1>2
    <3>2. QED
      BY <3>1 DEF ToSet
  <2>2. QED
    BY <2>1 DEF Filled
<1>4. u \in Seq(DOMAIN k) /\ IsInjective(u) /\ ToSet(u) = ToSet(s) \ {e}
  <2>1. PICK i \in 1..Len(s) : s[i] = e
    BY <1>2 DEF ToSet
  <2>2. s \in Seq(DOMAIN k) /\ IsInjective(s)
    BY <1>2
  <2> HIDE DEF s
  <2>3. u = RemoveAt(s, i)
    BY <2>1, <2>2, RemoveFirstIs
  <2> HIDE DEF u
  <2> DEFINE D == DOMAIN k
  <2>4. s \in Seq(D) /\ IsInjective(s) /\ i \in 1..Len(s)
    BY <2>1, <2>2
  <2> HIDE DEF D
  <2>5. u \in Seq(D) /\ IsInjective(u) /\ ToSet(u) = ToSet(s) \ {s[i]}
    BY <2>3, <2>4, WithoutItem
  <2>6. QED
    BY <2>1, <2>5 DEF D
<1>5. ASSUME NEW t \in Seq(DOMAIN k), e \notin ToSet(t)
      PROVE  t \in Seq(DOMAIN r)
  <2>1. \A i \in 1..Len(t) : t[i] \in DOMAIN r
    BY <1>5 DEF ToSet
  <2>2. QED
    BY <2>1
<1>6. /\ cs[c].chain = u /\ cs[c] = [chain |-> u, mult |-> bs[c].mult]
      /\ \A b \in 0..n-1 : b # c => cs[b] = bs[b]
      /\ cs = [b \in 0..n-1 |-> IF b = c THEN [chain |-> u, mult |-> bs[c].mult] ELSE bs[b]]
  <2>1. bs[c] = [chain |-> bs[c].chain, mult |-> bs[c].mult]
    BY <1>1, <1>2
  <2>2. [bs[c] EXCEPT !.chain = RemoveFirst(@, e)]
            = [chain |-> RemoveFirst(bs[c].chain, e), mult |-> bs[c].mult]
    BY <2>1
  <2>4. cs = [bs EXCEPT ![c] = [bs[c] EXCEPT !.chain = RemoveFirst(@, e)]]
    OBVIOUS
  <2>5. cs = [bs EXCEPT ![c] = [chain |-> u, mult |-> bs[c].mult]]
    BY <2>2, <2>4
  <2> DEFINE w == [chain |-> u, mult |-> bs[c].mult]
  <2>6. cs = [bs EXCEPT ![c] = w] /\ w.chain = u
    BY <2>5
  <2>7. c \in 0..n-1 /\ DOMAIN bs = 0..n-1
    BY <1>1, <1>2
  <2> HIDE DEF u, s, c, w
  <2>8. /\ cs[c] = w /\ \A b \in 0..n-1 : b # c => cs[b] = bs[b]
        /\ cs = [b \in 0..n-1 |-> IF b = c THEN w ELSE bs[b]]
    BY <2>6, <2>7
  <2>9. QED
    BY <2>6, <2>8 DEF w
<1>7. \A b \in 0..n-1 : b # c => e \notin ToSet(bs[b].chain)
  BY <1>3
<1> HIDE DEF c, s, u
<1>8. u \in Seq(DOMAIN r) /\ \A b \in 0..n-1 : b # c => bs[b].chain \in Seq(DOMAIN r)
  BY <1>2, <1>4, <1>5, <1>7
<1>9. cs \in [0..n-1 -> [chain : Seq(DOMAIN r), mult : Nat]]
  <2>1. \A b \in 0..n-1 : b # c => bs[b] \in [chain : Seq(DOMAIN r), mult : Nat]
    BY <1>2, <1>8
  <2>2. [chain |-> u, mult |-> bs[c].mult] \in [chain : Seq(DOMAIN r), mult : Nat]
    BY <1>1, <1>2, <1>8
  <2>3. QED
    BY <1>6, <2>1, <2>2
<1>10. ASSUME NEW b \in 0..n-1
       PROVE  /\ IsInjective(cs[b].chain)
              /\ \A f \in ToSet(cs[b].chain) : ToBucket(r[f], n) = b
  <2>1. CASE b = c
    BY <1>3, <1>4, <1>6, <2>1 DEF s
  <2>2. CASE b # c
    <3>1. cs[b] = bs[b] /\ e \notin ToSet(bs[b].chain)
      BY <1>6, <1>7, <2>2
    <3>2. QED
      BY <1>3, <3>1
  <2>3. QED
    BY <2>1, <2>2
<1>11. ASSUME NEW f \in DOMAIN r
       PROVE  f \in ToSet(cs[ToBucket(r[f], n)].chain)
  <2> DEFINE b == ToBucket(r[f], n)
  <2>1. f \in ToSet(bs[b].chain) /\ b \in 0..n-1 /\ f # e
    BY BucketNo DEF Filled
  <2> SUFFICES f \in ToSet(cs[b].chain)
    OBVIOUS
  <2> HIDE DEF b
  <2>2. CASE b = c
    BY <1>4, <1>6, <2>1, <2>2 DEF s
  <2>3. CASE b # c
    <3>1. cs[b] = bs[b]
      BY <1>6, <2>1, <2>3
    <3>2. QED
      BY <2>1, <3>1
  <2>4. QED
    BY <2>2, <2>3
<1>12. QED
  BY <1>9, <1>10, <1>11 DEF Filled

\* What the elements are moved into while a table is expanded, i of them having
\* been moved.
Moving(acc, n, k) ==
    /\ acc = [buckets |-> acc.buckets, nonideal |-> acc.nonideal, ideal |-> acc.ideal]
    /\ Filled(acc.buckets, n, k)

LEMMA RehashMoves ==
  ASSUME NEW n \in Nat \ {0}, NEW acc, NEW k, Moving(acc, n, k), NEW e, e \notin DOMAIN k,
         NEW r, DOMAIN r = DOMAIN k \cup {e}, \A f \in DOMAIN k : r[f] = k[f],
         r[e] \in Keys, els'[e].key = r[e]
  PROVE  Moving(Rehash(acc, e), n, r)
<1> DEFINE c == ToBucket(r[e], n)
           b == acc.buckets[c]
           long == Len(b.chain) + 1 > acc.ideal
           m == IF long /\ Len(b.chain) + 1 > b.mult * acc.ideal THEN b.mult + 1 ELSE b.mult
           w == [chain |-> <<e>> \o b.chain, mult |-> m]
<1>1. DOMAIN acc.buckets = 0..n-1 /\ Cardinality(DOMAIN acc.buckets) = n
  <2>1. Filled(acc.buckets, n, k)
    BY DEF Moving
  <2>2. QED
    BY <2>1, BucketCount DEF NumBuckets, Filled
<1>2. c \in 0..n-1
  BY BucketNo
<1>3. b.mult \in Nat
  <2>1. b \in [chain : Seq(DOMAIN k), mult : Nat]
    BY <1>2 DEF Moving, Filled
  <2>2. QED
    BY <2>1
<1>4. m \in Nat
  <2> HIDE DEF b, long
  <2>1. b.mult + 1 \in Nat
    BY <1>3
  <2>2. QED
    BY <1>3, <2>1
<1>5. Rehash(acc, e) =
        [acc EXCEPT !.buckets[c] = w, !.nonideal = IF long THEN @ + 1 ELSE @]
  BY <1>1 DEF Rehash
<1> DEFINE v == Rehash(acc, e)
<1>6. v = [buckets |-> [acc.buckets EXCEPT ![c] = w],
           nonideal |-> IF long THEN acc.nonideal + 1 ELSE acc.nonideal,
           ideal |-> acc.ideal]
  <2>1. acc = [buckets |-> acc.buckets, nonideal |-> acc.nonideal, ideal |-> acc.ideal]
    BY DEF Moving
  <2> HIDE DEF c, w, long
  <2>2. QED
    BY <1>5, <2>1
<1> HIDE DEF v
<1>7. v.buckets = [acc.buckets EXCEPT ![c] = w]
  BY <1>6
<1>8. Filled(acc.buckets, n, k)
  BY DEF Moving
<1> DEFINE bs == acc.buckets
           cs == v.buckets
<1>9. Filled(v.buckets, n, r)
  <2>1. Filled(bs, n, k) /\ m \in Nat
    BY <1>4, <1>8
  <2>2. cs = [bs EXCEPT ![ToBucket(r[e], n)] =
                  [chain |-> <<e>> \o bs[ToBucket(r[e], n)].chain, mult |-> m]]
    BY <1>7
  <2>3. r[e] \in Keys /\ e \notin DOMAIN k
    OBVIOUS
  <2> HIDE DEF m, bs, cs
  <2>4. Filled(cs, n, r)
    BY <2>1, <2>2, <2>3, FilledPut
  <2>5. QED
    BY <2>4 DEF cs
<1>10. v = [buckets |-> v.buckets, nonideal |-> v.nonideal, ideal |-> v.ideal]
  BY <1>6
<1>11. QED
  BY <1>9, <1>10 DEF Moving, v

\* The values a table goes through.
Moves(f, start, s, n) ==
    f = [i \in 0..n |-> IF i = 0 THEN start ELSE Rehash(f[i-1], s[i])]

LEMMA MovedSteps ==
  ASSUME NEW start, NEW s, NEW n \in Nat
  PROVE  \E f : Moves(f, start, s, n)
<1> DEFINE Is(f, m) == f = [i \in 0..m |-> IF i = 0 THEN start ELSE Rehash(f[i-1], s[i])]
           T == {m \in Nat : \E f : Is(f, m)}
<1>1. ASSUME NEW f, NEW m \in Nat, Is(f, m)
      PROVE  \E g : Is(g, m + 1)
  <2> DEFINE g == [i \in 0..m+1 |-> IF i \in 0..m THEN f[i] ELSE Rehash(f[m], s[i])]
  <2>1. ASSUME NEW i \in 0..m+1
        PROVE  g[i] = IF i = 0 THEN start ELSE Rehash(g[i-1], s[i])
    <3>1. CASE i \in 0..m
      <4>1. g[i] = f[i] /\ f[i] = IF i = 0 THEN start ELSE Rehash(f[i-1], s[i])
        BY <1>1, <3>1
      <4>2. i # 0 => i - 1 \in 0..m /\ i - 1 \in 0..m+1
        BY <3>1
      <4>3. i # 0 => g[i-1] = f[i-1]
        BY <4>2
      <4>4. QED
        BY <4>1, <4>3
    <3>2. CASE i = m + 1
      <4>1. i # 0 /\ i - 1 = m /\ m \in 0..m /\ m \in 0..m+1 /\ i \notin 0..m
        BY <3>2
      <4>2. g[m] = f[m] /\ g[i] = Rehash(f[m], s[i])
        BY <4>1
      <4>3. QED
        BY <4>1, <4>2
    <3>3. QED
      BY <3>1, <3>2
  <2>2. g = [i \in 0..m+1 |-> g[i]]
    OBVIOUS
  <2> HIDE DEF g
  <2>3. QED
    BY <2>1, <2>2
<1>2. 0 \in T
  <2>1. Is([i \in 0..0 |-> start], 0)
    OBVIOUS
  <2>2. QED
    BY <2>1
<1>3. ASSUME NEW m \in 0..n-1, m \in T
      PROVE  m + 1 \in T
  <2>1. PICK f : Is(f, m)
    BY <1>3
  <2>2. m \in Nat /\ m + 1 \in Nat
    OBVIOUS
  <2> HIDE DEF Is
  <2>3. \E g : Is(g, m + 1)
    BY <1>1, <2>1, <2>2
  <2>4. QED
    BY <2>2, <2>3
<1> HIDE DEF T
<1>4. 0..n \subseteq T
  BY <1>2, <1>3, UpTo
<1>5. n \in T
  BY <1>4
<1>6. QED
  BY <1>5 DEF T, Moves

\* All elements, moved one by one.
LEMMA MovedAll ==
  ASSUME NEW n \in Nat \ {0}, NEW k, \A e \in DOMAIN k : k[e] \in Keys /\ els'[e].key = k[e],
         NEW s \in Seq(DOMAIN k), IsInjective(s), ToSet(s) = DOMAIN k,
         NEW f, NEW start, Moves(f, start, s, Len(s)),
         start = [buckets |-> EmptyBuckets(n), nonideal |-> start.nonideal,
                  ideal |-> start.ideal]
  PROVE  Moving(f[Len(s)], n, k)
<1> DEFINE l == Len(s)
           up(i) == [e \in {s[j] : j \in 1..i} |-> k[e]]
           T == {i \in Nat : i \in 0..l => Moving(f[i], n, up(i))}
<1>1. l \in Nat /\ DOMAIN s = 1..l /\ \A i \in 1..l : s[i] \in DOMAIN k
  OBVIOUS
<1>2. f[0] = start /\ \A i \in 1..l : f[i] = Rehash(f[i-1], s[i])
  <2>1. 0 \in 0..l /\ \A i \in 1..l : i \in 0..l /\ i # 0
    BY <1>1
  <2>2. QED
    BY <2>1 DEF Moves
<1> HIDE DEF l
<1>3. Moving(f[0], n, up(0))
  <2>1. DOMAIN up(0) = {}
    OBVIOUS
  <2> HIDE DEF up
  <2>2. Filled(EmptyBuckets(n), n, up(0))
    BY <2>1, EmptyFilled
  <2>3. start.buckets = EmptyBuckets(n)
    OBVIOUS
  <2>4. QED
    BY <1>2, <2>2, <2>3 DEF Moving
<1>4. ASSUME NEW i \in 0..l-1, Moving(f[i], n, up(i))
      PROVE  Moving(f[i+1], n, up(i+1))
  <2> DEFINE e == s[i+1]
             g == f[i]
             p == up(i)
             r == up(i+1)
  <2>1. i \in Nat /\ i + 1 \in 1..l /\ i + 1 - 1 = i /\ 1..i+1 = 1..i \cup {i+1}
        /\ \A j \in 1..i : j \in 1..l /\ j # i + 1
    BY <1>1
  <2>2. f[i+1] = Rehash(g, e)
    <3> DEFINE m == i + 1
    <3>1. m \in 1..l /\ m - 1 = i
      BY <2>1
    <3> HIDE DEF m
    <3>2. f[m] = Rehash(f[m-1], s[m])
      BY <1>2, <3>1
    <3>3. QED
      BY <3>1, <3>2 DEF m
  <2>3. DOMAIN r = DOMAIN p \cup {e}
    BY <2>1
  <2>4. e \notin DOMAIN p
    BY <1>1, <2>1 DEF IsInjective
  <2>5. /\ \A d \in DOMAIN p : d \in DOMAIN r /\ r[d] = k[d] /\ p[d] = k[d]
        /\ e \in DOMAIN k /\ r[e] = k[e]
    BY <1>1, <2>1, <2>3
  <2>6. Moving(g, n, p)
    BY <1>4
  <2> HIDE DEF e, g, p, r
  <2>7. r[e] \in Keys /\ els'[e].key = r[e] /\ \A d \in DOMAIN p : r[d] = p[d]
    BY <2>5
  <2>8. Moving(Rehash(g, e), n, r)
    BY <2>3, <2>4, <2>6, <2>7, RehashMoves
  <2>9. QED
    BY <2>2, <2>8 DEF r
<1>5. l \in T
  <2>1. 0 \in T
    BY <1>3
  <2>2. ASSUME NEW i \in 0..l-1, i \in T
        PROVE  i + 1 \in T
    <3>1. i \in Nat /\ i + 1 \in Nat /\ i \in 0..l
      BY <1>1
    <3> HIDE DEF up
    <3>2. Moving(f[i], n, up(i))
      BY <2>2, <3>1
    <3>3. Moving(f[i+1], n, up(i+1))
      BY <1>4, <3>2
    <3>4. QED
      BY <3>1, <3>3
  <2> HIDE DEF T
  <2>3. 0..l \subseteq T
    BY <1>1, <2>1, <2>2, UpTo
  <2>4. QED
    BY <1>1, <2>3
<1>6. Moving(f[l], n, up(l))
  BY <1>1, <1>5
<1>7. up(l) = [e \in DOMAIN k |-> k[e]]
  <2>1. {s[j] : j \in 1..l} = DOMAIN k
    BY <1>1 DEF ToSet
  <2>2. QED
    BY <2>1
<1>8. DOMAIN up(l) = DOMAIN k /\ \A e \in DOMAIN k : up(l)[e] = k[e]
  BY <1>7
<1> HIDE DEF up
<1>9. Filled(f[l].buckets, n, up(l)) => Filled(f[l].buckets, n, k)
  BY <1>8, FilledSame
<1>10. QED
  BY <1>6, <1>9 DEF Moving, l

\* An expanded table holds what it held before.
LEMMA ExpandedTable ==
  ASSUME NEW t, NEW k, Table(t, k),
         \A e \in DOMAIN k : k[e] \in Keys /\ els'[e].key = k[e]
  PROVE  /\ Table(Expanded(t), k)
         /\ Expanded(t).items = t.items /\ Expanded(t).tail = t.tail
<1>1. PICK n \in Nat \ {0} : Filled(t.buckets, n, k)
  BY DEF Table
<1>2. NumBuckets(t) = n
  BY <1>1, BucketCount
<1> DEFINE D == DOMAIN k
           ss == [i \in 1..n |-> t.buckets[i - 1].chain]
           s == FlattenSeq(ss)
           start == [buckets |-> EmptyBuckets(2 * n), nonideal |-> 0,
                     ideal |-> t.items \div (2 * n) + IF t.items % (2 * n) # 0 THEN 1 ELSE 0]
           f == CHOOSE f : f = [i \in 0..Len(s) |->
                                   IF i = 0 THEN start ELSE Rehash(f[i-1], s[i])]
           acc == f[Len(s)]
           ineff == IF acc.nonideal > t.items \div 2 THEN t.ineff + 1 ELSE 0
<1>3. /\ \A i \in 1..n : ss[i] \in Seq(D) /\ IsInjective(ss[i])
      /\ \A i \in 1..n : \A e \in ToSet(ss[i]) : e \in D /\ ToBucket(k[e], n) = i - 1
      /\ \A e \in D : \E i \in 1..n : e \in ToSet(ss[i])
  <2>1. \A i \in 1..n : i - 1 \in 0..n-1 /\ ss[i] = t.buckets[i - 1].chain
    OBVIOUS
  <2>2. \A b \in 0..n-1 : t.buckets[b].chain \in Seq(D) /\ IsInjective(t.buckets[b].chain)
    BY <1>1 DEF Filled
  <2>3. ASSUME NEW i \in 1..n, NEW e \in ToSet(ss[i])
        PROVE  e \in D /\ ToBucket(k[e], n) = i - 1
    <3>1. ss[i] \in Seq(D)
      BY <2>1, <2>2
    <3>2. e \in D
      BY <3>1 DEF ToSet
    <3>3. ToBucket(k[e], n) = i - 1
      BY <1>1, <2>1 DEF Filled
    <3>4. QED
      BY <3>2, <3>3
  <2>4. ASSUME NEW e \in D
        PROVE  \E i \in 1..n : e \in ToSet(ss[i])
    <3> DEFINE b == ToBucket(k[e], n)
    <3>1. b \in 0..n-1 /\ e \in ToSet(t.buckets[b].chain)
      BY <1>1, BucketNo DEF Filled
    <3> HIDE DEF b
    <3>2. b + 1 \in 1..n /\ (b + 1) - 1 = b
      BY <3>1
    <3>3. ss[b + 1] = t.buckets[b].chain
      BY <3>2
    <3>4. QED
      BY <3>1, <3>2, <3>3
  <2>5. QED
    BY <2>1, <2>2, <2>3, <2>4
<1>4. ss \in [1..n -> Seq(D)]
  BY <1>3
<1>5. \A i, j \in 1..n : i # j => ToSet(ss[i]) \cap ToSet(ss[j]) = {}
  <2>1. SUFFICES ASSUME NEW i \in 1..n, NEW j \in 1..n, NEW e \in ToSet(ss[i]),
                        e \in ToSet(ss[j])
                 PROVE  i = j
    OBVIOUS
  <2>2. i - 1 = j - 1
    BY <1>3, <2>1
  <2>3. QED
    BY <2>2
<1> HIDE DEF ss, D
<1>6. s \in Seq(D) /\ IsInjective(s) /\ ToSet(s) = UNION {ToSet(ss[i]) : i \in 1..n}
  <2>1. \A i \in 1..n : IsInjective(ss[i])
    BY <1>3
  <2>2. QED
    BY <1>4, <1>5, <2>1, FlattenDistinct
<1>7. ToSet(s) = D
  BY <1>3, <1>6
<1> HIDE DEF s
<1>8. Len(s) \in Nat
  BY <1>6
<1>9. Moves(f, start, s, Len(s))
  <2> HIDE DEF start
  <2> DEFINE l == Len(s)
  <2>1. l \in Nat
    BY <1>8
  <2> HIDE DEF l
  <2>2. \E g : Moves(g, start, s, l)
    BY <2>1, MovedSteps
  <2>3. QED
    BY <2>2 DEF l, Moves
<1> HIDE DEF f
<1>10. 2 * n \in Nat \ {0}
  OBVIOUS
<1>11. start = [buckets |-> EmptyBuckets(2 * n), nonideal |-> start.nonideal,
                ideal |-> start.ideal]
  OBVIOUS
<1> HIDE DEF start
<1>12. Moving(acc, 2 * n, k)
  <2> DEFINE m == 2 * n
  <2>1. /\ m \in Nat \ {0} /\ s \in Seq(DOMAIN k) /\ IsInjective(s) /\ ToSet(s) = DOMAIN k
        /\ start = [buckets |-> EmptyBuckets(m), nonideal |-> start.nonideal,
                    ideal |-> start.ideal]
    BY <1>6, <1>7, <1>10, <1>11 DEF D
  <2> HIDE DEF m
  <2>2. Moving(f[Len(s)], m, k)
    BY <1>9, <2>1, MovedAll
  <2>3. QED
    BY <2>2 DEF m
<1>13. Expanded(t) = [t EXCEPT !.buckets = acc.buckets, !.nonideal = acc.nonideal,
                               !.ineff = ineff, !.noexpand = @ \/ ineff > 1]
  BY <1>2 DEF Expanded, f, start, s, ss
<1> HIDE DEF acc, ineff
<1>14. t = [buckets |-> t.buckets, tail |-> t.tail, items |-> t.items,
            nonideal |-> t.nonideal, ineff |-> t.ineff, noexpand |-> t.noexpand]
  BY DEF Table
<1> DEFINE x == t.noexpand \/ ineff > 1
<1>15. Expanded(t) = [buckets |-> acc.buckets, tail |-> t.tail, items |-> t.items,
                      nonideal |-> acc.nonideal, ineff |-> ineff, noexpand |-> x]
  <2>1. Expanded(t) = [t EXCEPT !.buckets = acc.buckets, !.nonideal = acc.nonideal,
                                !.ineff = ineff, !.noexpand = x]
    BY <1>13
  <2> HIDE DEF x
  <2>2. QED
    BY <1>14, <2>1
<1> HIDE DEF x
<1>16. Filled(acc.buckets, 2 * n, k)
  BY <1>12 DEF Moving
<1>17. Expanded(t).buckets = acc.buckets
  BY <1>15
<1>18. QED
  BY <1>10, <1>15, <1>16, <1>17 DEF Table

-----------------------------------------------------------------------------
(* The map.                                                                  *)

KeyOf == [e \in DOMAIN els |-> els[e].key]
Element == [key : Keys, prev : Nat, next : Nat]

\* The elements are those of s, which are linked both ways.
Listed(s) ==
    /\ s \in Seq(1..made) /\ IsInjective(s) /\ DOMAIN els = ToSet(s)
    /\ \A i \in 1..Len(s) :
          /\ els[s[i]] \in Element
          /\ els[s[i]].prev = IF i = 1 THEN Null ELSE s[i-1]
          /\ els[s[i]].next = IF i = Len(s) THEN Null ELSE s[i+1]
    /\ \A e, f \in DOMAIN els : els[e].key = els[f].key => e = f
    /\ head = IF Len(s) = 0 THEN Null ELSE s[1]
    /\ tbl.tail = IF Len(s) = 0 THEN Null ELSE s[Len(s)]

TableOK ==
    /\ head = Null => tbl = NoTable
    /\ head # Null => Table(tbl, KeyOf) /\ tbl.items = Cardinality(DOMAIN els)

\* The walk goes on where the element just met had its successor.
WalkOK ==
    /\ it \in [el : Nat, nx : Nat, met : Nat]
    /\ it # NoIterator => it.el # Null /\ it.met # Null
    /\ it.nx # Null => it.nx \in DOMAIN els
    /\ it.met \in DOMAIN els => els[it.met].next = it.nx

MapInv == made \in Nat /\ TableOK /\ WalkOK /\ \E s \in Seq(Nat) : Listed(s)

LEMMA ListedFacts ==
  ASSUME NEW s, Listed(s), made \in Nat
  PROVE  /\ s \in Seq(Nat) /\ Len(s) \in Nat /\ DOMAIN s = 1..Len(s)
         /\ \A i \in 1..Len(s) : s[i] \in 1..made /\ s[i] \in Nat /\ s[i] # Null
                                 /\ s[i] \in DOMAIN els
         /\ \A i, j \in 1..Len(s) : s[i] = s[j] => i = j
         /\ \A e \in DOMAIN els : \E i \in 1..Len(s) : s[i] = e
         /\ Null \notin DOMAIN els /\ (head = Null <=> Len(s) = 0)
         /\ IsFiniteSet(DOMAIN els) /\ Cardinality(DOMAIN els) = Len(s)
<1>1. s \in Seq(1..made) /\ IsInjective(s) /\ DOMAIN els = ToSet(s)
  BY DEF Listed
<1>2. Len(s) \in Nat /\ DOMAIN s = 1..Len(s) /\ \A i \in 1..Len(s) : s[i] \in 1..made
  BY <1>1
<1>3. \A e \in 1..made : e \in Nat /\ e # Null
  BY DEF Null
<1>4. s \in Seq(Nat)
  BY <1>1, <1>3
<1>5. /\ \A i \in 1..Len(s) : s[i] \in DOMAIN els
      /\ \A i, j \in 1..Len(s) : s[i] = s[j] => i = j
      /\ \A e \in DOMAIN els : \E i \in 1..Len(s) : s[i] = e
  BY <1>1, <1>2 DEF ToSet, IsInjective
<1>6. head = Null <=> Len(s) = 0
  <2>1. Len(s) # 0 => 1 \in 1..Len(s)
    BY <1>2
  <2>2. QED
    BY <1>2, <1>3, <2>1 DEF Listed
<1>7. IsFiniteSet(DOMAIN els) /\ Cardinality(DOMAIN els) = Len(s)
  <2>1. IsFiniteSet(1..Len(s)) /\ Cardinality(1..Len(s)) = Len(s)
    <3> DEFINE n == Len(s)
    <3>1. n \in Nat
      BY <1>2
    <3> HIDE DEF n
    <3>2. 1 \in Int /\ n \in Int /\ (IF 1 > n THEN 0 ELSE n - 1 + 1) = n
      BY <3>1
    <3>3. IsFiniteSet(1..n) /\ Cardinality(1..n) = IF 1 > n THEN 0 ELSE n - 1 + 1
      BY <3>2, FS_Interval
    <3>4. QED
      BY <3>2, <3>3 DEF n
  <2>2. ExistsBijection(1..Len(s), DOMAIN els)
    <3> DEFINE D == DOMAIN els
               n == Len(s)
    <3>1. s \in [1..n -> D]
      <4>1. s = [i \in 1..n |-> s[i]]
        BY <1>1, <1>2
      <4>2. QED
        BY <1>5, <4>1
    <3>2. /\ \A i, j \in 1..n : s[i] = s[j] => i = j
          /\ \A e \in D : \E i \in 1..n : s[i] = e
      BY <1>5
    <3> HIDE DEF D, n
    <3>3. s \in Bijection(1..n, D)
      <4>1. DOMAIN s = 1..n
        BY <3>1
      <4>2. QED
        BY <3>1, <3>2, <4>1 DEF Bijection, Injection, Surjection, IsInjective
    <3>4. QED
      BY <3>3 DEF ExistsBijection, n, D
  <2>3. QED
    BY <2>1, <2>2, FS_Bijection
<1>8. QED
  BY <1>2, <1>3, <1>4, <1>5, <1>6, <1>7

LEMMA ListedHead ==
  ASSUME made' \in Nat, NEW s, Listed(s)'
  PROVE  head' = Null <=> Len(s) = 0
<1>1. s \in Seq(1..made') /\ head' = IF Len(s) = 0 THEN Null ELSE s[1]
  BY DEF Listed
<1>2. Len(s) # 0 => s[1] \in 1..made'
  BY <1>1
<1>3. 0 \notin 1..made'
  OBVIOUS
<1>4. QED
  BY <1>1, <1>2, <1>3 DEF Null

\* Each element is found by its key and by no other one.
LEMMA FindIs ==
  ASSUME head # Null, Table(tbl, KeyOf), \A e \in DOMAIN els : els[e].key \in Keys,
         \A e, f \in DOMAIN els : els[e].key = els[f].key => e = f
  PROVE  /\ \A e \in DOMAIN els : Find(els[e].key) = e
         /\ \A k \in Keys : (\A e \in DOMAIN els : els[e].key # k) => Find(k) = Null
<1>1. PICK n \in Nat \ {0} : Filled(tbl.buckets, n, KeyOf)
  BY DEF Table
<1>2. NumBuckets(tbl) = n
  BY <1>1, BucketCount
<1>3. DOMAIN KeyOf = DOMAIN els /\ \A e \in DOMAIN els : KeyOf[e] = els[e].key
  BY DEF KeyOf
<1> SUFFICES ASSUME NEW k \in Keys
             PROVE  /\ \A e \in DOMAIN els : els[e].key = k => Find(k) = e
                    /\ (\A e \in DOMAIN els : els[e].key # k) => Find(k) = Null
  OBVIOUS
<1> DEFINE b == ToBucket(k, n)
           s == tbl.buckets[b].chain
           I == {i \in 1..Len(s) : els[s[i]].key = k}
<1>4. b \in 0..n-1
  BY BucketNo
<1>5. /\ s \in Seq(DOMAIN els) /\ IsInjective(s)
      /\ \A e \in DOMAIN els : els[e].key = k => e \in ToSet(s)
  BY <1>1, <1>3, <1>4 DEF Filled
<1>6. Find(k) = IF I = {} THEN Null ELSE IF Min(I) = 0 THEN Null ELSE s[Min(I)]
  <2>1. Find(k) = LET i == SelectInSeq(s, LAMBDA e : els[e].key = k)
                  IN  IF i = 0 THEN Null ELSE s[i]
    BY <1>2 DEF Find
  <2>2. SelectInSeq(s, LAMBDA e : els[e].key = k) = IF I # {} THEN Min(I) ELSE 0
    BY DEF SelectInSeq
  <2> HIDE DEF I, s
  <2>3. QED
    BY <2>1, <2>2
<1> HIDE DEF s
<1>7. DOMAIN s = 1..Len(s) /\ \A i \in 1..Len(s) : s[i] \in DOMAIN els
  BY <1>5
<1>8. ASSUME NEW e \in DOMAIN els, els[e].key = k
      PROVE  Find(k) = e
  <2>1. PICK i \in 1..Len(s) : s[i] = e
    BY <1>5, <1>7, <1>8 DEF ToSet
  <2>2. I = {i}
    <3>1. \A j \in 1..Len(s) : els[s[j]].key = k => j = i
      BY <1>5, <1>7, <1>8, <2>1 DEF IsInjective
    <3>2. QED
      BY <1>8, <2>1, <3>1
  <2>3. Min(I) = i /\ i # 0
    <3>1. i \in Int /\ i <= i /\ i # 0
      BY <2>1
    <3> HIDE DEF I
    <3>2. QED
      BY <2>2, <3>1 DEF Min
  <2>4. QED
    BY <1>6, <2>1, <2>2, <2>3
<1>9. ASSUME \A e \in DOMAIN els : els[e].key # k
      PROVE  Find(k) = Null
  <2>1. I = {}
    BY <1>7, <1>9
  <2>2. QED
    BY <1>6, <2>1
<1>10. QED
  BY <1>8, <1>9

\* An element linked behind the last one.
LEMMA LinkedListed ==
  ASSUME made \in Nat, NEW s, Listed(s), NEW k \in Keys, \A f \in DOMAIN els : els[f].key # k,
         NEW e, e = made + 1, els' = Linked(k, e), made' = e,
         head' = (IF head = Null THEN e ELSE head), tbl'.tail = e
  PROVE  /\ Listed(Append(s, e))'
         /\ DOMAIN els' = DOMAIN els \cup {e} /\ e \notin DOMAIN els /\ els'[e].key = k
         /\ \A f \in DOMAIN els : els'[f].key = els[f].key
<1> DEFINE n == Len(s)
           t == Append(s, e)
<1>1. /\ s \in Seq(Nat) /\ n \in Nat /\ DOMAIN s = 1..n
      /\ \A i \in 1..n : s[i] \in 1..made /\ s[i] \in Nat /\ s[i] # Null /\ s[i] \in DOMAIN els
      /\ \A i, j \in 1..n : s[i] = s[j] => i = j
      /\ \A f \in DOMAIN els : \E i \in 1..n : s[i] = f
      /\ Null \notin DOMAIN els /\ (head = Null <=> n = 0)
  BY ListedFacts
<1>2. /\ Len(t) = n + 1 /\ t \in Seq(Nat) /\ t[n+1] = e /\ \A i \in 1..n : t[i] = s[i]
      /\ DOMAIN t = 1..n+1
  BY <1>1
<1>3. n + 1 \in 1..n+1 /\ n + 1 # 0 /\ \A i \in 1..n+1 : i \in 1..n \/ i = n + 1
  BY <1>1
<1>4. e \in Nat /\ e # Null /\ e \notin 1..made /\ \A i \in 1..made : i \in 1..e
  BY DEF Null
<1>5. e \notin DOMAIN els
  BY <1>1, <1>4
<1>6. \A i \in 1..n :
         /\ els[s[i]] \in Element
         /\ els[s[i]].prev = IF i = 1 THEN Null ELSE s[i-1]
         /\ els[s[i]].next = IF i = n THEN Null ELSE s[i+1]
  BY DEF Listed
<1>7. tbl.tail = IF n = 0 THEN Null ELSE s[n]
  BY DEF Listed
<1>8. /\ DOMAIN els' = DOMAIN els \cup {e}
      /\ els'[e] = [key |-> k, prev |-> tbl.tail, next |-> Null]
      /\ \A f \in DOMAIN els :
            els'[f] = [els[f] EXCEPT !.next = IF f = tbl.tail THEN e ELSE @]
  BY <1>5 DEF Linked
<1> HIDE DEF n
<1>9. ASSUME NEW i \in 1..n
      PROVE  /\ els'[s[i]] \in Element /\ els'[s[i]].key = els[s[i]].key
             /\ els'[s[i]].prev = els[s[i]].prev
             /\ els'[s[i]].next = IF i = n THEN e ELSE s[i+1]
  <2>1. s[i] = tbl.tail <=> i = n
    BY <1>1, <1>7
  <2>2. els'[s[i]] = [els[s[i]] EXCEPT !.next = IF i = n THEN e ELSE @]
    BY <1>1, <1>8, <2>1
  <2>3. els[s[i]] \in [key : Keys, prev : Nat, next : Nat]
    BY <1>6 DEF Element
  <2>4. /\ els'[s[i]] \in [key : Keys, prev : Nat, next : Nat]
        /\ els'[s[i]].key = els[s[i]].key /\ els'[s[i]].prev = els[s[i]].prev
        /\ els'[s[i]].next = IF i = n THEN e ELSE els[s[i]].next
    BY <1>4, <2>2, <2>3
  <2>5. QED
    BY <1>6, <2>4 DEF Element
<1>10. /\ els'[e] \in Element /\ els'[e].key = k /\ els'[e].next = Null
       /\ els'[e].prev = IF n = 0 THEN Null ELSE s[n]
  <2>1. tbl.tail \in Nat
    <3>1. n # 0 => n \in 1..n
      BY <1>1
    <3>2. QED
      BY <1>1, <1>7, <3>1 DEF Null
  <2>2. QED
    BY <1>7, <1>8, <2>1 DEF Element, Null
<1> HIDE DEF t
<1>11. ASSUME NEW i \in 1..n+1
       PROVE  /\ els'[t[i]] \in Element
              /\ els'[t[i]].prev = IF i = 1 THEN Null ELSE t[i-1]
              /\ els'[t[i]].next = IF i = n + 1 THEN Null ELSE t[i+1]
  <2>1. CASE i \in 1..n
    <3>1. t[i] = s[i] /\ i # n + 1 /\ (i # 1 => i - 1 \in 1..n /\ t[i-1] = s[i-1])
      BY <1>1, <1>2, <2>1
    <3>2. t[i+1] = IF i = n THEN e ELSE s[i+1]
      <4>1. i # n => i + 1 \in 1..n
        BY <1>1, <2>1
      <4>2. QED
        BY <1>2, <4>1
    <3>3. QED
      BY <1>6, <1>9, <2>1, <3>1, <3>2
  <2>2. CASE i = n + 1
    <3>1. t[i] = e /\ (i = 1 <=> n = 0) /\ i - 1 = n
      BY <1>1, <1>2, <2>2
    <3>2. n # 0 => n \in 1..n /\ t[n] = s[n]
      BY <1>1, <1>2
    <3>3. QED
      BY <1>10, <2>2, <3>1, <3>2
  <2>3. QED
    BY <1>3, <2>1, <2>2
<1>12. /\ t \in Seq(1..e) /\ IsInjective(t) /\ DOMAIN els' = ToSet(t)
  <2>1. \A i \in 1..n+1 : t[i] \in 1..e
    <3>1. e \in 1..e
      BY <1>4 DEF Null
    <3>2. QED
      BY <1>1, <1>2, <1>3, <1>4, <3>1
  <2>2. t \in Seq(1..e)
    <3>1. t \in Seq(Nat) /\ DOMAIN t = 1..Len(t) /\ Len(t) = n + 1
      BY <1>2
    <3>2. QED
      BY <2>1, <3>1
  <2>3. \A i \in 1..n : t[i] # e
    BY <1>1, <1>2, <1>4
  <2>4. IsInjective(t)
    BY <1>1, <1>2, <1>3, <2>3 DEF IsInjective
  <2>5. ASSUME NEW f \in DOMAIN els'
        PROVE  f \in ToSet(t)
    <3>1. CASE f = e
      BY <1>2, <1>3, <3>1 DEF ToSet
    <3>2. CASE f \in DOMAIN els
      <4>1. PICK i \in 1..n : s[i] = f
        BY <1>1, <3>2
      <4>2. i \in 1..n+1 /\ t[i] = f
        BY <1>1, <1>2, <4>1
      <4>3. QED
        BY <1>2, <4>2 DEF ToSet
    <3>3. QED
      BY <1>8, <3>1, <3>2
  <2>6. ASSUME NEW i \in 1..n+1
        PROVE  t[i] \in DOMAIN els'
    BY <1>1, <1>2, <1>3, <1>8
  <2>7. QED
    BY <1>2, <2>2, <2>4, <2>5, <2>6 DEF ToSet
<1>13. /\ els'[e].key = k
       /\ \A f \in DOMAIN els : els'[f].key = els[f].key
  BY <1>1, <1>9, <1>10
<1>14. \A f, g \in DOMAIN els' : els'[f].key = els'[g].key => f = g
  <2>1. \A f, g \in DOMAIN els : els[f].key = els[g].key => f = g
    BY DEF Listed
  <2>2. QED
    BY <1>8, <1>13, <2>1
<1>15. head' = t[1]
  <2>1. CASE n = 0
    BY <1>1, <1>2, <2>1
  <2>2. CASE n # 0
    <3>1. n \in Nat
      BY <1>1
    <3>2. 1 \in 1..n
      BY <2>2, <3>1
    <3>3. head = s[1]
      BY <2>2 DEF Listed, n
    <3>4. QED
      BY <1>1, <1>2, <2>2, <3>2, <3>3
  <2>3. QED
    BY <2>1, <2>2
<1>16. Listed(t)'
  BY <1>2, <1>3, <1>11, <1>12, <1>14, <1>15 DEF Listed
<1>17. QED
  BY <1>5, <1>8, <1>13, <1>16 DEF t

\* An element taken out of the list.
CutOut(s, l) ==
    /\ els' = Without(s[l]) /\ made' = made
    /\ head' = IF Len(s) = 1 THEN Null
               ELSE IF els[s[l]].prev = Null THEN els[s[l]].next ELSE head
    /\ tbl'.tail = IF Len(s) = 1 THEN Null
                   ELSE IF tbl.tail = s[l] THEN els[s[l]].prev ELSE tbl.tail

\* What is left, the elements of t, and their links.
Remains(e, t) ==
    /\ Listed(t)'
    /\ DOMAIN els' = DOMAIN els \ {e}
    /\ \A f \in DOMAIN els' :
          /\ els'[f].key = els[f].key
          /\ els'[f].next = IF els[f].next = e THEN els[e].next ELSE els[f].next

LEMMA WithoutListed ==
  ASSUME made \in Nat, NEW s, Listed(s), NEW l \in 1..Len(s), NEW t, t = RemoveAt(s, l),
         CutOut(s, l)
  PROVE  Remains(s[l], t)
<1> DEFINE n == Len(s)
           e == s[l]
<1>1. /\ s \in Seq(Nat) /\ n \in Nat /\ DOMAIN s = 1..n
      /\ \A i \in 1..n : s[i] \in 1..made /\ s[i] \in Nat /\ s[i] # Null /\ s[i] \in DOMAIN els
      /\ \A i, j \in 1..n : s[i] = s[j] => i = j
      /\ \A f \in DOMAIN els : \E i \in 1..n : s[i] = f
      /\ Null \notin DOMAIN els /\ (head = Null <=> n = 0)
  BY ListedFacts
<1>2. /\ t \in Seq(1..made) /\ Len(t) = n - 1 /\ DOMAIN t = 1..n-1
      /\ \A j \in 1..n-1 : t[j] = IF j < l THEN s[j] ELSE s[j+1]
      /\ IsInjective(t) /\ ToSet(t) = ToSet(s) \ {s[l]}
  <2> DEFINE S == 1..made
  <2>1. s \in Seq(S) /\ IsInjective(s)
    BY DEF Listed
  <2> HIDE DEF S
  <2>2. /\ t \in Seq(S) /\ Len(t) = n - 1
        /\ \A j \in 1..n-1 : t[j] = IF j < l THEN s[j] ELSE s[j+1]
        /\ IsInjective(t) /\ ToSet(t) = ToSet(s) \ {s[l]}
    BY <2>1, WithoutItem, SMTT(30)
  <2> HIDE DEF n
  <2>3. DOMAIN t = 1..n-1
    BY <2>2
  <2>4. QED
    BY <2>2, <2>3 DEF S
<1>3. \A i \in 1..n :
         /\ els[s[i]] \in Element
         /\ els[s[i]].prev = IF i = 1 THEN Null ELSE s[i-1]
         /\ els[s[i]].next = IF i = n THEN Null ELSE s[i+1]
  BY DEF Listed
<1>4. n \in Nat /\ l \in 1..n /\ e \in DOMAIN els
  BY <1>1
<1>5. /\ DOMAIN els' = DOMAIN els \ {e}
      /\ \A f \in DOMAIN els \ {e} :
            els'[f] = [els[f] EXCEPT !.next = IF els[e].prev = f THEN els[e].next ELSE @,
                                     !.prev = IF els[e].next = f THEN els[e].prev ELSE @]
  BY DEF Without, CutOut
<1>6. ToSet(s) = DOMAIN els
  BY DEF Listed
<1> HIDE DEF n
<1>7. /\ els[e].prev = IF l = 1 THEN Null ELSE s[l-1]
      /\ els[e].next = IF l = n THEN Null ELSE s[l+1]
      /\ els[e] \in Element
  BY <1>3, <1>4
<1> HIDE DEF e
\* Who is whose neighbour.
<1>8. ASSUME NEW i \in 1..n, i # l
      PROVE  /\ els[e].prev = s[i] <=> i = l - 1
             /\ els[e].next = s[i] <=> i = l + 1
             /\ els[s[i]].next = e <=> i = l - 1
             /\ s[i] \in DOMAIN els \ {e}
  <2>1. l # 1 => l - 1 \in 1..n
    BY <1>4
  <2>2. l # n => l + 1 \in 1..n
    BY <1>4
  <2>3. els[e].prev = s[i] <=> i = l - 1
    <3>1. CASE l = 1
      <4>1. i # l - 1
        BY <3>1
      <4>2. QED
        BY <1>1, <1>7, <3>1, <4>1
    <3>2. CASE l # 1
      BY <1>1, <1>7, <2>1, <3>2
    <3>3. QED
      BY <3>1, <3>2
  <2>4. els[e].next = s[i] <=> i = l + 1
    <3>1. CASE l = n
      <4>1. i # l + 1
        BY <1>4, <3>1
      <4>2. QED
        BY <1>1, <1>7, <3>1, <4>1
    <3>2. CASE l # n
      BY <1>1, <1>7, <2>2, <3>2
    <3>3. QED
      BY <3>1, <3>2
  <2>5. els[s[i]].next = e <=> i = l - 1
    <3>1. CASE i = n
      <4>1. i # l - 1
        BY <1>4, <3>1
      <4>2. els[s[i]].next = Null /\ e # Null
        BY <1>1, <1>3, <1>4, <3>1 DEF e
      <4>3. QED
        BY <4>1, <4>2
    <3>2. CASE i # n
      <4>1. i + 1 \in 1..n /\ (i + 1 = l <=> i = l - 1)
        BY <1>4, <3>2
      <4>2. els[s[i]].next = s[i+1]
        BY <1>3, <3>2
      <4>3. s[i+1] = e <=> i + 1 = l
        BY <1>1, <1>4, <4>1 DEF e
      <4>4. QED
        BY <4>1, <4>2, <4>3
    <3>3. QED
      BY <3>1, <3>2
  <2>6. s[i] \in DOMAIN els \ {e}
    BY <1>1, <1>4, <1>8 DEF e
  <2>7. QED
    BY <2>3, <2>4, <2>5, <2>6
<1>9. ASSUME NEW i \in 1..n, i # l
      PROVE  /\ els'[s[i]] \in Element /\ els'[s[i]].key = els[s[i]].key
             /\ els'[s[i]].next = IF i = l - 1 THEN els[e].next ELSE els[s[i]].next
             /\ els'[s[i]].prev = IF i = l + 1 THEN els[e].prev ELSE els[s[i]].prev
  <2>1. els'[s[i]] = [els[s[i]] EXCEPT !.next = IF i = l - 1 THEN els[e].next ELSE @,
                                       !.prev = IF i = l + 1 THEN els[e].prev ELSE @]
    BY <1>5, <1>8, <1>9
  <2>2. els[s[i]] \in [key : Keys, prev : Nat, next : Nat]
    BY <1>3 DEF Element
  <2>3. els[e] \in [key : Keys, prev : Nat, next : Nat]
    BY <1>7 DEF Element
  <2>4. els[e].next \in Nat /\ els[e].prev \in Nat
    BY <2>3
  <2> DEFINE nx == IF i = l - 1 THEN els[e].next ELSE els[s[i]].next
             pv == IF i = l + 1 THEN els[e].prev ELSE els[s[i]].prev
  <2>5. nx \in Nat /\ pv \in Nat
    BY <2>2, <2>4
  <2>6. els'[s[i]] = [els[s[i]] EXCEPT !.next = nx, !.prev = pv]
    BY <2>1
  <2> HIDE DEF nx, pv
  <2>7. /\ els'[s[i]] \in [key : Keys, prev : Nat, next : Nat]
        /\ els'[s[i]].key = els[s[i]].key /\ els'[s[i]].next = nx /\ els'[s[i]].prev = pv
    BY <2>2, <2>5, <2>6
  <2>8. QED
    BY <2>7 DEF Element, nx, pv
<1>10. ASSUME NEW j \in 1..n-1
       PROVE  /\ els'[t[j]] \in Element
              /\ els'[t[j]].prev = IF j = 1 THEN Null ELSE t[j-1]
              /\ els'[t[j]].next = IF j = n - 1 THEN Null ELSE t[j+1]
  <2>1. CASE j < l
    <3>1. /\ j \in 1..n /\ j # l /\ j # n /\ j # l + 1 /\ t[j] = s[j]
          /\ (j # 1 => j - 1 \in 1..n-1 /\ t[j-1] = s[j-1])
      <4>1. /\ j \in 1..n /\ j # l /\ j # n /\ j # l + 1
            /\ (j # 1 => j - 1 \in 1..n-1 /\ j - 1 < l)
        BY <1>4, <2>1
      <4>2. QED
        BY <1>2, <2>1, <4>1
    <3>2. els'[t[j]] \in Element /\ els'[t[j]].prev = IF j = 1 THEN Null ELSE t[j-1]
      BY <1>3, <1>9, <3>1
    <3>3. CASE j = l - 1
      <4>1. els'[t[j]].next = els[e].next
        BY <1>9, <3>1, <3>3
      <4>2. (l = n <=> j = n - 1) /\ j + 1 = l
        BY <1>4, <3>3
      <4>3. j # n - 1 => t[l] = s[l+1]
        <5>1. j # n - 1 => l \in 1..n-1 /\ ~(l < l)
          BY <1>4, <3>3
        <5>2. QED
          BY <1>2, <5>1
      <4>4. QED
        BY <1>7, <3>2, <4>1, <4>2, <4>3
    <3>4. CASE j # l - 1
      <4>1. els'[t[j]].next = s[j+1]
        BY <1>3, <1>9, <3>1, <3>4
      <4>2. j + 1 \in 1..n-1 /\ j + 1 < l /\ j # n - 1
        BY <1>4, <2>1, <3>4
      <4>3. t[j+1] = s[j+1]
        BY <1>2, <4>2
      <4>4. QED
        BY <3>2, <4>1, <4>2, <4>3
    <3>5. QED
      BY <3>3, <3>4
  <2>2. CASE ~(j < l)
    <3> DEFINE i == j + 1
    <3>1. i \in 1..n /\ i # l /\ i # l - 1 /\ i # 1 /\ t[j] = s[i] /\ i - 1 = j
          /\ (i = n <=> j = n - 1)
      <4>1. i \in 1..n /\ i # l /\ i # l - 1 /\ i # 1 /\ i - 1 = j /\ (i = n <=> j = n - 1)
        BY <1>4, <2>2
      <4>2. QED
        BY <1>2, <2>2, <4>1
    <3>2. j # n - 1 => t[j+1] = s[i+1]
      <4>1. j # n - 1 => j + 1 \in 1..n-1 /\ ~(j + 1 < l) /\ (j + 1) + 1 = i + 1
        BY <1>4, <2>2
      <4>2. QED
        BY <1>2, <4>1
    <3>3. i = l + 1 <=> j = l
      BY <1>4
    <3>4. j # l => t[j-1] = s[j] /\ j # 1
      <4>1. j # l => j - 1 \in 1..n-1 /\ ~(j - 1 < l) /\ (j - 1) + 1 = j /\ j # 1
        BY <1>4, <2>2
      <4>2. QED
        BY <1>2, <4>1
    <3>5. j = l /\ j # 1 => t[j-1] = s[l-1]
      <4>1. j = l /\ j # 1 => j - 1 \in 1..n-1 /\ j - 1 < l
        BY <1>4
      <4>2. QED
        BY <1>2, <4>1
    <3> HIDE DEF i
    <3>6. /\ els'[s[i]] \in Element
          /\ els'[s[i]].next = IF i = n THEN Null ELSE s[i+1]
          /\ els'[s[i]].prev = IF i = l + 1 THEN els[e].prev ELSE s[j]
      BY <1>3, <1>9, <3>1
    <3>7. els'[t[j]].next = IF j = n - 1 THEN Null ELSE t[j+1]
      BY <3>1, <3>2, <3>6
    <3>8. els'[t[j]].prev = IF j = 1 THEN Null ELSE t[j-1]
      BY <1>7, <3>1, <3>3, <3>4, <3>5, <3>6
    <3>9. QED
      BY <3>1, <3>6, <3>7, <3>8
  <2>3. QED
    BY <2>1, <2>2
<1>11. /\ \A f \in DOMAIN els' :
             /\ els'[f].key = els[f].key
             /\ els'[f].next = IF els[f].next = e THEN els[e].next ELSE els[f].next
  <2>1. SUFFICES ASSUME NEW f \in DOMAIN els \ {e}
                 PROVE  /\ els'[f].key = els[f].key
                        /\ els'[f].next = IF els[f].next = e THEN els[e].next ELSE els[f].next
    BY <1>5
  <2>2. PICK i \in 1..n : s[i] = f
    BY <1>1
  <2>3. i # l
    BY <2>2 DEF e
  <2>4. QED
    BY <1>8, <1>9, <2>2, <2>3
<1>12. DOMAIN els' = ToSet(t)
  BY <1>2, <1>5, <1>6 DEF e
<1>13. \A f, g \in DOMAIN els' : els'[f].key = els'[g].key => f = g
  BY <1>5, <1>11 DEF Listed
<1>14. head' = IF n - 1 = 0 THEN Null ELSE t[1]
  <2>1. CASE n = 1
    BY <2>1 DEF n, CutOut
  <2>2. CASE n # 1 /\ l = 1
    <3>1. 1 \in 1..n-1 /\ ~(1 < l) /\ n - 1 # 0 /\ l # n /\ 1 + 1 = l + 1
      BY <1>4, <2>2
    <3>2. t[1] = s[l+1]
      BY <1>2, <3>1
    <3>3. head' = els[e].next
      BY <1>7, <2>2 DEF e, n, CutOut
    <3>4. QED
      BY <1>7, <3>1, <3>2, <3>3
  <2>3. CASE n # 1 /\ l # 1
    <3>1. 1 \in 1..n-1 /\ 1 < l /\ n - 1 # 0 /\ n # 0 /\ l - 1 \in 1..n
      BY <1>4, <2>3
    <3>2. t[1] = s[1]
      BY <1>2, <3>1
    <3>3. els[e].prev # Null
      BY <1>1, <1>7, <2>3, <3>1
    <3>4. head' = head
      BY <2>3, <3>3 DEF e, n, CutOut
    <3>5. head = s[1]
      BY <3>1 DEF Listed, n
    <3>6. QED
      BY <3>1, <3>2, <3>4, <3>5
  <2>4. QED
    BY <2>1, <2>2, <2>3
<1>15. tbl'.tail = IF n - 1 = 0 THEN Null ELSE t[n-1]
  <2>1. CASE n = 1
    BY <2>1 DEF n, CutOut
  <2>2. CASE n # 1
    <3>1. n - 1 \in 1..n-1 /\ n - 1 # 0 /\ n # 0 /\ n \in 1..n /\ n - 1 + 1 = n
      BY <1>4, <2>2
    <3>2. tbl.tail = s[n]
      BY <3>1 DEF Listed, n
    <3>3. tbl.tail = e <=> l = n
      BY <1>1, <1>4, <3>1, <3>2 DEF e
    <3>4. CASE l = n
      <4>1. n - 1 < l
        BY <1>4, <3>4
      <4>2. t[n-1] = s[n-1]
        BY <1>2, <3>1, <4>1
      <4>3. tbl'.tail = els[e].prev
        BY <2>2, <3>3, <3>4 DEF e, n, CutOut
      <4>4. QED
        BY <1>7, <2>2, <3>1, <3>4, <4>2, <4>3
    <3>5. CASE l # n
      <4>1. ~(n - 1 < l)
        BY <1>4, <3>5
      <4>2. t[n-1] = s[n-1+1]
        BY <1>2, <3>1, <4>1
      <4>3. tbl'.tail = tbl.tail
        BY <2>2, <3>3, <3>5 DEF e, n, CutOut
      <4>4. QED
        BY <3>1, <3>2, <4>2, <4>3
    <3>6. QED
      BY <3>4, <3>5
  <2>3. QED
    BY <2>1, <2>2
<1>16. Listed(t)'
  BY <1>2, <1>10, <1>12, <1>13, <1>14, <1>15, SMTT(30) DEF Listed, CutOut
<1>17. Remains(e, t)
  <2> HIDE DEF e
  <2>1. QED
    BY <1>5, <1>11, <1>16 DEF Remains
<1>18. QED
  BY <1>17 DEF e

\* A table is a record, whatever is replaced in it.
Changed(t, bs, tail, items) == [t EXCEPT !.buckets = bs, !.tail = tail, !.items = items]

LEMMA TableParts ==
  ASSUME NEW t, NEW k, Table(t, k), NEW bs, NEW tail, NEW items,
         NEW v, v = Changed(t, bs, tail, items)
  PROVE  /\ v.buckets = bs /\ v.tail = tail /\ v.items = items
         /\ v = [buckets |-> v.buckets, tail |-> v.tail, items |-> v.items,
                 nonideal |-> v.nonideal, ineff |-> v.ineff, noexpand |-> v.noexpand]
<1>1. t = [buckets |-> t.buckets, tail |-> t.tail, items |-> t.items,
           nonideal |-> t.nonideal, ineff |-> t.ineff, noexpand |-> t.noexpand]
  BY DEF Table
<1>2. v = [buckets |-> bs, tail |-> tail, items |-> items,
           nonideal |-> t.nonideal, ineff |-> t.ineff, noexpand |-> t.noexpand]
  BY <1>1 DEF Changed
<1>3. QED
  BY <1>2

LEMMA AddedTable ==
  ASSUME NEW t, NEW k, Table(t, k), NEW e, e \notin DOMAIN k,
         NEW r, DOMAIN r = DOMAIN k \cup {e}, \A f \in DOMAIN k : r[f] = k[f],
         r[e] \in Keys, els'[e].key = r[e]
  PROVE  /\ Table(Added(t, e), r)
         /\ Added(t, e).items = t.items + 1 /\ Added(t, e).tail = t.tail
<1>1. PICK n \in Nat \ {0} : Filled(t.buckets, n, k)
  BY DEF Table
<1>2. NumBuckets(t) = n
  BY <1>1, BucketCount
<1> DEFINE bs == t.buckets
           c == ToBucket(r[e], n)
           m == bs[c].mult
           cs == [bs EXCEPT ![c] = [chain |-> <<e>> \o bs[c].chain, mult |-> m]]
           v == Added(t, e)
<1>3. c \in 0..n-1
  BY BucketNo
<1>4. bs[c] \in [chain : Seq(DOMAIN k), mult : Nat] /\ DOMAIN bs = 0..n-1
  BY <1>1, <1>3 DEF Filled
<1>5. m \in Nat
  <2> HIDE DEF bs
  <2>1. QED
    BY <1>4
<1>6. cs = [bs EXCEPT ![c].chain = <<e>> \o @]
  <2> HIDE DEF bs, c
  <2>1. bs[c] = [chain |-> bs[c].chain, mult |-> m]
    BY <1>4
  <2> DEFINE ch == <<e>> \o bs[c].chain
  <2> HIDE DEF m
  <2>2. [bs EXCEPT ![c].chain = <<e>> \o @] = [bs EXCEPT ![c] = [bs[c] EXCEPT !.chain = ch]]
    OBVIOUS
  <2>3. cs = [bs EXCEPT ![c] = [chain |-> ch, mult |-> m]]
    OBVIOUS
  <2> HIDE DEF ch, cs
  <2>4. [bs[c] EXCEPT !.chain = ch] = [chain |-> ch, mult |-> m]
    BY <2>1
  <2>5. QED
    BY <2>2, <2>3, <2>4
<1>7. Filled(cs, n, r)
  <2>1. Filled(bs, n, k)
    BY <1>1
  <2>2. cs = [bs EXCEPT ![ToBucket(r[e], n)] =
                  [chain |-> <<e>> \o bs[ToBucket(r[e], n)].chain, mult |-> m]]
    OBVIOUS
  <2> HIDE DEF bs, m, cs
  <2>3. QED
    BY <1>5, <2>1, <2>2, FilledPut
<1>8. v = [t EXCEPT !.buckets = cs, !.tail = t.tail, !.items = t.items + 1]
  <2>1. v = [t EXCEPT !.items = @ + 1, !.buckets[c].chain = <<e>> \o @]
    BY <1>2 DEF Added
  <2>2. v = [t EXCEPT !.items = @ + 1, !.buckets = cs]
    BY <1>6, <2>1
  <2>3. t = [buckets |-> t.buckets, tail |-> t.tail, items |-> t.items,
             nonideal |-> t.nonideal, ineff |-> t.ineff, noexpand |-> t.noexpand]
    BY DEF Table
  <2> HIDE DEF v, cs
  <2>4. QED
    BY <2>2, <2>3
<1> DEFINE items == t.items + 1
           tail == t.tail
<1>9. v = Changed(t, cs, tail, items)
  BY <1>8 DEF Changed
<1> HIDE DEF v, cs, items, tail
<1>10. /\ v.buckets = cs /\ v.tail = tail /\ v.items = items
       /\ v = [buckets |-> v.buckets, tail |-> v.tail, items |-> v.items,
               nonideal |-> v.nonideal, ineff |-> v.ineff, noexpand |-> v.noexpand]
  BY <1>9, TableParts
<1>11. Table(v, r)
  BY <1>7, <1>10 DEF Table
<1>12. QED
  BY <1>10, <1>11 DEF v, items, tail

Shortened(t, e, items, tail) == [Unchained(t, e) EXCEPT !.items = items, !.tail = tail]

LEMMA UnchainedTable ==
  ASSUME NEW t, NEW k, Table(t, k), NEW e \in DOMAIN k, \A f \in DOMAIN k : k[f] \in Keys,
         els[e].key = k[e], NEW r, DOMAIN r = DOMAIN k \ {e}, \A f \in DOMAIN r : r[f] = k[f],
         NEW tail, NEW items
  PROVE  LET v == Shortened(t, e, items, tail)
         IN  Table(v, r) /\ v.items = items /\ v.tail = tail
<1> DEFINE v == Shortened(t, e, items, tail)
<1>1. PICK n \in Nat \ {0} : Filled(t.buckets, n, k)
  BY DEF Table
<1>2. NumBuckets(t) = n
  BY <1>1, BucketCount
<1> DEFINE bs == t.buckets
           c == ToBucket(k[e], n)
           cs == [bs EXCEPT ![c].chain = RemoveFirst(@, e)]
<1>3. Filled(cs, n, r)
  <2>1. Filled(bs, n, k) /\ cs = [bs EXCEPT ![ToBucket(k[e], n)].chain = RemoveFirst(@, e)]
    BY <1>1
  <2> HIDE DEF bs, cs
  <2>2. QED
    BY <2>1, FilledTake
<1>4. Unchained(t, e) = [t EXCEPT !.buckets = cs]
  BY <1>2 DEF Unchained
<1>5. v = Changed(t, cs, tail, items)
  <2>1. t = [buckets |-> t.buckets, tail |-> t.tail, items |-> t.items,
             nonideal |-> t.nonideal, ineff |-> t.ineff, noexpand |-> t.noexpand]
    BY DEF Table
  <2> HIDE DEF cs
  <2>2. QED
    BY <1>4, <2>1 DEF Changed, Shortened
<1> HIDE DEF cs, v
<1>6. /\ v.buckets = cs /\ v.tail = tail /\ v.items = items
      /\ v = [buckets |-> v.buckets, tail |-> v.tail, items |-> v.items,
              nonideal |-> v.nonideal, ineff |-> v.ineff, noexpand |-> v.noexpand]
  BY <1>5, TableParts
<1>7. Table(v, r) /\ v.items = items /\ v.tail = tail
  BY <1>3, <1>6 DEF Table
<1>8. QED
  BY <1>7 DEF v

\* The table an element is added to: a new one, or that of the list so far.
LEMMA TableToAdd ==
  ASSUME made \in Nat, NEW s, Listed(s), TableOK, NEW e, NEW t,
         t = (IF head = Null THEN MakeTable(e) ELSE [tbl EXCEPT !.tail = e])
  PROVE  Table(t, KeyOf) /\ t.tail = e /\ t.items = Cardinality(DOMAIN els)
<1>1. /\ head = Null <=> Len(s) = 0
      /\ Cardinality(DOMAIN els) = Len(s)
      /\ \A f \in DOMAIN els : \E i \in 1..Len(s) : s[i] = f
  BY ListedFacts
<1>2. CASE head = Null
  <2>1. Len(s) = 0
    BY <1>1, <1>2
  <2>2. DOMAIN KeyOf = {}
    <3>1. \A i \in 1..Len(s) : FALSE
      BY <2>1
    <3>2. DOMAIN els = {}
      BY <1>1, <3>1
    <3>3. QED
      BY <3>2 DEF KeyOf
  <2>3. Initial \in Nat \ {0}
    BY HashAssumption
  <2>4. Filled(EmptyBuckets(Initial), Initial, KeyOf)
    <3> DEFINE k == KeyOf
    <3>1. DOMAIN k = {}
      BY <2>2
    <3> HIDE DEF k
    <3>2. Filled(EmptyBuckets(Initial), Initial, k)
      BY <2>3, <3>1, EmptyFilled
    <3>3. QED
      BY <3>2 DEF k
  <2>5. t = [buckets |-> EmptyBuckets(Initial), tail |-> e, items |-> 0, nonideal |-> 0,
             ineff |-> 0, noexpand |-> FALSE]
    BY <1>2 DEF MakeTable, NoTable
  <2>6. t.buckets = EmptyBuckets(Initial) /\ t.tail = e /\ t.items = 0
    BY <2>5
  <2>7. Table(t, KeyOf)
    BY <2>3, <2>4, <2>5, <2>6 DEF Table
  <2>8. QED
    BY <1>1, <2>1, <2>6, <2>7
<1>3. CASE head # Null
  <2>1. Table(tbl, KeyOf) /\ tbl.items = Cardinality(DOMAIN els)
    BY <1>3 DEF TableOK
  <2>2. tbl = [buckets |-> tbl.buckets, tail |-> tbl.tail, items |-> tbl.items,
               nonideal |-> tbl.nonideal, ineff |-> tbl.ineff, noexpand |-> tbl.noexpand]
    BY <2>1 DEF Table
  <2>3. t = [buckets |-> tbl.buckets, tail |-> e, items |-> tbl.items,
             nonideal |-> tbl.nonideal, ineff |-> tbl.ineff, noexpand |-> tbl.noexpand]
    BY <1>3, <2>2
  <2>4. /\ t.buckets = tbl.buckets /\ t.tail = e /\ t.items = tbl.items
        /\ t.nonideal = tbl.nonideal /\ t.ineff = tbl.ineff /\ t.noexpand = tbl.noexpand
    BY <2>3
  <2>5. QED
    BY <2>1, <2>3, <2>4 DEF Table
<1>4. QED
  BY <1>2, <1>3

\* The element e of key k, behind those of s.
Grown(s, e, k) ==
    /\ Listed(Append(s, e))'
    /\ \A f \in DOMAIN els : els[f].key # k /\ els'[f].key = els[f].key
    /\ els'[e].key = k /\ it' = it /\ it = NoIterator

LEMMA InsertInv ==
  ASSUME made \in Nat, TableOK, NEW s, Listed(s), NEW k \in Keys, Insert(k),
         NEW e, e = made + 1
  PROVE  Grown(s, e, k) /\ TableOK' /\ made' = e
<1>1. /\ it = NoIterator /\ Find(k) = Null /\ it' = it /\ made' = e /\ els' = Linked(k, e)
      /\ head' = IF head = Null THEN e ELSE head
  BY DEF Insert
<1>2. /\ \A f \in DOMAIN els : els[f].key \in Keys /\ f # Null
      /\ \A f, g \in DOMAIN els : els[f].key = els[g].key => f = g
      /\ head = Null => DOMAIN els = {}
      /\ IsFiniteSet(DOMAIN els) /\ Null \notin DOMAIN els
  <2>1. /\ \A f \in DOMAIN els : \E i \in 1..Len(s) : s[i] = f
        /\ head = Null <=> Len(s) = 0
        /\ IsFiniteSet(DOMAIN els) /\ Null \notin DOMAIN els
    BY ListedFacts
  <2>2. \A i \in 1..Len(s) : els[s[i]].key \in Keys
    BY DEF Listed, Element
  <2>3. \A f \in DOMAIN els : els[f].key \in Keys /\ f # Null
    BY <2>1, <2>2
  <2>4. head = Null => DOMAIN els = {}
    <3>1. Len(s) = 0 => \A i \in 1..Len(s) : FALSE
      OBVIOUS
    <3>2. QED
      BY <2>1, <3>1
  <2>5. QED
    BY <2>1, <2>3, <2>4 DEF Listed
<1>3. \A f \in DOMAIN els : els[f].key # k
  <2>1. CASE head = Null
    BY <1>2, <2>1
  <2>2. CASE head # Null
    <3>1. Table(tbl, KeyOf)
      BY <2>2 DEF TableOK
    <3>2. \A f \in DOMAIN els : Find(els[f].key) = f
      BY <1>2, <2>2, <3>1, FindIs
    <3>3. QED
      BY <1>1, <1>2, <3>2
  <2>3. QED
    BY <2>1, <2>2
<1> DEFINE t == IF head = Null THEN MakeTable(e) ELSE [tbl EXCEPT !.tail = e]
           u == Added(t, e)
<1>4. tbl' = u \/ tbl' = Expanded(u)
  BY DEF Insert
<1>5. Table(t, KeyOf) /\ t.tail = e /\ t.items = Cardinality(DOMAIN els)
  BY TableToAdd
<1>6. /\ DOMAIN els' = DOMAIN els \cup {e} /\ e \notin DOMAIN els /\ els'[e].key = k
      /\ \A f \in DOMAIN els : els'[f].key = els[f].key
  <2>1. e \notin DOMAIN els
    <3>1. \A f \in DOMAIN els : f \in 1..made
      BY DEF Listed, ToSet
    <3>2. e \notin 1..made
      OBVIOUS
    <3>3. QED
      BY <3>1, <3>2
  <2>2. /\ DOMAIN els' = DOMAIN els \cup {e}
        /\ els'[e] = [key |-> k, prev |-> tbl.tail, next |-> Null]
        /\ \A f \in DOMAIN els :
              els'[f] = [els[f] EXCEPT !.next = IF f = tbl.tail THEN e ELSE @]
    BY <1>1, <2>1 DEF Linked
  <2>3. \A f \in DOMAIN els : els[f] \in Element
    <3>1. \A f \in DOMAIN els : \E i \in 1..Len(s) : s[i] = f
      BY ListedFacts
    <3>2. QED
      BY <3>1 DEF Listed
  <2>4. QED
    BY <2>1, <2>2, <2>3 DEF Element
<1>7. PICK o : o = KeyOf
  OBVIOUS
<1>8. PICK r : r = KeyOf'
  OBVIOUS
<1>9. /\ DOMAIN o = DOMAIN els /\ \A f \in DOMAIN els : o[f] = els[f].key
      /\ DOMAIN r = DOMAIN els' /\ \A f \in DOMAIN els' : r[f] = els'[f].key
  BY <1>7, <1>8 DEF KeyOf
<1>10. /\ DOMAIN r = DOMAIN o \cup {e} /\ e \notin DOMAIN o /\ \A f \in DOMAIN o : r[f] = o[f]
       /\ r[e] \in Keys /\ els'[e].key = r[e]
       /\ \A f \in DOMAIN r : r[f] \in Keys /\ els'[f].key = r[f]
  BY <1>2, <1>6, <1>9
<1> HIDE DEF t
<1>11. Table(u, r) /\ u.items = t.items + 1 /\ u.tail = t.tail
  <2>1. Table(t, o)
    BY <1>5, <1>7
  <2>2. QED
    BY <1>10, <2>1, AddedTable
<1> HIDE DEF u
<1>12. Table(tbl', r) /\ tbl'.items = u.items /\ tbl'.tail = u.tail
  <2>1. CASE tbl' = u
    BY <1>11, <2>1
  <2>2. CASE tbl' = Expanded(u)
    BY <1>10, <1>11, <2>2, ExpandedTable
  <2>3. QED
    BY <1>4, <2>1, <2>2
<1>13. Cardinality(DOMAIN els') = Cardinality(DOMAIN els) + 1
  BY <1>2, <1>6, FS_AddElement
<1>14. tbl'.tail = e
  BY <1>5, <1>11, <1>12
<1>15. Listed(Append(s, e))'
  BY <1>1, <1>3, <1>14, LinkedListed
<1>16. TableOK'
  <2>1. head' # Null
    <3>1. e # Null
      BY DEF Null
    <3>2. QED
      BY <1>1, <3>1
  <2>2. Table(tbl', KeyOf') /\ tbl'.items = Cardinality(DOMAIN els')
    BY <1>5, <1>8, <1>11, <1>12, <1>13
  <2>3. QED
    BY <2>1, <2>2 DEF TableOK
<1>17. QED
  BY <1>1, <1>3, <1>6, <1>15, <1>16 DEF Grown

LEMMA DeleteInv ==
  ASSUME made \in Nat, TableOK, NEW s, Listed(s), NEW l \in 1..Len(s), Delete(s[l]),
         made' = made, NEW t, t = RemoveAt(s, l)
  PROVE  Remains(s[l], t) /\ TableOK'
<1> DEFINE e == s[l]
           n == Len(s)
<1>1. /\ s \in Seq(Nat) /\ n \in Nat
      /\ \A i \in 1..n : s[i] \in Nat /\ s[i] # Null /\ s[i] \in DOMAIN els
      /\ \A f \in DOMAIN els : \E i \in 1..n : s[i] = f
      /\ IsFiniteSet(DOMAIN els) /\ Cardinality(DOMAIN els) = n
      /\ (head = Null <=> n = 0)
  BY ListedFacts
<1>2. n # 0 /\ l \in 1..n /\ head # Null /\ e \in DOMAIN els
  BY <1>1
<1>3. els[e].prev = Null /\ els[e].next = Null <=> n = 1
  <2>1. /\ els[e].prev = IF l = 1 THEN Null ELSE s[l-1]
        /\ els[e].next = IF l = n THEN Null ELSE s[l+1]
    BY DEF Listed
  <2> HIDE DEF e, n
  <2>2. /\ l # 1 => l - 1 \in 1..n
        /\ l # n => l + 1 \in 1..n
        /\ (n = 1 <=> l = 1 /\ l = n)
    <3>1. n \in Nat /\ l \in 1..n
      BY <1>1, <1>2
    <3>2. QED
      BY <3>1
  <2>3. QED
    BY <1>1, <2>1, <2>2
<1>4. /\ els' = Without(e)
      /\ n = 1 => head' = Null /\ tbl' = NoTable
      /\ n # 1 => /\ head' = IF els[e].prev = Null THEN els[e].next ELSE head
                  /\ tbl' = [Unchained(tbl, e) EXCEPT !.items = @ - 1,
                                !.tail = IF @ = e THEN els[e].prev ELSE @]
  <2> HIDE DEF n
  <2>1. QED
    BY <1>3 DEF Delete
<1>5. \A f \in DOMAIN els : els[f].key \in Keys
  <2>1. \A i \in 1..n : els[s[i]].key \in Keys
    BY DEF Listed, Element
  <2>2. QED
    BY <1>1, <2>1
<1>6. Table(tbl, KeyOf) /\ tbl.items = n
  BY <1>1, <1>2 DEF TableOK
<1>7. PICK o : o = KeyOf
  OBVIOUS
<1>8. DOMAIN o = DOMAIN els /\ \A f \in DOMAIN els : o[f] = els[f].key
  BY <1>7 DEF KeyOf
<1>9. PICK r : r = [f \in DOMAIN els \ {e} |-> els[f].key]
  OBVIOUS
<1>10. /\ DOMAIN r = DOMAIN o \ {e} /\ \A f \in DOMAIN r : r[f] = o[f]
       /\ \A f \in DOMAIN o : o[f] \in Keys
       /\ e \in DOMAIN o /\ els[e].key = o[e]
  BY <1>2, <1>5, <1>8, <1>9
<1>11. n # 1 => /\ Table(tbl', r) /\ tbl'.items = n - 1
                /\ tbl'.tail = IF tbl.tail = e THEN els[e].prev ELSE tbl.tail
  <2> SUFFICES ASSUME n # 1
               PROVE  /\ Table(tbl', r) /\ tbl'.items = n - 1
                      /\ tbl'.tail = IF tbl.tail = e THEN els[e].prev ELSE tbl.tail
    OBVIOUS
  <2> DEFINE items == n - 1
             tail == IF tbl.tail = e THEN els[e].prev ELSE tbl.tail
  <2>1. tbl = [buckets |-> tbl.buckets, tail |-> tbl.tail, items |-> tbl.items,
               nonideal |-> tbl.nonideal, ineff |-> tbl.ineff, noexpand |-> tbl.noexpand]
    BY <1>6 DEF Table
  <2>2. Unchained(tbl, e).items = tbl.items /\ Unchained(tbl, e).tail = tbl.tail
    BY <2>1 DEF Unchained
  <2> DEFINE un == Unchained(tbl, e)
  <2>3. un.items = n /\ un.tail = tbl.tail
    BY <1>6, <2>2
  <2> HIDE DEF un, e, n
  <2>4. tbl' = [un EXCEPT !.items = n - 1,
                          !.tail = IF tbl.tail = e THEN els[e].prev ELSE tbl.tail]
    <3>1. tbl' = [un EXCEPT !.items = @ - 1, !.tail = IF @ = e THEN els[e].prev ELSE @]
      BY <1>4 DEF un
    <3>2. QED
      BY <2>3, <3>1
  <2>5. tbl' = Shortened(tbl, e, items, tail)
    BY <2>4 DEF un, Shortened
  <2> HIDE DEF items, tail
  <2>6. Table(tbl, o)
    BY <1>6, <1>7
  <2>7. LET v == Shortened(tbl, e, items, tail)
        IN  Table(v, r) /\ v.items = items /\ v.tail = tail
    BY <1>10, <2>6, UnchainedTable, SMTT(30)
  <2>8. QED
    BY <2>5, <2>7 DEF items, tail
<1>12. Listed(t)' /\ DOMAIN els' = DOMAIN els \ {e}
       /\ \A f \in DOMAIN els' :
               /\ els'[f].key = els[f].key
               /\ els'[f].next = IF els[f].next = e THEN els[e].next ELSE els[f].next
  <2>1. head' = (IF n = 1 THEN Null ELSE IF els[e].prev = Null THEN els[e].next ELSE head)
    BY <1>4
  <2>2. tbl'.tail = (IF n = 1 THEN Null
                     ELSE IF tbl.tail = e THEN els[e].prev ELSE tbl.tail)
    <3>1. NoTable.tail = Null
      BY DEF NoTable
    <3>2. QED
      BY <1>4, <1>11, <3>1
  <2>3. els' = Without(e)
    BY <1>4
  <2>4. CutOut(s, l)
    BY <2>1, <2>2, <2>3 DEF CutOut
  <2>5. Remains(s[l], t)
    BY <2>4, WithoutListed
  <2> HIDE DEF e
  <2>6. Remains(e, t)
    BY <2>5 DEF e
  <2>7. QED
    BY <2>6 DEF Remains
<1>13. KeyOf' = r
  BY <1>9, <1>12 DEF KeyOf
<1>14. Cardinality(DOMAIN els') = n - 1
  BY <1>1, <1>2, <1>12, FS_RemoveElement
<1>15. TableOK'
  <2>1. head' = Null => n = 1
    <3>1. Listed(t)' /\ made' \in Nat
      BY <1>12
    <3>2. head' = Null <=> Len(t) = 0
      BY <3>1, ListedHead
    <3>3. Len(t) = n - 1
      <4>1. s \in Seq(Nat) /\ IsInjective(s)
        BY <1>1 DEF Listed
      <4>2. QED
        BY <4>1, WithoutItem
    <3>4. QED
      BY <1>1, <3>2, <3>3
  <2>2. n = 1 => head' = Null /\ tbl' = NoTable
    BY <1>4
  <2> HIDE DEF n
  <2>3. QED
    BY <1>11, <1>13, <1>14, <2>1, <2>2 DEF TableOK
<1>16. Remains(e, t)
  <2> HIDE DEF e
  <2>1. QED
    BY <1>12 DEF Remains
<1>17. QED
  BY <1>15, <1>16

-----------------------------------------------------------------------------
(* Walks along the list.                                                     *)

\* The last of j elements of s from the i-th on.
Reach(s, i, j) == IF i + j - 1 > Len(s) THEN Len(s) ELSE i + j - 1

LEMMA SegmentIs ==
  ASSUME NEW S, NEW s \in Seq(S), NEW i \in 1..Len(s), NEW m \in i..Len(s)
  PROVE  SubSeq(s, i, m) = <<s[i]>> \o SubSeq(s, i + 1, m)
<1>1. /\ SubSeq(s, i, m) \in Seq(S) /\ Len(SubSeq(s, i, m)) = m - i + 1
      /\ \A j \in 1..m-i+1 : SubSeq(s, i, m)[j] = s[i + j - 1]
  OBVIOUS
<1>2. /\ SubSeq(s, i + 1, m) \in Seq(S) /\ Len(SubSeq(s, i + 1, m)) = m - i
      /\ \A j \in 1..m-i : SubSeq(s, i + 1, m)[j] = s[i + j]
  OBVIOUS
<1> DEFINE a == SubSeq(s, i, m)
           b == SubSeq(s, i + 1, m)
           c == <<s[i]>> \o b
<1>3. c \in Seq(S) /\ Len(c) = m - i + 1 /\ c[1] = s[i] /\ \A j \in 1..m-i : c[j + 1] = b[j]
  <2>1. b \in Seq(S) /\ Len(b) = m - i /\ s[i] \in S
    BY <1>2
  <2> HIDE DEF b
  <2>2. QED
    BY <2>1, SMTT(30)
<1>4. \A j \in 1..m-i+1 : a[j] = c[j]
  <2>1. SUFFICES ASSUME NEW j \in 1..m-i+1
                 PROVE  a[j] = c[j]
    OBVIOUS
  <2>2. a[j] = s[i + j - 1]
    BY <1>1
  <2>3. CASE j = 1
    BY <1>3, <2>2, <2>3
  <2>4. CASE j # 1
    <3>1. j - 1 \in 1..m-i /\ j - 1 + 1 = j /\ i + (j - 1) = i + j - 1
      BY <2>4
    <3>2. c[j - 1 + 1] = s[i + (j - 1)]
      BY <1>2, <1>3, <3>1
    <3>3. QED
      BY <2>2, <3>1, <3>2
  <2>5. QED
    BY <2>3, <2>4
<1> HIDE DEF a, c
<1>5. a \in Seq(S) /\ Len(a) = m - i + 1
  BY <1>1 DEF a
<1>6. a = c
  BY <1>3, <1>4, <1>5
<1>7. QED
  BY <1>6 DEF a, c

\* The function From() is computed with.
Reaches(first, n) ==
    first = [j \in 0..n |-> [f \in 0..made |->
                IF j = 0 \/ f \notin DOMAIN els THEN <<>> ELSE <<f>> \o first[j - 1][els[f].next]]]

\* One more step, from each element and from none.
LEMMA ReachesOn ==
  ASSUME made \in Nat, NEW s, Listed(s), NEW i \in 1..Len(s), NEW j \in Nat \ {0},
         NEW g, g[Null] = <<>>, \A l \in 1..Len(s) : g[s[l]] = SubSeq(s, l, Reach(s, l, j - 1))
  PROVE  <<s[i]>> \o g[els[s[i]].next] = SubSeq(s, i, Reach(s, i, j))
<1> DEFINE n == Len(s)
           m == Reach(s, i, j)
<1>1. s \in Seq(Nat) /\ n \in Nat
  BY ListedFacts
<1>2. els[s[i]].next = IF i = n THEN Null ELSE s[i+1]
  BY DEF Listed
<1>3. m \in i..n /\ (i = n => m = n) /\ (i # n => i + 1 \in 1..n /\ Reach(s, i + 1, j - 1) = m)
  <2>1. n \in Nat /\ i \in 1..n /\ j \in Nat \ {0}
    BY <1>1
  <2>2. /\ m = IF i + j - 1 > n THEN n ELSE i + j - 1
        /\ Reach(s, i + 1, j - 1) = IF i + 1 + (j - 1) - 1 > n THEN n ELSE i + 1 + (j - 1) - 1
    BY DEF Reach
  <2> HIDE DEF m, n
  <2>3. QED
    BY <2>1, <2>2
<1>4. SubSeq(s, i, m) = <<s[i]>> \o SubSeq(s, i + 1, m)
  <2> DEFINE S == Nat
  <2>1. s \in Seq(S) /\ m \in i..Len(s)
    BY <1>1, <1>3
  <2> HIDE DEF m, S
  <2>2. QED
    BY <2>1, SegmentIs
<1>5. CASE i = n
  <2>1. SubSeq(s, n + 1, n) = <<>>
    BY <1>1
  <2> HIDE DEF m, n
  <2>2. QED
    BY <1>2, <1>3, <1>4, <1>5, <2>1 DEF m
<1>6. CASE i # n
  <2>1. g[s[i+1]] = SubSeq(s, i + 1, m)
    BY <1>3, <1>6
  <2> HIDE DEF m, n
  <2>2. QED
    BY <1>2, <1>4, <1>6, <2>1 DEF m
<1>7. QED
  BY <1>5, <1>6

LEMMA ReachedAll ==
  ASSUME made \in Nat, NEW s, Listed(s), NEW n \in Nat, NEW first, Reaches(first, n)
  PROVE  \A j \in 0..n :
            /\ first[j][Null] = <<>>
            /\ \A i \in 1..Len(s) : first[j][s[i]] = SubSeq(s, i, Reach(s, i, j))
<1> DEFINE Done(j) == /\ first[j][Null] = <<>>
                      /\ \A i \in 1..Len(s) : first[j][s[i]] = SubSeq(s, i, Reach(s, i, j))
           T == {j \in Nat : Done(j)}
<1>1. /\ s \in Seq(Nat) /\ Len(s) \in Nat /\ Null \notin DOMAIN els /\ Null \in 0..made
      /\ \A i \in 1..Len(s) : s[i] \in 0..made /\ s[i] \in DOMAIN els
  <2>1. /\ s \in Seq(Nat) /\ Len(s) \in Nat /\ Null \notin DOMAIN els
        /\ \A i \in 1..Len(s) : s[i] \in 1..made /\ s[i] \in DOMAIN els
    BY ListedFacts
  <2>2. QED
    BY <2>1 DEF Null
<1>2. \A j \in 0..n : \A f \in 0..made :
         first[j][f] = IF j = 0 \/ f \notin DOMAIN els THEN <<>>
                       ELSE <<f>> \o first[j - 1][els[f].next]
  <2>1. SUFFICES ASSUME NEW j \in 0..n, NEW f \in 0..made
                 PROVE  first[j][f] = IF j = 0 \/ f \notin DOMAIN els THEN <<>>
                                      ELSE <<f>> \o first[j - 1][els[f].next]
    OBVIOUS
  <2> DEFINE row(l) == [e \in 0..made |-> IF l = 0 \/ e \notin DOMAIN els THEN <<>>
                                          ELSE <<e>> \o first[l - 1][els[e].next]]
  <2>2. first = [l \in 0..n |-> row(l)]
    BY DEF Reaches
  <2>3. first[j] = row(j)
    <3> HIDE DEF row
    <3>1. QED
      BY <2>2
  <2>4. QED
    BY <2>3
<1>3. \A j \in 0..n : first[j][Null] = <<>>
  BY <1>1, <1>2
<1>4. 0 \in T
  <2>1. ASSUME NEW i \in 1..Len(s)
        PROVE  first[0][s[i]] = SubSeq(s, i, Reach(s, i, 0))
    <3>1. first[0][s[i]] = <<>>
      <4>1. 0 \in 0..n /\ s[i] \in 0..made
        BY <1>1
      <4>2. QED
        BY <1>2, <4>1
    <3>2. Reach(s, i, 0) = i - 1
      BY <1>1 DEF Reach
    <3>3. SubSeq(s, i, i - 1) = <<>>
      BY <1>1
    <3>4. QED
      BY <3>1, <3>2, <3>3
  <2>2. QED
    BY <1>3, <2>1
<1>5. ASSUME NEW j \in 0..n-1, j \in T
      PROVE  j + 1 \in T
  <2>1. j + 1 \in Nat \ {0} /\ j + 1 \in 0..n /\ j + 1 - 1 = j
    OBVIOUS
  <2> DEFINE m == j + 1
             g == first[j]
  <2>2. m \in Nat \ {0} /\ m \in 0..n /\ m - 1 = j
    BY <2>1
  <2>3. /\ g[Null] = <<>>
        /\ \A l \in 1..Len(s) : g[s[l]] = SubSeq(s, l, Reach(s, l, m - 1))
    BY <1>5, <2>2
  <2> HIDE DEF m, g
  <2>4. ASSUME NEW i \in 1..Len(s)
        PROVE  first[m][s[i]] = SubSeq(s, i, Reach(s, i, m))
    <3>1. first[m][s[i]] = <<s[i]>> \o g[els[s[i]].next]
      BY <1>1, <1>2, <2>2 DEF g
    <3>2. <<s[i]>> \o g[els[s[i]].next] = SubSeq(s, i, Reach(s, i, m))
      BY <2>2, <2>3, ReachesOn
    <3>3. QED
      BY <3>1, <3>2
  <2>5. m \in T
    BY <1>3, <2>2, <2>4
  <2>6. QED
    BY <2>5 DEF m
<1> HIDE DEF T
<1>6. 0..n \subseteq T
  BY <1>4, <1>5, UpTo
<1>7. QED
  BY <1>6 DEF T

LEMMA ReachesExists ==
  ASSUME made \in Nat, NEW s, Listed(s), NEW n \in Nat
  PROVE  \E first : Reaches(first, n)
<1> DEFINE pos == [f \in DOMAIN els |-> CHOOSE i \in 1..Len(s) : s[i] = f]
           row(j) == [f \in 0..made |-> IF f \in DOMAIN els
                                        THEN SubSeq(s, pos[f], Reach(s, pos[f], j)) ELSE <<>>]
           g == [j \in 0..n |-> row(j)]
<1>1. /\ s \in Seq(Nat) /\ Len(s) \in Nat /\ Null \notin DOMAIN els
      /\ \A i \in 1..Len(s) : s[i] \in 0..made /\ s[i] \in DOMAIN els
      /\ \A i, j \in 1..Len(s) : s[i] = s[j] => i = j
      /\ \A f \in DOMAIN els : \E i \in 1..Len(s) : s[i] = f
      /\ Null \in 0..made
  <2>1. /\ s \in Seq(Nat) /\ Len(s) \in Nat /\ Null \notin DOMAIN els
        /\ \A i \in 1..Len(s) : s[i] \in 1..made /\ s[i] \in DOMAIN els
        /\ \A i, j \in 1..Len(s) : s[i] = s[j] => i = j
        /\ \A f \in DOMAIN els : \E i \in 1..Len(s) : s[i] = f
    BY ListedFacts
  <2>2. QED
    BY <2>1 DEF Null
<1>2. \A f \in DOMAIN els : pos[f] \in 1..Len(s) /\ s[pos[f]] = f
  BY <1>1
<1>3. \A i \in 1..Len(s) : pos[s[i]] = i
  BY <1>1, <1>2
<1> HIDE DEF pos
<1>4. ASSUME NEW j \in Nat
      PROVE  /\ row(j)[Null] = <<>>
             /\ \A i \in 1..Len(s) : row(j)[s[i]] = SubSeq(s, i, Reach(s, i, j))
  BY <1>1, <1>3
<1>5. ASSUME NEW j \in 0..n, NEW f \in 0..made
      PROVE  row(j)[f] = IF j = 0 \/ f \notin DOMAIN els THEN <<>>
                         ELSE <<f>> \o g[j - 1][els[f].next]
  <2>1. CASE f \notin DOMAIN els
    BY <2>1
  <2>2. CASE f \in DOMAIN els /\ j = 0
    <3>1. Reach(s, pos[f], 0) = pos[f] - 1
      BY <1>1, <1>2, <2>2 DEF Reach
    <3>2. SubSeq(s, pos[f], pos[f] - 1) = <<>>
      BY <1>1, <1>2, <2>2, SMTT(30)
    <3>3. QED
      BY <2>2, <3>1, <3>2
  <2>3. CASE f \in DOMAIN els /\ j # 0
    <3>1. j - 1 \in Nat /\ j - 1 \in 0..n /\ j \in Nat \ {0}
      BY <2>3
    <3>2. PICK i \in 1..Len(s) : s[i] = f
      BY <1>1, <2>3
    <3> DEFINE h == row(j - 1)
    <3>3. h[Null] = <<>> /\ \A l \in 1..Len(s) : h[s[l]] = SubSeq(s, l, Reach(s, l, j - 1))
      BY <1>4, <3>1
    <3>4. g[j - 1] = h
      BY <3>1
    <3>5. row(j)[s[i]] = SubSeq(s, i, Reach(s, i, j))
      <4>1. j \in Nat
        BY <2>3
      <4> HIDE DEF row
      <4>2. QED
        BY <1>4, <4>1
    <3> HIDE DEF h, g, row
    <3>6. <<s[i]>> \o h[els[s[i]].next] = SubSeq(s, i, Reach(s, i, j))
      BY <3>1, <3>3, ReachesOn
    <3>7. QED
      BY <2>3, <3>2, <3>4, <3>5, <3>6
  <2>4. QED
    BY <2>1, <2>2, <2>3
<1>6. Reaches(g, n)
  <2>1. \A j \in 0..n : row(j) = [f \in 0..made |->
            IF j = 0 \/ f \notin DOMAIN els THEN <<>> ELSE <<f>> \o g[j - 1][els[f].next]]
    <3>1. SUFFICES ASSUME NEW j \in 0..n
                   PROVE  row(j) = [f \in 0..made |->
                      IF j = 0 \/ f \notin DOMAIN els THEN <<>> ELSE <<f>> \o g[j - 1][els[f].next]]
      OBVIOUS
    <3>2. row(j) = [f \in 0..made |-> row(j)[f]]
      OBVIOUS
    <3> HIDE DEF row, g
    <3>3. QED
      BY <1>5, <3>2
  <2> HIDE DEF row
  <2>2. QED
    BY <2>1 DEF Reaches
<1>7. QED
  BY <1>6

\* The list of all elements, from each of them on and from none.
Froms(s) ==
    /\ From(Null) = <<>> /\ From(head) = s
    /\ \A i \in 1..Len(s) : From(s[i]) = SubSeq(s, i, Len(s))

LEMMA FromIs ==
  ASSUME made \in Nat, NEW s, Listed(s)
  PROVE  Froms(s)
<1> DEFINE n == Cardinality(DOMAIN els)
           first == CHOOSE first : first = [j \in 0..n |-> [f \in 0..made |->
              IF j = 0 \/ f \notin DOMAIN els THEN <<>> ELSE <<f>> \o first[j - 1][els[f].next]]]
<1>1. n = Len(s) /\ n \in Nat /\ s \in Seq(Nat) /\ (head = Null <=> Len(s) = 0)
  BY ListedFacts
<1>2. \A e : From(e) = first[n][e]
  BY DEF From
<1> HIDE DEF n
<1>3. \E g : Reaches(g, n)
  BY <1>1, ReachesExists
<1>4. Reaches(first, n)
  BY <1>3 DEF Reaches
<1> HIDE DEF first
<1>5. /\ first[n][Null] = <<>>
      /\ \A i \in 1..Len(s) : first[n][s[i]] = SubSeq(s, i, Reach(s, i, n))
  <2>1. n \in 0..n
    BY <1>1
  <2>2. QED
    BY <1>1, <1>4, <2>1, ReachedAll
<1>6. \A i \in 1..Len(s) : Reach(s, i, n) = Len(s)
  BY <1>1 DEF Reach
<1>7. From(Null) = <<>> /\ \A i \in 1..Len(s) : From(s[i]) = SubSeq(s, i, Len(s))
  BY <1>2, <1>5, <1>6
<1>8. From(head) = s
  <2>1. CASE Len(s) = 0
    <3>1. s = <<>>
      BY <1>1, <2>1
    <3>2. QED
      BY <1>1, <1>7, <2>1, <3>1
  <2>2. CASE Len(s) # 0
    <3>1. head = s[1] /\ 1 \in 1..Len(s)
      BY <1>1, <2>2 DEF Listed
    <3>2. SubSeq(s, 1, Len(s)) = s
      BY <1>1
    <3>3. QED
      BY <1>7, <3>1, <3>2
  <2>3. QED
    BY <2>1, <2>2
<1>9. QED
  BY <1>7, <1>8 DEF Froms


\* The keys of the elements of s from the i-th on.
Keyed(s, i) == [j \in 1..Len(s)-i+1 |-> els[s[i+j-1]].key]

Walks(s) ==
    /\ KeysFrom(head) = Keyed(s, 1) /\ KeysFrom(Null) = <<>>
    /\ \A i \in 1..Len(s)+1 : KeysFrom(IF i > Len(s) THEN Null ELSE s[i]) = Keyed(s, i)

LEMMA WalksAre ==
  ASSUME made \in Nat, NEW s, Listed(s)
  PROVE  Walks(s)
<1>1. Froms(s)
  BY FromIs
<1>2. s \in Seq(Nat) /\ Len(s) \in Nat /\ DOMAIN s = 1..Len(s)
  BY ListedFacts
<1>3. KeysFrom(Null) = <<>>
  <2>1. From(Null) = <<>>
    BY <1>1 DEF Froms
  <2>2. DOMAIN From(Null) = {}
    BY <2>1
  <2>3. \A f : f = [i \in {} |-> els[f[i]].key] => f = <<>>
    OBVIOUS
  <2>4. KeysFrom(Null) = [i \in {} |-> els[From(Null)[i]].key]
    BY <2>2 DEF KeysFrom
  <2>5. QED
    BY <2>4
<1>4. ASSUME NEW i \in 1..Len(s)
      PROVE  KeysFrom(s[i]) = Keyed(s, i)
  <2>1. From(s[i]) = SubSeq(s, i, Len(s))
    BY <1>1 DEF Froms
  <2> DEFINE q == SubSeq(s, i, Len(s))
  <2>2. DOMAIN q = 1..Len(s)-i+1 /\ \A j \in 1..Len(s)-i+1 : q[j] = s[i+j-1]
    BY <1>2
  <2> HIDE DEF q
  <2>3. KeysFrom(s[i]) = [j \in DOMAIN q |-> els[q[j]].key]
    BY <2>1 DEF KeysFrom, q
  <2>4. QED
    BY <2>2, <2>3 DEF Keyed
<1>5. Keyed(s, Len(s) + 1) = <<>>
  <2>1. 1..Len(s)-(Len(s)+1)+1 = {}
    BY <1>2
  <2>2. QED
    BY <2>1 DEF Keyed
<1>6. KeysFrom(head) = Keyed(s, 1)
  <2>1. CASE Len(s) = 0
    <3>1. head = Null
      BY <2>1 DEF Listed
    <3>2. QED
      BY <1>3, <1>5, <2>1, <3>1
  <2>2. CASE Len(s) # 0
    <3>1. head = IF Len(s) = 0 THEN Null ELSE s[1]
      BY DEF Listed
    <3>2. 1 \in 1..Len(s)
      BY <1>2, <2>2
    <3>3. QED
      BY <1>4, <2>2, <3>1, <3>2
  <2>3. QED
    BY <2>1, <2>2
<1>7. ASSUME NEW i \in 1..Len(s)+1
      PROVE  KeysFrom(IF i > Len(s) THEN Null ELSE s[i]) = Keyed(s, i)
  <2>1. CASE i > Len(s)
    <3>1. i = Len(s) + 1
      BY <1>2, <2>1
    <3>2. QED
      BY <1>3, <1>5, <2>1, <3>1
  <2>2. CASE ~(i > Len(s))
    <3>1. i \in 1..Len(s)
      BY <1>2, <2>2
    <3>2. QED
      BY <1>4, <2>2, <3>1
  <2>3. QED
    BY <2>1, <2>2
<1>8. QED
  BY <1>3, <1>6, <1>7 DEF Walks

LEMMA WalksAlways == \A s : made \in Nat /\ Listed(s) => Walks(s)
BY WalksAre

LEMMA WalksLater == (\A s : made \in Nat /\ Listed(s) => Walks(s))'
BY WalksAlways, PTL

LEMMA WalksNext ==
  ASSUME NEW s, made' \in Nat, Listed(s)'
  PROVE  Walks(s)'
BY WalksLater

\* The promises of the map.
LEMMA MapPromises == MapInv => TypeOK /\ ListExact /\ FindExact
<1> SUFFICES ASSUME MapInv
             PROVE  TypeOK /\ ListExact /\ FindExact
  OBVIOUS
<1>1. PICK s \in Seq(Nat) : Listed(s)
  BY DEF MapInv
<1>2. made \in Nat /\ TableOK /\ WalkOK
  BY DEF MapInv
<1> DEFINE n == Len(s)
<1>3. /\ s \in Seq(Nat) /\ n \in Nat /\ DOMAIN s = 1..n
      /\ \A i \in 1..n : s[i] \in Nat /\ s[i] # Null /\ s[i] \in DOMAIN els
      /\ \A e \in DOMAIN els : \E i \in 1..n : s[i] = e
      /\ Null \notin DOMAIN els /\ (head = Null <=> n = 0)
      /\ Cardinality(DOMAIN els) = n
  BY <1>1, <1>2, ListedFacts
<1>4. /\ \A i \in 1..n : /\ els[s[i]] \in Element
                         /\ els[s[i]].prev = IF i = 1 THEN Null ELSE s[i-1]
                         /\ els[s[i]].next = IF i = n THEN Null ELSE s[i+1]
      /\ \A e, f \in DOMAIN els : els[e].key = els[f].key => e = f
      /\ head = IF n = 0 THEN Null ELSE s[1]
      /\ tbl.tail = IF n = 0 THEN Null ELSE s[n]
  BY <1>1 DEF Listed
<1>5. head # Null => n # 0 /\ 1 \in 1..n /\ n \in 1..n
  BY <1>3
<1>6. ASSUME head = Null
      PROVE  DOMAIN els = {}
  <2>1. \A i \in 1..n : FALSE
    BY <1>3, <1>6
  <2>2. QED
    BY <1>3, <2>1
<1>7. From(head) = s
  BY <1>1, <1>2, FromIs DEF Froms
<1> HIDE DEF n
<1>8. TypeOK
  <2>1. {head, tbl.tail, it.nx} \subseteq DOMAIN els \cup {Null}
    BY <1>2, <1>3, <1>4, <1>5 DEF WalkOK
  <2>2. ASSUME NEW e \in DOMAIN els
        PROVE  els[e].prev \in DOMAIN els \cup {Null} /\ els[e].next \in DOMAIN els \cup {Null}
    <3>1. PICK i \in 1..n : s[i] = e
      BY <1>3
    <3>2. (i # 1 => i - 1 \in 1..n) /\ (i # n => i + 1 \in 1..n)
      BY <1>3
    <3>3. QED
      BY <1>3, <1>4, <3>1, <3>2
  <2>3. (head = Null) = (tbl = NoTable)
    <3>1. head # Null => tbl.items = n /\ n # 0
      BY <1>2, <1>3 DEF TableOK
    <3>2. NoTable.items = 0
      BY DEF NoTable
    <3>3. head = Null => tbl = NoTable
      BY <1>2 DEF TableOK
    <3>4. QED
      BY <3>1, <3>2, <3>3
  <2>4. QED
    BY <2>1, <2>2, <2>3 DEF TypeOK
<1>9. ListExact
  <2>1. Len(s) = Cardinality(DOMAIN els)
    BY <1>3 DEF n
  <2>2. head # Null => Last(s) = tbl.tail /\ els[head].prev = Null
    <3>1. Last(s) = s[n]
      BY DEF Last, n
    <3>2. QED
      BY <1>3, <1>4, <1>5, <3>1
  <2>3. \A i \in 1..Len(s)-1 : els[s[i+1]].prev = s[i]
    <3>1. ASSUME NEW i \in 1..n-1
          PROVE  els[s[i+1]].prev = s[i]
      <4>1. i + 1 \in 1..n /\ i + 1 # 1 /\ i + 1 - 1 = i
        BY <1>3
      <4>2. QED
        BY <1>4, <4>1
    <3>2. QED
      BY <3>1 DEF n
  <2>4. QED
    BY <1>7, <2>1, <2>2, <2>3 DEF ListExact
<1>10. FindExact
  <2>1. CASE head = Null
    <3>1. DOMAIN tbl.buckets = {}
      BY <1>2, <2>1 DEF TableOK, NoTable
    <3>2. QED
      BY <1>6, <2>1, <3>1 DEF FindExact
  <2>2. CASE head # Null
    <3>1. Table(tbl, KeyOf) /\ tbl.items = Cardinality(DOMAIN els)
      BY <1>2, <2>2 DEF TableOK
    <3>2. \A e \in DOMAIN els : els[e].key \in Keys
      BY <1>3, <1>4 DEF Element
    <3>3. \A e \in DOMAIN els : Find(els[e].key) = e
      BY <1>4, <2>2, <3>1, <3>2, FindIs
    <3>4. ASSUME NEW b \in DOMAIN tbl.buckets
          PROVE  Range(tbl.buckets[b].chain) \subseteq DOMAIN els
      <4>1. PICK m \in Nat \ {0} : Filled(tbl.buckets, m, KeyOf)
        BY <3>1 DEF Table
      <4>2. DOMAIN KeyOf = DOMAIN els
        BY DEF KeyOf
      <4>3. tbl.buckets[b] \in [chain : Seq(DOMAIN els), mult : Nat]
        BY <4>1, <4>2 DEF Filled
      <4>4. tbl.buckets[b].chain \in Seq(DOMAIN els)
        BY <4>3
      <4>5. QED
        BY <4>4 DEF Range
    <3>5. QED
      BY <2>2, <3>1, <3>3, <3>4 DEF FindExact
  <2>3. QED
    BY <2>1, <2>2
<1>11. QED
  BY <1>8, <1>9, <1>10

-----------------------------------------------------------------------------
(* The steps of the map, and of the dictionary.                              *)

LEMMA SameSequence ==
  ASSUME NEW S, NEW q \in Seq(S), NEW p \in Seq(S), Len(q) = Len(p),
         \A j \in 1..Len(q) : q[j] = p[j]
  PROVE  q = p
OBVIOUS

LEMMA FunctionIs ==
  ASSUME NEW S, NEW n \in Nat, NEW f \in [1..n -> S]
  PROVE  f \in Seq(S) /\ Len(f) = n
OBVIOUS

LEMMA TailIs ==
  ASSUME NEW S, NEW q \in Seq(S), q # <<>>
  PROVE  /\ Tail(q) \in Seq(S) /\ Len(Tail(q)) = Len(q) - 1
         /\ \A j \in 1..Len(q)-1 : Tail(q)[j] = q[j+1]
OBVIOUS

LEMMA KeyedFacts ==
  ASSUME made \in Nat, NEW s, Listed(s), NEW i \in 1..Len(s)+1
  PROVE  /\ Keyed(s, i) \in Seq(Keys) /\ Len(Keyed(s, i)) = Len(s) - i + 1
         /\ \A j \in 1..Len(s)-i+1 : Keyed(s, i)[j] = els[s[i+j-1]].key
         /\ Keyed(s, i) = <<>> <=> i = Len(s) + 1
         /\ i # Len(s) + 1 => Tail(Keyed(s, i)) = Keyed(s, i + 1)
<1> DEFINE n == Len(s)
<1>1. s \in Seq(Nat) /\ n \in Nat
  BY ListedFacts
<1>2. \A j \in 1..n : els[s[j]].key \in Keys
  BY DEF Listed, Element
<1>3. ASSUME NEW l \in 1..n+1
      PROVE  /\ Keyed(s, l) \in Seq(Keys) /\ Len(Keyed(s, l)) = n - l + 1
             /\ \A j \in 1..n-l+1 : Keyed(s, l)[j] = els[s[l+j-1]].key
  <2> DEFINE m == n - l + 1
             q == [j \in 1..m |-> els[s[l+j-1]].key]
  <2>1. m \in Nat /\ \A j \in 1..m : l + j - 1 \in 1..n
    BY <1>1
  <2>2. Keyed(s, l) = q
    BY DEF Keyed
  <2> HIDE DEF n, m
  <2>3. q \in [1..m -> Keys]
    BY <1>2, <2>1
  <2>5. \A j \in 1..m : q[j] = els[s[l+j-1]].key
    OBVIOUS
  <2> HIDE DEF q
  <2>4. q \in Seq(Keys) /\ Len(q) = m
    BY <2>1, <2>3, FunctionIs
  <2>6. QED
    BY <2>2, <2>4, <2>5 DEF m
<1>4. i # n + 1 => Tail(Keyed(s, i)) = Keyed(s, i + 1)
  <2> SUFFICES ASSUME i # n + 1
               PROVE  Tail(Keyed(s, i)) = Keyed(s, i + 1)
    OBVIOUS
  <2> DEFINE q == Keyed(s, i)
             p == Keyed(s, i + 1)
             m == n - i
  <2>1. i + 1 \in 1..n+1 /\ m \in Nat /\ n - i + 1 = m + 1 /\ n - (i + 1) + 1 = m
        /\ \A j \in 1..m : i + (j + 1) - 1 = i + 1 + j - 1 /\ j + 1 \in 1..m+1
    BY <1>1
  <2>2. q \in Seq(Keys) /\ Len(q) = m + 1 /\ \A j \in 1..m+1 : q[j] = els[s[i+j-1]].key
    BY <1>3, <2>1
  <2>3. p \in Seq(Keys) /\ Len(p) = m /\ \A j \in 1..m : p[j] = els[s[i+1+j-1]].key
    BY <1>3, <2>1
  <2> HIDE DEF q, p, m
  <2>4. q \in Seq(Keys) /\ q # <<>> /\ Len(q) - 1 = m
    BY <2>1, <2>2
  <2>5. Tail(q) \in Seq(Keys) /\ Len(Tail(q)) = m /\ \A j \in 1..m : Tail(q)[j] = q[j+1]
    BY <2>4, TailIs
  <2>6. ASSUME NEW j \in 1..m
        PROVE  q[j+1] = p[j]
    <3>1. j + 1 \in 1..m+1 /\ i + (j + 1) - 1 = i + 1 + j - 1
      BY <2>1
    <3>2. q[j+1] = els[s[i+(j+1)-1]].key
      BY <2>2, <3>1
    <3>3. QED
      BY <2>3, <3>1, <3>2
  <2>7. Tail(q) = p
    BY <2>3, <2>5, <2>6, SameSequence
  <2>8. QED
    BY <2>7 DEF q, p
<1>5. Keyed(s, i) = <<>> <=> i = n + 1
  <2>1. Keyed(s, i) \in Seq(Keys) /\ Len(Keyed(s, i)) = n - i + 1
    BY <1>3
  <2>2. n - i + 1 = 0 <=> i = n + 1
    BY <1>1
  <2>3. QED
    BY <2>1, <2>2
<1>6. QED
  BY <1>3, <1>4, <1>5

\* Where nothing is inserted or deleted.
LEMMA StayListed ==
  ASSUME made \in Nat, made' \in {made, made + 1}, UNCHANGED <<els, head, tbl>>, TableOK,
         NEW s, Listed(s)
  PROVE  /\ made' \in Nat /\ Listed(s)' /\ TableOK'
         /\ \A i : Keyed(s, i)' = Keyed(s, i)
<1>1. made' \in Nat /\ s \in Seq(1..made')
  <2>1. s \in Seq(1..made) /\ 1..made \subseteq 1..made'
    BY DEF Listed
  <2>2. QED
    BY <2>1
<1>2. Listed(s)'
  BY <1>1 DEF Listed
<1>3. KeyOf' = KeyOf
  BY DEF KeyOf
<1>4. TableOK'
  BY <1>3 DEF TableOK
<1>5. \A i : Keyed(s, i)' = Keyed(s, i)
  BY DEF Keyed
<1>6. QED
  BY <1>1, <1>2, <1>4, <1>5

LEMMA BeginStep ==
  ASSUME made \in Nat, TableOK, WalkOK, NEW s, Listed(s), IterateFirst
  PROVE  MapInv' /\ Dict!Begin
<1> DEFINE n == Len(s)
           e == IF 2 > n THEN Null ELSE s[2]
<1>1. /\ s \in Seq(Nat) /\ n \in Nat
      /\ \A i \in 1..n : s[i] \in Nat /\ s[i] # Null /\ s[i] \in DOMAIN els
      /\ Null \notin DOMAIN els /\ (head = Null <=> n = 0)
  BY ListedFacts
<1>2. /\ it.el = Null /\ head # Null /\ UNCHANGED <<els, head, tbl>> /\ made' = made
      /\ it' = [el |-> head, nx |-> els[head].next, met |-> head]
  BY DEF IterateFirst, Fresh
<1>3. made' \in Nat /\ Listed(s)' /\ TableOK' /\ \A i : Keyed(s, i)' = Keyed(s, i)
  <2>1. made' \in {made, made + 1} /\ UNCHANGED <<els, head, tbl>>
    BY <1>2
  <2>2. QED
    BY <2>1, StayListed
<1>4. head = s[1] /\ 1 \in 1..n /\ n # 0 /\ els[head].next = e
  <2>1. 1 \in 1..n /\ n # 0 /\ (1 = n <=> 2 > n)
    <3>1. n \in Nat /\ n # 0
      BY <1>1, <1>2
    <3> HIDE DEF n
    <3>2. QED
      BY <3>1
  <2>2. head = s[1]
    BY <2>1 DEF Listed
  <2>3. els[s[1]].next = IF 1 = n THEN Null ELSE s[2]
    BY <2>1 DEF Listed
  <2>4. QED
    BY <2>1, <2>2, <2>3
<1>5. e \in Nat /\ (e # Null => e \in DOMAIN els)
  <2>1. ~(2 > n) => 2 \in 1..n
    BY <1>1
  <2>2. QED
    BY <1>1, <2>1 DEF Null
<1>6. it'.el = head /\ it'.nx = e /\ it'.met = head /\ it' = [el |-> head, nx |-> e, met |-> head]
  BY <1>2, <1>4
<1> HIDE DEF e
<1>7. WalkOK'
  <2>1. head \in Nat /\ head # Null /\ head \in DOMAIN els
    BY <1>1, <1>4
  <2>2. it' \in [el : Nat, nx : Nat, met : Nat]
    BY <1>5, <1>6, <2>1
  <2>3. QED
    BY <1>2, <1>4, <1>5, <1>6, <2>1, <2>2 DEF WalkOK
<1>8. MapInv'
  BY <1>1, <1>3, <1>7 DEF MapInv
<1>9. Walks(s) /\ Walks(s)'
  BY <1>3, WalksAre, WalksNext
<1>10. KeysFrom(head) = Keyed(s, 1) /\ KeysFrom(head)' = Keyed(s, 1)
  BY <1>3, <1>9 DEF Walks
<1>11. KeysFrom(it.nx)' = Keyed(s, 2)
  <2>1. 2 \in 1..n+1
    BY <1>1, <1>4
  <2>2. KeysFrom(e)' = Keyed(s, 2)
    BY <1>3, <1>9, <2>1 DEF Walks, e
  <2>3. QED
    BY <1>6, <2>2
<1>12. Keyed(s, 1) # <<>> /\ Keyed(s, 2) = Tail(Keyed(s, 1))
  <2>1. 1 \in 1..n+1 /\ 1 # n + 1 /\ 1 + 1 = 2
    BY <1>1, <1>4
  <2> HIDE DEF n
  <2>2. QED
    BY <2>1, KeyedFacts DEF n
<1>13. it = NoIterator /\ it' # NoIterator
  <2>1. NoIterator.el = Null
    BY DEF NoIterator
  <2>2. QED
    BY <1>2, <1>6, <2>1 DEF WalkOK
<1>14. Dict!Begin
  BY <1>10, <1>11, <1>12, <1>13 DEF Dict!Begin
<1>15. QED
  BY <1>8, <1>14

\* The iterator after the walk, and where nothing is walked along.
LEMMA NoWalk ==
  ASSUME Null \notin DOMAIN els', it' = NoIterator
  PROVE  WalkOK'
<1>1. /\ NoIterator \in [el : Nat, nx : Nat, met : Nat]
      /\ NoIterator.nx = Null /\ NoIterator.met = Null
  BY DEF NoIterator, Null
<1>2. QED
  BY <1>1 DEF WalkOK

LEMMA IterateStep ==
  ASSUME made \in Nat, TableOK, WalkOK, NEW s, Listed(s), IterateNext
  PROVE  MapInv' /\ (Dict!Walk \/ Dict!End)
<1> DEFINE n == Len(s)
<1>1. /\ s \in Seq(Nat) /\ n \in Nat
      /\ \A i \in 1..n : s[i] \in Nat /\ s[i] # Null /\ s[i] \in DOMAIN els
      /\ \A e \in DOMAIN els : \E i \in 1..n : s[i] = e
      /\ Null \notin DOMAIN els
  BY ListedFacts
<1>2. /\ it # NoIterator /\ UNCHANGED <<els, head, tbl>> /\ made' = made
      /\ it' = IF it.nx = Null THEN NoIterator
               ELSE [it EXCEPT !.nx = els[it.nx].next, !.met = it.nx]
  BY DEF IterateNext
<1>3. made' \in Nat /\ Listed(s)' /\ TableOK' /\ \A i : Keyed(s, i)' = Keyed(s, i)
  <2>1. made' \in {made, made + 1} /\ UNCHANGED <<els, head, tbl>>
    BY <1>2
  <2>2. QED
    BY <2>1, StayListed
<1>4. Walks(s) /\ Walks(s)'
  BY <1>3, WalksAre, WalksNext
<1>5. KeysFrom(head) = Keyed(s, 1) /\ KeysFrom(head)' = Keyed(s, 1)
  BY <1>3, <1>4 DEF Walks
<1>6. CASE it.nx = Null
  <2>1. it' = NoIterator
    BY <1>2, <1>6
  <2>2. WalkOK'
    BY <1>1, <1>2, <2>1, NoWalk
  <2>3. MapInv'
    BY <1>1, <1>3, <2>2 DEF MapInv
  <2>4. NoIterator.nx = Null
    BY DEF NoIterator
  <2>5. KeysFrom(it.nx) = <<>> /\ KeysFrom(it.nx)' = <<>>
    BY <1>4, <1>6, <2>1, <2>4 DEF Walks
  <2>6. Dict!End
    BY <1>2, <1>5, <2>1, <2>5 DEF Dict!End
  <2>7. QED
    BY <2>3, <2>6
<1>7. CASE it.nx # Null
  <2>1. it.nx \in DOMAIN els
    BY <1>7 DEF WalkOK
  <2>2. PICK i \in 1..n : s[i] = it.nx
    BY <1>1, <2>1
  <2> DEFINE e == IF i + 1 > n THEN Null ELSE s[i+1]
  <2>3. i \in 1..n+1 /\ ~(i > n) /\ i # n + 1 /\ i + 1 \in 1..n+1 /\ (i = n <=> i + 1 > n)
    <3>1. n \in Nat
      BY <1>1
    <3> HIDE DEF n
    <3>2. QED
      BY <3>1
  <2>4. els[it.nx].next = e
    BY <2>2, <2>3 DEF Listed
  <2>5. e \in Nat /\ (e # Null => e \in DOMAIN els)
    <3>1. ~(i + 1 > n) => i + 1 \in 1..n
      BY <1>1
    <3>2. QED
      BY <1>1, <3>1 DEF Null
  <2>6. it \in [el : Nat, nx : Nat, met : Nat] /\ it.el # Null
    BY <1>2 DEF WalkOK
  <2> HIDE DEF e
  <2>7. /\ it' \in [el : Nat, nx : Nat, met : Nat]
        /\ it'.el = it.el /\ it'.nx = e /\ it'.met = it.nx
    BY <1>2, <1>7, <2>4, <2>5, <2>6
  <2>8. WalkOK'
    BY <1>2, <1>7, <2>4, <2>5, <2>6, <2>7 DEF WalkOK
  <2>9. MapInv'
    BY <1>1, <1>3, <2>8 DEF MapInv
  <2>10. KeysFrom(it.nx) = Keyed(s, i)
    BY <1>4, <2>2, <2>3 DEF Walks
  <2>11. KeysFrom(it.nx)' = Keyed(s, i + 1)
    <3>1. KeysFrom(e)' = Keyed(s, i + 1)
      BY <1>3, <1>4, <2>3 DEF Walks, e
    <3>2. QED
      BY <2>7, <3>1
  <2>12. Keyed(s, i) # <<>> /\ Keyed(s, i + 1) = Tail(Keyed(s, i))
    <3> HIDE DEF n
    <3>1. QED
      BY <2>3, KeyedFacts DEF n
  <2>13. it' # NoIterator
    <3>1. NoIterator.el = Null
      BY DEF NoIterator
    <3>2. QED
      BY <2>6, <2>7, <3>1
  <2>14. Dict!Walk
    BY <1>2, <1>5, <2>10, <2>11, <2>12, <2>13 DEF Dict!Walk
  <2>15. QED
    BY <2>9, <2>14
<1>8. QED
  BY <1>6, <1>7

LEMMA FreeStep ==
  ASSUME made \in Nat, NEW s, Listed(s), Free
  PROVE  MapInv' /\ Dict!Free
<1>1. /\ it = NoIterator /\ it' = it /\ els' = <<>> /\ head' = Null /\ tbl' = NoTable
      /\ made' = made
  BY DEF Free
<1> DEFINE t == <<>>
<1>2. Len(t) = 0 /\ t \in Seq(1..made) /\ t \in Seq(Nat) /\ IsInjective(t) /\ ToSet(t) = {}
  BY DEF IsInjective, ToSet
<1>3. DOMAIN els' = {} /\ tbl'.tail = Null
  BY <1>1 DEF NoTable
<1>4. Listed(t)'
  <2>1. \A i \in 1..Len(t) : FALSE
    BY <1>2
  <2> HIDE DEF t
  <2>2. QED
    BY <1>1, <1>2, <1>3, <2>1 DEF Listed
<1>5. made' \in Nat /\ TableOK'
  BY <1>1 DEF TableOK
<1>6. WalkOK'
  BY <1>1, <1>3, NoWalk
<1>7. MapInv'
  BY <1>2, <1>4, <1>5, <1>6 DEF MapInv
<1>8. Walks(s) /\ Walks(t)'
  <2> HIDE DEF t
  <2>1. QED
    BY <1>4, <1>5, WalksAre, WalksNext
<1>9. KeysFrom(Null) = <<>> /\ KeysFrom(Null)' = <<>>
  BY <1>8 DEF Walks
<1>10. NoIterator.nx = Null
  BY DEF NoIterator
<1>11. KeysFrom(head)' = <<>> /\ KeysFrom(it.nx) = <<>> /\ KeysFrom(it.nx)' = <<>>
  BY <1>1, <1>9, <1>10
<1>12. Dict!Free
  BY <1>1, <1>11 DEF Dict!Free, Dict!walk
<1>13. QED
  BY <1>7, <1>12

\* The keys of the elements, one for one.
KeyedOne(s) ==
    /\ Keyed(s, 1) \in Seq(Keys) /\ Len(Keyed(s, 1)) = Len(s)
    /\ \A j \in 1..Len(s) : Keyed(s, 1)[j] = els[s[j]].key

LEMMA KeyedAll ==
  ASSUME made \in Nat, NEW s, Listed(s)
  PROVE  KeyedOne(s)
<1> DEFINE n == Len(s)
<1>1. n \in Nat
  BY ListedFacts
<1>2. 1 \in 1..n+1 /\ n - 1 + 1 = n /\ \A j \in 1..n : 1 + j - 1 = j
  <2> HIDE DEF n
  <2>1. QED
    BY <1>1
<1>3. /\ Keyed(s, 1) \in Seq(Keys) /\ Len(Keyed(s, 1)) = n - 1 + 1
      /\ \A j \in 1..n-1+1 : Keyed(s, 1)[j] = els[s[1+j-1]].key
  BY <1>2, KeyedFacts
<1>4. /\ Keyed(s, 1) \in Seq(Keys) /\ Len(Keyed(s, 1)) = n
      /\ \A j \in 1..n : Keyed(s, 1)[j] = els[s[j]].key
  <2> HIDE DEF n
  <2>1. QED
    BY <1>2, <1>3
<1>5. QED
  BY <1>4 DEF KeyedOne

LEMMA KeyedAlways == \A s : made \in Nat /\ Listed(s) => KeyedOne(s)
BY KeyedAll

LEMMA KeyedLater == (\A s : made \in Nat /\ Listed(s) => KeyedOne(s))'
BY KeyedAlways, PTL

\* A key is in the dictionary if an element has it.
LEMMA KeyedRange ==
  ASSUME made \in Nat, NEW s, Listed(s), NEW k, \A f \in DOMAIN els : els[f].key # k
  PROVE  k \notin Dict!Range(Keyed(s, 1))
<1>1. \A i \in 1..Len(s) : s[i] \in DOMAIN els
  BY ListedFacts
<1>2. KeyedOne(s)
  BY KeyedAll
<1>3. QED
  BY <1>1, <1>2 DEF KeyedOne, Dict!Range

LEMMA NothingStep ==
  ASSUME made \in Nat, TableOK, WalkOK, NEW s, Listed(s), NEW k \in Keys, InsertNothing(k),
         \A f \in DOMAIN els : els[f].key # k
  PROVE  MapInv' /\ Dict!Insert(k)
<1>1. it = NoIterator /\ it' = it /\ UNCHANGED <<els, head, tbl>> /\ made' = made + 1
  BY DEF InsertNothing
<1>2. made' \in Nat /\ Listed(s)' /\ TableOK' /\ \A i : Keyed(s, i)' = Keyed(s, i)
  <2>1. made' \in {made, made + 1} /\ UNCHANGED <<els, head, tbl>>
    BY <1>1
  <2>2. QED
    BY <2>1, StayListed
<1>3. s \in Seq(Nat) /\ Null \notin DOMAIN els
  BY ListedFacts
<1>4. WalkOK'
  BY <1>1, <1>3, NoWalk
<1>5. MapInv'
  BY <1>2, <1>3, <1>4 DEF MapInv
<1>6. Walks(s) /\ Walks(s)'
  BY <1>2, WalksAre, WalksNext
<1>7. KeysFrom(head) = Keyed(s, 1) /\ KeysFrom(head)' = Keyed(s, 1)
  BY <1>2, <1>6 DEF Walks
<1>8. NoIterator.nx = Null
  BY DEF NoIterator
<1>9. KeysFrom(it.nx) = <<>> /\ KeysFrom(it.nx)' = <<>>
  BY <1>1, <1>6, <1>8 DEF Walks
<1>10. k \notin Dict!Range(Keyed(s, 1))
  BY KeyedRange
<1>11. Dict!Insert(k)
  BY <1>1, <1>7, <1>9, <1>10 DEF Dict!Insert, Dict!walk
<1>12. QED
  BY <1>5, <1>11

LEMMA AppendIs ==
  ASSUME NEW S, NEW q \in Seq(S), NEW x \in S
  PROVE  /\ Append(q, x) \in Seq(S) /\ Len(Append(q, x)) = Len(q) + 1
         /\ \A j \in 1..Len(q) : Append(q, x)[j] = q[j]
         /\ Append(q, x)[Len(q) + 1] = x
OBVIOUS

LEMMA InsertStep ==
  ASSUME made \in Nat, TableOK, WalkOK, NEW s, Listed(s), NEW k \in Keys, Insert(k)
  PROVE  MapInv' /\ Dict!Insert(k)
<1>0. PICK e : e = made + 1
  OBVIOUS
<1> DEFINE t == Append(s, e)
           n == Len(s)
<1>1. /\ Listed(t)' /\ TableOK' /\ made' = e
      /\ \A f \in DOMAIN els : els[f].key # k /\ els'[f].key = els[f].key
      /\ els'[e].key = k /\ it' = it /\ it = NoIterator
  <2>1. Grown(s, e, k) /\ TableOK' /\ made' = e
    BY <1>0, InsertInv
  <2>2. QED
    BY <2>1 DEF Grown
<1>2. /\ s \in Seq(Nat) /\ n \in Nat /\ \A j \in 1..n : s[j] \in DOMAIN els
  BY ListedFacts
<1>3. e \in Nat /\ t \in Seq(Nat) /\ Len(t) = n + 1 /\ t[n+1] = e /\ \A j \in 1..n : t[j] = s[j]
  <2> DEFINE S == Nat
  <2>1. e \in S /\ s \in Seq(S)
    BY <1>0, <1>2
  <2> HIDE DEF S
  <2>2. /\ Append(s, e) \in Seq(S) /\ Len(Append(s, e)) = Len(s) + 1
        /\ \A j \in 1..Len(s) : Append(s, e)[j] = s[j]
        /\ Append(s, e)[Len(s) + 1] = e
    BY <2>1, AppendIs
  <2>3. QED
    BY <2>1, <2>2 DEF S
<1> HIDE DEF t
<1>4. made' \in Nat
  BY <1>1, <1>3
<1>5. WalkOK'
  <2>1. Null \notin DOMAIN els'
    <3>1. Listed(t)'
      BY <1>1
    <3>2. t \in Seq(1..made') /\ DOMAIN els' = ToSet(t)
      BY <3>1 DEF Listed
    <3>3. Null \notin 1..made'
      BY DEF Null
    <3>4. ASSUME NEW S, t \in Seq(S)
          PROVE  ToSet(t) \subseteq S
      BY <3>4 DEF ToSet
    <3>5. QED
      BY <3>2, <3>3, <3>4
  <2>2. QED
    BY <1>1, <2>1, NoWalk
<1>6. MapInv'
  <2>1. Listed(t)' /\ TableOK' /\ t \in Seq(Nat)
    BY <1>1, <1>3
  <2>2. QED
    BY <1>4, <1>5, <2>1 DEF MapInv
<1>7. Walks(s) /\ Walks(t)'
  BY <1>1, <1>4, WalksAre, WalksNext
<1> DEFINE q == Keyed(s, 1)
           p == Keyed(t, 1)'
<1>8. KeysFrom(head) = q /\ KeysFrom(head)' = p
  BY <1>7 DEF Walks
<1>9. q \in Seq(Keys) /\ Len(q) = n /\ \A j \in 1..n : q[j] = els[s[j]].key
  BY KeyedAll DEF KeyedOne
<1>10. p \in Seq(Keys) /\ Len(p) = Len(t) /\ \A j \in 1..Len(t) : p[j] = els'[t[j]].key
  <2>1. KeyedOne(t)'
    BY <1>1, <1>4, KeyedLater
  <2>2. QED
    BY <2>1 DEF KeyedOne
<1> HIDE DEF q, p, n
<1>11. p = Append(q, k)
  <2> DEFINE a == Append(q, k)
  <2>1. a \in Seq(Keys) /\ Len(a) = n + 1 /\ a[n+1] = k /\ \A j \in 1..n : a[j] = q[j]
    BY <1>9, AppendIs
  <2>2. ASSUME NEW j \in 1..n+1
        PROVE  p[j] = a[j]
    <3>1. CASE j = n + 1
      BY <1>1, <1>3, <1>10, <2>1, <3>1
    <3>2. CASE j # n + 1
      <4>0. n \in Nat
        BY <1>2 DEF n
      <4>1. j \in 1..n /\ j \in 1..n+1
        BY <3>2, <4>0
      <4>2. p[j] = els'[s[j]].key
        <5>1. t[j] = s[j] /\ Len(t) = n + 1
          BY <1>3, <4>1 DEF n
        <5>2. QED
          BY <1>10, <4>1, <5>1
      <4>3. QED
        BY <1>1, <1>2, <1>9, <2>1, <4>1, <4>2
    <3>3. QED
      BY <3>1, <3>2
  <2> HIDE DEF a
  <2>3. Len(p) = n + 1 /\ Len(p) = Len(a)
    BY <1>3, <1>10, <2>1
  <2>4. p = a
    BY <1>10, <2>1, <2>2, <2>3, SameSequence
  <2>5. QED
    BY <2>4 DEF a
<1>12. k \notin Dict!Range(q)
  BY <1>1, KeyedRange DEF q
<1>13. NoIterator.nx = Null
  BY DEF NoIterator
<1>14. KeysFrom(it.nx) = <<>> /\ KeysFrom(it.nx)' = <<>>
  BY <1>1, <1>7, <1>13 DEF Walks
<1>15. Dict!Insert(k)
  BY <1>1, <1>8, <1>11, <1>12, <1>14 DEF Dict!Insert, Dict!walk
<1>16. QED
  BY <1>6, <1>15

\* A sequence without its i-th item.
OneLess(S, s, i, t) ==
    /\ t \in Seq(S) /\ Len(t) = Len(s) - 1
    /\ \A j \in 1..Len(s)-1 : t[j] = IF j < i THEN s[j] ELSE s[j+1]

LEMMA OneLessIs ==
  ASSUME NEW S, NEW s \in Seq(S), IsInjective(s), NEW i \in 1..Len(s),
         NEW t, t = RemoveAt(s, i)
  PROVE  OneLess(S, s, i, t)
BY WithoutItem, SMTT(30) DEF OneLess

LEMMA DeleteStep ==
  ASSUME made \in Nat, TableOK, NEW s, Listed(s), NEW l \in 1..Len(s), Delete(s[l]),
         made' = made, NEW t, t = RemoveAt(s, l)
  PROVE  /\ Remains(s[l], t) /\ TableOK' /\ t \in Seq(Nat) /\ Len(t) = Len(s) - 1
         /\ \A j \in 1..Len(s)-1 : t[j] = IF j < l THEN s[j] ELSE s[j+1]
         /\ Dict!Without(els[s[l]].key)
         /\ Keyed(t, l)' = Keyed(s, l + 1)
<1> DEFINE n == Len(s)
           e == s[l]
<1>1. Remains(e, t) /\ TableOK'
  BY DeleteInv
<1> HIDE DEF e
<1>2. /\ Listed(t)' /\ DOMAIN els' = DOMAIN els \ {e}
      /\ \A f \in DOMAIN els' : els'[f].key = els[f].key
  BY <1>1 DEF Remains
<1>3. /\ s \in Seq(Nat) /\ n \in Nat /\ IsInjective(s)
      /\ \A i \in 1..n : s[i] \in DOMAIN els
      /\ \A i, j \in 1..n : s[i] = s[j] => i = j
      /\ \A i, j \in DOMAIN els : els[i].key = els[j].key => i = j
  <2>1. /\ s \in Seq(Nat) /\ n \in Nat
        /\ \A i \in 1..n : s[i] \in DOMAIN els
        /\ \A i, j \in 1..n : s[i] = s[j] => i = j
    BY ListedFacts
  <2>2. QED
    BY <2>1 DEF Listed
<1>4. /\ t \in Seq(Nat) /\ Len(t) = n - 1
      /\ \A j \in 1..n-1 : t[j] = IF j < l THEN s[j] ELSE s[j+1]
  <2> DEFINE S == Nat
  <2>1. s \in Seq(S) /\ IsInjective(s) /\ l \in 1..Len(s) /\ t = RemoveAt(s, l)
    BY <1>3
  <2> HIDE DEF S, n
  <2>2. OneLess(S, s, l, t)
    BY <2>1, OneLessIs
  <2>3. t \in Seq(Nat) /\ Len(t) = Len(s) - 1
    BY <2>2 DEF OneLess, S
  <2>4. ASSUME NEW j \in 1..Len(s)-1
        PROVE  t[j] = IF j < l THEN s[j] ELSE s[j+1]
    BY <2>2 DEF OneLess
  <2>5. QED
    BY <2>3, <2>4 DEF n
<1>5. ASSUME NEW j \in 1..n-1
      PROVE  els'[t[j]].key = els[IF j < l THEN s[j] ELSE s[j+1]].key
  <2> DEFINE f == IF j < l THEN s[j] ELSE s[j+1]
  <2>1. t[j] = f
    BY <1>4
  <2>2. f \in DOMAIN els /\ f # e
    <3>1. /\ l \in 1..n /\ j \in 1..n /\ j + 1 \in 1..n
          /\ (j < l => j # l) /\ (~(j < l) => j + 1 # l)
      <4>1. n \in Nat /\ l \in 1..n /\ j \in 1..n-1
        BY <1>3
      <4> HIDE DEF n
      <4>2. QED
        BY <4>1
    <3>2. QED
      BY <1>3, <3>1 DEF e
  <2> HIDE DEF f
  <2>3. els'[f].key = els[f].key
    BY <1>2, <2>2
  <2>4. QED
    BY <2>1, <2>3 DEF f
<1> DEFINE q == Keyed(s, 1)
           p == Keyed(t, 1)'
           r == RemoveAt(q, l)
<1>6. Walks(s) /\ Walks(t)'
  BY <1>2, WalksAre, WalksNext
<1>7. KeysFrom(head) = q /\ KeysFrom(head)' = p
  BY <1>6 DEF Walks
<1>8. q \in Seq(Keys) /\ Len(q) = n /\ \A j \in 1..n : q[j] = els[s[j]].key
  BY KeyedAll DEF KeyedOne
<1>9. p \in Seq(Keys) /\ Len(p) = Len(t) /\ \A j \in 1..Len(t) : p[j] = els'[t[j]].key
  <2>1. KeyedOne(t)'
    BY <1>2, KeyedLater
  <2>2. QED
    BY <2>1 DEF KeyedOne
<1> HIDE DEF q, p
<1>10. /\ r \in Seq(Keys) /\ Len(r) = n - 1
       /\ \A j \in 1..n-1 : r[j] = IF j < l THEN q[j] ELSE q[j+1]
  <2> DEFINE S == Keys
  <2>1. IsInjective(q)
    <3>1. \A i, j \in 1..n : q[i] = q[j] => i = j
      BY <1>3, <1>8
    <3>2. DOMAIN q = 1..n
      BY <1>8
    <3>3. QED
      BY <3>1, <3>2 DEF IsInjective
  <2>2. q \in Seq(S) /\ l \in 1..Len(q)
    BY <1>8
  <2> HIDE DEF S
  <2>3. /\ r \in Seq(S) /\ Len(r) = Len(q) - 1
        /\ \A j \in 1..Len(q)-1 : r[j] = IF j < l THEN q[j] ELSE q[j+1]
    BY <2>1, <2>2, WithoutItem
  <2>4. QED
    BY <1>8, <2>3 DEF S
<1> HIDE DEF r
<1>11. p = r
  <2>1. ASSUME NEW j \in 1..n-1
        PROVE  p[j] = r[j]
    <3>1. j \in 1..n /\ j + 1 \in 1..n
      BY <1>3
    <3>2. p[j] = els[IF j < l THEN s[j] ELSE s[j+1]].key
      BY <1>4, <1>5, <1>9
    <3>3. QED
      BY <1>8, <1>10, <3>1, <3>2
  <2> HIDE DEF n
  <2>2. QED
    BY <1>4, <1>9, <1>10, <2>1, SameSequence
<1>12. Dict!Without(els[s[l]].key)
  <2>1. Dict!RemoveAt(q, l) = r
    BY DEF Dict!RemoveAt, RemoveAt, r
  <2>2. l \in DOMAIN q /\ q[l] = els[s[l]].key
    BY <1>8
  <2>3. KeysFrom(head)' = Dict!RemoveAt(KeysFrom(head), l)
    BY <1>7, <1>11, <2>1
  <2>4. QED
    BY <1>7, <2>2, <2>3 DEF Dict!Without
<1>13. Keyed(t, l)' = Keyed(s, l + 1)
  <2>1. Keyed(t, l)' = [j \in 1..Len(t)-l+1 |-> els'[t[l+j-1]].key]
    BY DEF Keyed
  <2>2. Keyed(s, l + 1) = [j \in 1..n-(l+1)+1 |-> els[s[l+1+j-1]].key]
    BY DEF Keyed
  <2>3. n \in Nat /\ Len(t) = n - 1 /\ l \in 1..n
    BY <1>3, <1>4
  <2> DEFINE m == Len(t)
  <2>4. n \in Nat /\ m = n - 1 /\ l \in 1..n
    BY <2>3
  <2> HIDE DEF n, m
  <2>5. m - l + 1 = n - (l + 1) + 1
    BY <2>4
  <2>6. ASSUME NEW j \in 1..n-(l+1)+1
        PROVE  els'[t[l+j-1]].key = els[s[l+1+j-1]].key
    <3>1. l + j - 1 \in 1..n-1 /\ ~(l + j - 1 < l) /\ l + j - 1 + 1 = l + 1 + j - 1
      BY <2>4
    <3> DEFINE i == l + j - 1
    <3>2. els'[t[i]].key = els[IF i < l THEN s[i] ELSE s[i+1]].key
      BY <1>5, <3>1 DEF n
    <3>3. QED
      BY <3>1, <3>2
  <2>7. QED
    BY <2>1, <2>2, <2>5, <2>6 DEF m
<1>14. QED
  <2>1. Remains(s[l], t)
    BY <1>1 DEF e
  <2>2. QED
    BY <1>1, <1>4, <1>12, <1>13, <2>1

\* Found is what is there.
LEMMA FoundIs ==
  ASSUME made \in Nat, TableOK, NEW s, Listed(s)
  PROVE  /\ \A e \in DOMAIN els : Find(els[e].key) = e
         /\ \A k \in Keys : Find(k) # Null =>
               \E l \in 1..Len(s) : Find(k) = s[l] /\ els[s[l]].key = k
<1>1. /\ Len(s) \in Nat /\ (head = Null <=> Len(s) = 0)
      /\ \A e \in DOMAIN els : \E i \in 1..Len(s) : s[i] = e
  BY ListedFacts
<1>2. CASE head = Null
  <2>1. \A i \in 1..Len(s) : FALSE
    BY <1>1, <1>2
  <2>2. \A k \in Keys : Find(k) = Null
    BY <1>2 DEF Find
  <2>3. QED
    BY <1>1, <2>1, <2>2
<1>3. CASE head # Null
  <2>1. Table(tbl, KeyOf)
    BY <1>3 DEF TableOK
  <2>2. \A i \in 1..Len(s) : els[s[i]].key \in Keys
    BY DEF Listed, Element
  <2>3. \A e \in DOMAIN els : els[e].key \in Keys
    BY <1>1, <2>2
  <2>4. \A e, f \in DOMAIN els : els[e].key = els[f].key => e = f
    BY DEF Listed
  <2>5. /\ \A e \in DOMAIN els : Find(els[e].key) = e
        /\ \A k \in Keys : (\A e \in DOMAIN els : els[e].key # k) => Find(k) = Null
    BY <1>3, <2>1, <2>3, <2>4, FindIs
  <2>6. ASSUME NEW k \in Keys, Find(k) # Null
        PROVE  \E l \in 1..Len(s) : Find(k) = s[l] /\ els[s[l]].key = k
    <3>1. PICK e \in DOMAIN els : els[e].key = k
      BY <2>5, <2>6
    <3>2. Find(k) = e
      BY <2>5, <3>1
    <3>3. QED
      BY <1>1, <3>1, <3>2
  <2>7. QED
    BY <2>5, <2>6
<1>4. QED
  BY <1>2, <1>3

LEMMA RemoveStep ==
  ASSUME made \in Nat, TableOK, WalkOK, NEW s, Listed(s), NEW k \in Keys, MapRemove(k)
  PROVE  MapInv' /\ Dict!MapRemove(k)
<1>1. /\ it = NoIterator /\ it' = it /\ made' = made /\ Find(k) # Null /\ Delete(Find(k))
  BY DEF MapRemove
<1>2. PICK l \in 1..Len(s) : Find(k) = s[l] /\ els[s[l]].key = k
  BY <1>1, FoundIs
<1>3. PICK t : t = RemoveAt(s, l)
  OBVIOUS
<1>4. Delete(s[l])
  BY <1>1, <1>2
<1>5. /\ Remains(s[l], t) /\ TableOK' /\ t \in Seq(Nat)
      /\ Dict!Without(els[s[l]].key)
  BY <1>1, <1>3, <1>4, DeleteStep
<1>6. Listed(t)' /\ DOMAIN els' = DOMAIN els \ {s[l]} /\ Null \notin DOMAIN els
  <2>1. Null \notin DOMAIN els
    BY ListedFacts
  <2>2. QED
    BY <1>5, <2>1 DEF Remains
<1>7. WalkOK'
  BY <1>1, <1>6, NoWalk
<1>8. MapInv'
  BY <1>1, <1>5, <1>6, <1>7 DEF MapInv
<1>9. Walks(s) /\ Walks(t)'
  BY <1>1, <1>6, WalksAre, WalksNext
<1>10. NoIterator.nx = Null
  BY DEF NoIterator
<1>11. KeysFrom(it.nx) = <<>> /\ KeysFrom(it.nx)' = <<>>
  BY <1>1, <1>9, <1>10 DEF Walks
<1>12. Dict!MapRemove(k)
  BY <1>1, <1>2, <1>5, <1>11 DEF Dict!MapRemove, Dict!walk
<1>13. QED
  BY <1>8, <1>12

LEMMA RemoveMetStep ==
  ASSUME made \in Nat, TableOK, WalkOK, NEW s, Listed(s), RemoveMet
  PROVE  MapInv' /\ \E k \in Keys : Dict!RemoveMet(k)
<1> DEFINE n == Len(s)
<1>1. /\ s \in Seq(Nat) /\ n \in Nat
      /\ \A i \in 1..n : s[i] # Null /\ s[i] \in DOMAIN els
      /\ \A i, j \in 1..n : s[i] = s[j] => i = j
      /\ \A e \in DOMAIN els : \E i \in 1..n : s[i] = e
  BY ListedFacts
<1>2. /\ it # NoIterator /\ it' = it /\ made' = made /\ it.met \in DOMAIN els
      /\ Delete(Find(els[it.met].key))
  BY DEF RemoveMet
<1>3. PICK l \in 1..n : s[l] = it.met
  BY <1>1, <1>2
<1>4. Delete(s[l])
  <2>1. Find(els[it.met].key) = it.met
    BY <1>2, FoundIs
  <2>2. QED
    BY <1>2, <1>3, <2>1
<1>5. PICK t : t = RemoveAt(s, l)
  OBVIOUS
<1>6. /\ Remains(s[l], t) /\ TableOK' /\ t \in Seq(Nat) /\ Len(t) = n - 1
      /\ \A j \in 1..n-1 : t[j] = IF j < l THEN s[j] ELSE s[j+1]
      /\ Dict!Without(els[s[l]].key)
      /\ Keyed(t, l)' = Keyed(s, l + 1)
  BY <1>2, <1>4, <1>5, DeleteStep
<1>7. Listed(t)' /\ DOMAIN els' = DOMAIN els \ {s[l]}
  BY <1>6 DEF Remains
<1>8. /\ it.nx = IF l = n THEN Null ELSE s[l+1]
      /\ l # n => s[l+1] # s[l] /\ s[l+1] # Null
      /\ l + 1 \in 1..n+1 /\ l \in 1..n-1+1 /\ (l = n <=> l > n - 1) /\ (l = n <=> l + 1 > n)
      /\ l # n => l \in 1..n-1
  <2>1. /\ l # n => l + 1 \in 1..n /\ l \in 1..n-1
        /\ l + 1 \in 1..n+1 /\ l \in 1..n-1+1 /\ (l = n <=> l > n - 1) /\ (l = n <=> l + 1 > n)
        /\ l + 1 # l
    <3>1. n \in Nat /\ l \in 1..n
      BY <1>1
    <3> HIDE DEF n
    <3>2. QED
      BY <3>1
  <2>2. els[s[l]].next = IF l = n THEN Null ELSE s[l+1]
    BY DEF Listed
  <2>3. els[it.met].next = it.nx
    BY <1>2 DEF WalkOK
  <2>4. QED
    BY <1>1, <1>3, <2>1, <2>2, <2>3
<1>9. WalkOK'
  <2>1. it.nx # Null => it.nx \in DOMAIN els'
    <3>1. it.nx # Null => it.nx \in DOMAIN els /\ it.nx # s[l]
      BY <1>8 DEF WalkOK
    <3>2. QED
      BY <1>7, <3>1
  <2>2. it.met \notin DOMAIN els'
    BY <1>3, <1>7
  <2>3. QED
    BY <1>2, <2>1, <2>2 DEF WalkOK
<1>10. MapInv'
  BY <1>2, <1>6, <1>7, <1>9 DEF MapInv
<1>11. Walks(s) /\ Walks(t)'
  BY <1>2, <1>7, WalksAre, WalksNext
<1>12. KeysFrom(it.nx) = Keyed(s, l + 1)
  BY <1>8, <1>11 DEF Walks
<1>13. KeysFrom(it.nx)' = Keyed(s, l + 1)
  <2> DEFINE f == IF l > Len(t) THEN Null ELSE t[l]
  <2>1. f = it.nx
    <3>1. CASE l = n
      BY <1>6, <1>8, <3>1
    <3>2. CASE l # n
      <4>1. t[l] = s[l+1]
        BY <1>6, <1>8, <3>2
      <4>2. QED
        BY <1>6, <1>8, <3>2, <4>1
    <3>3. QED
      BY <3>1, <3>2
  <2>2. l \in 1..Len(t)+1
    BY <1>6, <1>8
  <2>3. KeysFrom(f)' = Keyed(t, l)'
    BY <1>11, <2>2 DEF Walks
  <2> HIDE DEF f
  <2>4. it'.nx = f
    BY <1>2, <2>1
  <2>5. QED
    BY <1>6, <2>3, <2>4
<1> DEFINE k == els[s[l]].key
<1>14. k \in Keys
  BY DEF Listed, Element
<1>15. k \notin Dict!Range(Keyed(s, l + 1))
  <2> DEFINE q == Keyed(s, l + 1)
             m == n - (l + 1) + 1
  <2>1. q \in Seq(Keys) /\ Len(q) = m /\ \A j \in 1..m : q[j] = els[s[l+1+j-1]].key
    BY <1>8, KeyedFacts
  <2>2. \A j \in 1..m : q[j] # k
    <3>1. SUFFICES ASSUME NEW j \in 1..m
                   PROVE  els[s[l+1+j-1]].key # els[s[l]].key
      BY <2>1
    <3>2. l + 1 + j - 1 \in 1..n /\ l + 1 + j - 1 # l
      <4>1. n \in Nat /\ l \in 1..n
        BY <1>1
      <4> HIDE DEF n
      <4>2. QED
        BY <4>1
    <3>3. \A e, f \in DOMAIN els : els[e].key = els[f].key => e = f
      BY DEF Listed
    <3>4. PICK a : a = l + 1 + j - 1
      OBVIOUS
    <3>5. a \in 1..n /\ a # l
      BY <3>2, <3>4
    <3>6. s[a] \in DOMAIN els /\ s[l] \in DOMAIN els /\ s[a] # s[l]
      BY <1>1, <3>5
    <3>7. els[s[a]].key # els[s[l]].key
      BY <3>3, <3>6
    <3>8. QED
      BY <3>4, <3>7
  <2>3. DOMAIN q = 1..m
    BY <2>1
  <2> HIDE DEF q, m, k
  <2>4. k \notin Dict!Range(q)
    BY <2>2, <2>3 DEF Dict!Range
  <2>5. QED
    BY <2>4 DEF q
<1>16. Dict!Without(k)
  BY <1>6
<1> HIDE DEF k
<1>17. Dict!RemoveMet(k)
  BY <1>2, <1>12, <1>13, <1>15, <1>16 DEF Dict!RemoveMet, Dict!walk
<1>18. QED
  BY <1>10, <1>14, <1>17

LEMMA MapInit == Init => MapInv /\ Dict!Init
<1> SUFFICES ASSUME Init
             PROVE  MapInv /\ Dict!Init
  OBVIOUS
<1>1. els = <<>> /\ head = Null /\ tbl = NoTable /\ it = NoIterator /\ made = 0
  BY DEF Init
<1> DEFINE t == <<>>
<1>2. Len(t) = 0 /\ t \in Seq(1..made) /\ t \in Seq(Nat) /\ IsInjective(t) /\ ToSet(t) = {}
  BY DEF IsInjective, ToSet
<1>3. DOMAIN els = {} /\ tbl.tail = Null
  BY <1>1 DEF NoTable
<1> HIDE DEF t
<1>4. Listed(t)
  <2>1. \A i \in 1..Len(t) : FALSE
    BY <1>2
  <2>2. QED
    BY <1>1, <1>2, <1>3, <2>1 DEF Listed
<1>5. TableOK /\ made \in Nat
  BY <1>1 DEF TableOK
<1>6. /\ NoIterator \in [el : Nat, nx : Nat, met : Nat]
      /\ NoIterator.nx = Null /\ NoIterator.met = Null
  BY DEF NoIterator, Null
<1>7. WalkOK
  BY <1>1, <1>3, <1>6 DEF WalkOK
<1>8. MapInv
  BY <1>2, <1>4, <1>5, <1>7 DEF MapInv
<1>9. KeysFrom(Null) = <<>>
  <2>1. Walks(t)
    BY <1>4, <1>5, WalksAre
  <2>2. QED
    BY <2>1 DEF Walks
<1>10. Dict!Init
  BY <1>1, <1>6, <1>9 DEF Dict!Init
<1>11. QED
  BY <1>8, <1>10

\* Every step of the map keeps its invariant, and is one of the dictionary.
LEMMA MapStep ==
  ASSUME MapInv, [Next]_vars
  PROVE  MapInv' /\ [Dict!Next]_<<KeysFrom(head), it # NoIterator, KeysFrom(it.nx)>>
<1>1. made \in Nat /\ TableOK /\ WalkOK
  BY DEF MapInv
<1>2. PICK s \in Seq(Nat) : Listed(s)
  BY DEF MapInv
<1>3. CASE IterateFirst
  BY <1>1, <1>2, <1>3, BeginStep DEF Dict!Next
<1>4. CASE IterateNext
  BY <1>1, <1>2, <1>4, IterateStep DEF Dict!Next
<1>5. CASE RemoveMet
  BY <1>1, <1>2, <1>5, RemoveMetStep DEF Dict!Next
<1>6. CASE Free
  BY <1>1, <1>2, <1>6, FreeStep DEF Dict!Next
<1>7. ASSUME NEW k \in Keys, Insert(k)
      PROVE  MapInv' /\ Dict!Next
  BY <1>1, <1>2, <1>7, InsertStep DEF Dict!Next
<1>8. ASSUME NEW k \in Keys, InsertNothing(k)
      PROVE  MapInv' /\ Dict!Next
  <2>1. \A f \in DOMAIN els : els[f].key # k
    <3>1. Find(k) = Null /\ Null \notin DOMAIN els
      BY <1>1, <1>2, <1>8, ListedFacts DEF InsertNothing
    <3>2. \A e \in DOMAIN els : Find(els[e].key) = e
      BY <1>1, <1>2, FoundIs
    <3>3. QED
      BY <3>1, <3>2
  <2>2. QED
    BY <1>1, <1>2, <1>8, <2>1, NothingStep DEF Dict!Next
<1>9. ASSUME NEW k \in Keys, MapRemove(k)
      PROVE  MapInv' /\ Dict!Next
  BY <1>1, <1>2, <1>9, RemoveStep DEF Dict!Next
<1>10. CASE UNCHANGED vars
  <2>1. UNCHANGED <<els, head, tbl, it, made>>
    BY <1>10 DEF vars
  <2>2. made' \in Nat /\ Listed(s)' /\ TableOK'
    <3>1. made' \in {made, made + 1} /\ UNCHANGED <<els, head, tbl>>
      BY <2>1
    <3>2. QED
      BY <1>1, <1>2, <3>1, StayListed
  <2>3. WalkOK'
    BY <1>1, <2>1 DEF WalkOK
  <2>4. MapInv'
    BY <1>2, <2>2, <2>3 DEF MapInv
  <2>5. KeysFrom(head)' = KeysFrom(head) /\ KeysFrom(it.nx)' = KeysFrom(it.nx)
    BY <2>1 DEF KeysFrom, From
  <2>6. QED
    BY <2>1, <2>4, <2>5
<1>11. QED
  BY <1>3, <1>4, <1>5, <1>6, <1>7, <1>8, <1>9, <1>10 DEF Next

\* The list of a map links its elements in the order they were inserted, and
\* each is found by its key in the bucket it was left in, whatever was expanded
\* and removed (libks/map.c).
THEOREM MapKept == Spec => [](TypeOK /\ ListExact /\ FindExact)
<1>1. Init => MapInv
  BY MapInit
<1>2. MapInv /\ [Next]_vars => MapInv'
  BY MapStep
<1>3. QED
  BY <1>1, <1>2, MapPromises, PTL DEF Spec

\* Every operation of the map is one of a dictionary, and walking along the list
\* meets what a dictionary would, whatever is removed on the way (MAP_INSERT(),
\* MAP_REMOVE(), MAP_ITERATE()).
THEOREM MapIsDictionary == Spec => ImplementsDictionary
<1>1. Init => MapInv /\ Dict!Init
  BY MapInit
<1>2. MapInv /\ [Next]_vars =>
         MapInv' /\ [Dict!Next]_<<KeysFrom(head), it # NoIterator, KeysFrom(it.nx)>>
  BY MapStep
<1>3. QED
  BY <1>1, <1>2, PTL DEF Spec, ImplementsDictionary, Dict!Spec

-----------------------------------------------------------------------------
(* The buffer: how it grows.                                                 *)

Cell == Chars \cup {Junk}

\* The sizes it is doubled through.
Doubles(f, siz, newlen) ==
    f = [i \in 0..newlen |-> IF i = 0 THEN IF siz = 0 THEN First ELSE siz
                             ELSE Twice(f[i - 1], newlen)]

LEMMA DoublesSteps ==
  ASSUME NEW siz, NEW newlen \in Nat
  PROVE  \E f : Doubles(f, siz, newlen)
<1> DEFINE start == IF siz = 0 THEN First ELSE siz
           Is(f, m) == f = [i \in 0..m |-> IF i = 0 THEN start ELSE Twice(f[i-1], newlen)]
           T == {m \in Nat : \E f : Is(f, m)}
<1> HIDE DEF start
<1>1. ASSUME NEW f, NEW m \in Nat, Is(f, m)
      PROVE  \E g : Is(g, m + 1)
  <2> DEFINE g == [i \in 0..m+1 |-> IF i \in 0..m THEN f[i] ELSE Twice(f[m], newlen)]
  <2>1. ASSUME NEW i \in 0..m+1
        PROVE  g[i] = IF i = 0 THEN start ELSE Twice(g[i-1], newlen)
    <3>1. CASE i \in 0..m
      <4>1. g[i] = f[i] /\ f[i] = IF i = 0 THEN start ELSE Twice(f[i-1], newlen)
        BY <1>1, <3>1
      <4>2. i # 0 => i - 1 \in 0..m /\ i - 1 \in 0..m+1
        BY <3>1
      <4>3. i # 0 => g[i-1] = f[i-1]
        BY <4>2
      <4>4. QED
        BY <4>1, <4>3
    <3>2. CASE i = m + 1
      <4>1. i # 0 /\ i - 1 = m /\ m \in 0..m /\ m \in 0..m+1 /\ i \notin 0..m
        BY <3>2
      <4>2. g[m] = f[m] /\ g[i] = Twice(f[m], newlen)
        BY <4>1
      <4>3. QED
        BY <4>1, <4>2
    <3>3. QED
      BY <3>1, <3>2
  <2>2. g = [i \in 0..m+1 |-> g[i]]
    OBVIOUS
  <2> HIDE DEF g
  <2>3. QED
    BY <2>1, <2>2
<1>2. 0 \in T
  <2>1. Is([i \in 0..0 |-> start], 0)
    OBVIOUS
  <2>2. QED
    BY <2>1
<1>3. ASSUME NEW m \in 0..newlen-1, m \in T
      PROVE  m + 1 \in T
  <2>1. PICK f : Is(f, m)
    BY <1>3
  <2>2. m \in Nat /\ m + 1 \in Nat
    OBVIOUS
  <2> HIDE DEF Is
  <2>3. \E g : Is(g, m + 1)
    BY <1>1, <2>1, <2>2
  <2>4. QED
    BY <2>2, <2>3
<1> HIDE DEF T
<1>4. 0..newlen \subseteq T
  BY <1>2, <1>3, UpTo
<1>5. newlen \in T
  BY <1>4
<1>6. QED
  BY <1>5 DEF T, Doubles, start

\* The size is enough, and no larger than can be, or there was an overflow.
LEMMA DoubledIs ==
  ASSUME NEW siz \in 0..UMax, NEW newlen \in Nat, NEW d, d = Doubled(siz, newlen)
  PROVE  d = 0 \/ d \in newlen..UMax
<1> DEFINE f == CHOOSE f : f = [i \in 0..newlen |-> IF i = 0 THEN IF siz = 0 THEN First ELSE siz
                                                    ELSE Twice(f[i - 1], newlen)]
           ok(i, v) == v = 0 \/ (v \in 1..UMax /\ (v >= newlen \/ v > i))
           T == {i \in Nat : ok(i, f[i])}
<1>1. UMax \in Nat /\ First \in 1..UMax
  BY BufferAssumption
<1>2. d = f[newlen]
  BY DEF Doubled
<1>3. Doubles(f, siz, newlen)
  <2>1. \E g : Doubles(g, siz, newlen)
    BY DoublesSteps
  <2>2. QED
    BY <2>1 DEF f, Doubles
<1> HIDE DEF f
<1>4. /\ f[0] = IF siz = 0 THEN First ELSE siz
      /\ \A i \in 0..newlen-1 : f[i+1] = Twice(f[i], newlen)
  <2>1. 0 \in 0..newlen
    OBVIOUS
  <2>2. \A i \in 0..newlen-1 : i + 1 \in 0..newlen /\ i + 1 # 0 /\ i + 1 - 1 = i
    OBVIOUS
  <2>3. QED
    BY <1>3, <2>1, <2>2 DEF Doubles
<1>5. 0 \in T
  BY <1>1, <1>4
<1>6. ASSUME NEW i \in 0..newlen-1, i \in T
      PROVE  i + 1 \in T
  <2> DEFINE x == f[i]
             y == f[i+1]
  <2>1. x = 0 \/ (x \in 1..UMax /\ (x >= newlen \/ x > i))
    BY <1>6
  <2>2. y = IF x >= newlen THEN x ELSE IF x > UMax \div 2 THEN 0 ELSE 2 * x
    BY <1>4 DEF Twice
  <2>3. ok(i + 1, y)
    <3> HIDE DEF x, y
    <3> DEFINE h == UMax \div 2
    <3>1. h \in Nat /\ 2 * h <= UMax
      BY <1>1
    <3>2. y = IF x >= newlen THEN x ELSE IF x > h THEN 0 ELSE 2 * x
      BY <2>2
    <3> HIDE DEF h
    <3>3. CASE x = 0
      BY <1>1, <3>1, <3>2, <3>3
    <3>4. CASE x \in 1..UMax /\ x >= newlen
      BY <1>1, <3>2, <3>4
    <3>5. CASE x \in 1..UMax /\ ~(x >= newlen) /\ x > h
      BY <1>1, <3>1, <3>2, <3>5
    <3>6. CASE x \in 1..UMax /\ ~(x >= newlen) /\ ~(x > h)
      <4>1. x > i
        BY <2>1, <3>6
      <4>2. y = 2 * x
        BY <3>2, <3>6
      <4>3. 2 * x \in 1..UMax /\ 2 * x > i + 1
        BY <1>1, <3>1, <3>6, <4>1
      <4>4. QED
        BY <4>2, <4>3
    <3>7. QED
      BY <2>1, <3>3, <3>4, <3>5, <3>6
  <2>4. i + 1 \in Nat
    OBVIOUS
  <2>5. QED
    BY <2>3, <2>4
<1>7. newlen \in T
  <2> HIDE DEF T
  <2>1. 0..newlen \subseteq T
    BY <1>5, <1>6, UpTo
  <2>2. QED
    BY <2>1
<1>8. QED
  BY <1>1, <1>2, <1>7

\* The memory m with r for n more characters behind the first l.
Holds(r, m, l, n) ==
    /\ r \in Seq(Cell) /\ Len(r) \in 0..UMax /\ Len(r) >= l + n /\ Len(r) >= Len(m)
    /\ \A i \in 1..Len(m) : r[i] = m[i]

LEMMA ReservedIs ==
  ASSUME NEW m \in Seq(Cell), Len(m) \in 0..UMax, NEW l \in 0..Len(m), NEW n \in Nat,
         NEW overshoot \in BOOLEAN, NEW r \in Reserved(m, l, n, overshoot)
  PROVE  Holds(r, m, l, n)
<1> DEFINE k == Len(m)
           newlen == l + n
           d == IF overshoot THEN Doubled(k, newlen) ELSE newlen
<1>1. UMax \in Nat /\ k \in 0..UMax /\ newlen \in Nat /\ l \in 0..k
  BY BufferAssumption
<1>2. /\ newlen <= UMax
      /\ \/ Enough(m, l, n) /\ r = m
         \/ ~Enough(m, l, n) /\ r = Resized(m, d) /\ (overshoot => d # 0)
  <2>1. r \in IF newlen > UMax THEN {}
              ELSE IF Enough(m, l, n) THEN {m}
              ELSE IF overshoot /\ d = 0 THEN {} ELSE {Resized(m, d)}
    BY DEF Reserved
  <2> HIDE DEF d, newlen
  <2>2. QED
    BY <1>1, <2>1
<1>3. d = 0 \/ d \in newlen..UMax
  <2>1. CASE overshoot
    <3> HIDE DEF newlen, k
    <3>1. \A x : x = Doubled(k, newlen) => x = 0 \/ x \in newlen..UMax
      BY <1>1, DoubledIs
    <3>2. QED
      BY <2>1, <3>1
  <2>2. CASE ~overshoot
    BY <1>1, <1>2, <2>2
  <2>3. QED
    BY <2>1, <2>2
<1>4. ~overshoot => d = newlen
  OBVIOUS
<1>5. CASE Enough(m, l, n)
  BY <1>1, <1>2, <1>5 DEF Enough, Holds
<1>6. CASE ~Enough(m, l, n)
  <2>1. r = Resized(m, d)
    BY <1>2, <1>6
  <2>2. k = 0 \/ k < newlen
    BY <1>1, <1>6 DEF Enough
  <2>3. d \in newlen..UMax /\ d \in Nat
    <3> HIDE DEF d, newlen, k
    <3>1. overshoot => d # 0
      BY <1>2, <1>6
    <3>2. QED
      BY <1>1, <1>2, <1>3, <1>4, <3>1
  <2> HIDE DEF d, newlen, k
  <2>4. d >= k
    BY <1>1, <2>2, <2>3
  <2>5. r = [i \in 1..d |-> IF i <= k THEN m[i] ELSE Junk]
    BY <2>1 DEF Resized, k
  <2>6. \A i \in 1..d : r[i] \in Cell
    <3>1. \A i \in 1..d : i <= k => m[i] \in Cell
      BY <1>1 DEF k
    <3>2. Junk \in Cell
      BY DEF Cell
    <3>3. QED
      BY <2>5, <3>1, <3>2
  <2>7. r \in [1..d -> Cell]
    BY <2>5, <2>6
  <2>8. r \in Seq(Cell) /\ Len(r) = d
    BY <2>3, <2>7, FunctionIs
  <2>9. \A i \in 1..k : r[i] = m[i]
    BY <1>1, <2>3, <2>4, <2>5
  <2>10. /\ Len(r) \in 0..UMax /\ Len(r) >= newlen /\ Len(r) >= k
    BY <1>1, <2>3, <2>4, <2>8
  <2>11. QED
    BY <2>8, <2>9, <2>10 DEF Holds, k, newlen
<1>7. QED
  BY <1>5, <1>6

\* The memory m with str behind the first l characters.
Overwritten(r, m, l, str) ==
    /\ r \in Seq(Cell) /\ Len(r) = Len(m)
    /\ \A i \in 1..l : r[i] = m[i]
    /\ \A i \in 1..Len(str) : r[l + i] = str[i]

LEMMA CopiedIs ==
  ASSUME NEW m \in Seq(Cell), NEW l \in Nat, NEW str \in Seq(Chars), NEW r,
         r = Copied(m, l, str), l + Len(str) <= Len(m)
  PROVE  Overwritten(r, m, l, str)
<1> DEFINE k == Len(m)
           n == Len(str)
<1>1. k \in Nat /\ n \in Nat /\ l + n <= k
  OBVIOUS
<1>2. r = [i \in 1..k |-> IF i - l \in 1..n THEN str[i - l] ELSE m[i]]
  BY DEF Copied
<1>3. \A i \in 1..k : m[i] \in Cell
  OBVIOUS
<1>4. \A i \in 1..n : str[i] \in Cell
  BY DEF Cell
<1> HIDE DEF k, n
<1>5. r \in [1..k -> Cell]
  BY <1>2, <1>3, <1>4
<1>6. r \in Seq(Cell) /\ Len(r) = k
  BY <1>1, <1>5, FunctionIs
<1>7. \A i \in 1..l : i \in 1..k /\ i - l \notin 1..n
  BY <1>1
<1>8. \A i \in 1..l : r[i] = m[i]
  BY <1>2, <1>7
<1>9. \A i \in 1..n : l + i \in 1..k /\ l + i - l = i
  BY <1>1
<1>10. \A i \in 1..n : r[l + i] = str[i]
  BY <1>2, <1>9
<1>11. QED
  BY <1>6, <1>8, <1>10 DEF k, n, Overwritten

-----------------------------------------------------------------------------
(* The inductive invariant.                                                  *)

Joined(ls) == FlattenSeq([i \in DOMAIN ls |-> Append(ls[i], Newline)])

\* The content is the text, in memory of its own.
Stored ==
    /\ mem \in Seq(Cell) /\ Len(mem) \in 0..UMax /\ len \in 0..Len(mem)
    /\ text \in Seq(Chars) /\ Len(text) = len /\ \A i \in 1..len : mem[i] = text[i]

Flags ==
    /\ exact \in BOOLEAN /\ doreserve \in BOOLEAN /\ changed \in BOOLEAN
    /\ pc \in {"idle", "reading", "read", "lines", "end"}

\* What was read of the file is the content, and there is room for more unless
\* the size was that of the file.
FileRead ==
    /\ file = NoFile => ~exact /\ off = 0 /\ ~doreserve /\ pc \notin {"reading", "read"}
    /\ file # NoFile =>
          /\ file \in 1..Len(Text) /\ off \in 0..file
          /\ len = off /\ text = SubSeq(Text, 1, off)
          /\ ~exact => Len(mem) >= 8
          /\ pc = "idle" => off = 0
          /\ exact /\ ~changed => Len(mem) = file /\ ~doreserve
          /\ pc = "reading" /\ ~doreserve /\ ~changed => Len(mem) = file
          /\ pc = "reading" /\ doreserve /\ ~exact => len < Len(mem)
          /\ pc = "read" => (changed \/ off = file) /\ (doreserve /\ ~exact => off = file)

\* The lines got so far are the text up to where getting lines stopped.
LinesGot ==
    /\ goff \in 0..len+1 /\ lines \in Seq(Seq(Chars)) /\ LinesSplit
    /\ pc \notin {"lines", "end"} => goff = 0 /\ lines = <<>>
    /\ pc = "lines" =>
          Joined(lines) = IF goff <= len THEN SubSeq(text, 1, goff) ELSE Append(text, Newline)

BufferInv == Stored /\ Flags /\ FileRead /\ LinesGot

LEMMA BufferPromises ==
  ASSUME BufferInv
  PROVE  /\ BufferTypeOK /\ Appended /\ ReadsAll /\ ReadsPrefix
         /\ LinesPartition /\ LinesSplit
<1>1. BufferTypeOK
  BY DEF BufferInv, Stored, Flags, LinesGot, BufferTypeOK, Siz
<1>2. Content = text
  <2>1. /\ Content \in Seq(Cell) /\ Len(Content) = len
        /\ \A i \in 1..len : Content[i] = mem[i]
    BY DEF BufferInv, Stored, Content
  <2>2. text \in Seq(Cell) /\ Len(text) = len
    BY DEF BufferInv, Stored, Cell
  <2>3. \A i \in 1..len : Content[i] = text[i]
    BY <2>1 DEF BufferInv, Stored
  <2>4. QED
    BY <2>1, <2>2, <2>3, SameSequence
<1>3. ReadsAll /\ ReadsPrefix
  <2>1. pc = "read" => file # NoFile
    BY DEF BufferInv, FileRead
  <2>2. QED
    BY <1>2, <2>1 DEF BufferInv, FileRead, ReadsAll, ReadsPrefix
<1>4. LinesPartition
  <2>1. SUFFICES ASSUME pc = "lines", goff >= len
                 PROVE  Joined(lines) \in {text, Append(text, Newline)}
    BY <1>2 DEF LinesPartition, Joined
  <2>2. CASE goff <= len
    <3>1. goff = len /\ text \in Seq(Chars) /\ Len(text) = len
      BY <2>1, <2>2 DEF BufferInv, Stored, LinesGot
    <3>2. SubSeq(text, 1, len) = text
      BY <3>1
    <3>3. QED
      BY <2>1, <2>2, <3>1, <3>2 DEF BufferInv, LinesGot
  <2>3. CASE ~(goff <= len)
    BY <2>1, <2>3 DEF BufferInv, LinesGot
  <2>4. QED
    BY <2>2, <2>3
<1>5. QED
  BY <1>1, <1>2, <1>3, <1>4 DEF Appended, BufferInv, LinesGot

\* Appending and taking away leave the rest alone.
LEMMA ContentStays ==
  ASSUME BufferInv, Appending, UNCHANGED <<pc, fileVars, lineVars>>, Stored'
  PROVE  BufferInv'
<1>1. /\ pc = "idle" /\ file = NoFile /\ pc' = pc /\ file' = file /\ off' = off
      /\ changed' = changed /\ exact' = exact /\ doreserve' = doreserve
      /\ goff' = goff /\ line' = line /\ lines' = lines
  BY DEF Appending, fileVars, lineVars
<1>2. Flags' /\ FileRead'
  BY <1>1 DEF BufferInv, Flags, FileRead
<1>3. LinesGot'
  <2>1. goff = 0 /\ lines = <<>> /\ LinesSplit
    BY <1>1 DEF BufferInv, LinesGot
  <2>2. 0 \in 0..len'+1
    <3>1. len' \in Nat
      BY DEF Stored
    <3>2. \A n \in Nat : 0 \in 0..n+1
      OBVIOUS
    <3>3. QED
      BY <3>1, <3>2
  <2>3. LinesSplit'
    BY <1>1, <2>1 DEF LinesSplit
  <2>4. QED
    BY <1>1, <2>1, <2>2, <2>3 DEF LinesGot
<1>4. QED
  BY <1>2, <1>3 DEF BufferInv

LEMMA ExtendedText ==
  ASSUME NEW S, NEW s \in Seq(S), NEW t \in Seq(S)
  PROVE  /\ s \o t \in Seq(S) /\ Len(s \o t) = Len(s) + Len(t)
         /\ \A i \in 1..Len(s)+Len(t) :
               (s \o t)[i] = IF i <= Len(s) THEN s[i] ELSE t[i - Len(s)]
OBVIOUS

LEMMA NulIs == Nul \in Chars /\ Newline \in Chars /\ UMax \in Nat
  BY BufferAssumption

\* What is written may be more than what is counted.
LEMMA WrittenStored ==
  ASSUME Stored, NEW str \in Seq(Chars), NEW written \in Seq(Chars), NEW n \in Nat,
         Len(written) = n, Len(str) <= n, \A i \in 1..Len(str) : written[i] = str[i],
         Written(n, written, str)
  PROVE  Stored'
<1>1. CASE UNCHANGED <<mem, len, text>>
  BY <1>1 DEF Stored
<1>2. CASE \E m \in Reserved(mem, len, n, TRUE) :
              /\ mem' = Copied(m, len, written)
              /\ len' = len + Len(str) /\ text' = text \o str
  <2>1. PICK m \in Reserved(mem, len, n, TRUE) :
              /\ mem' = Copied(m, len, written)
              /\ len' = len + Len(str) /\ text' = text \o str
    BY <1>2
  <2>2. /\ mem \in Seq(Cell) /\ Len(mem) \in 0..UMax /\ len \in 0..Len(mem)
        /\ text \in Seq(Chars) /\ Len(text) = len /\ \A i \in 1..len : mem[i] = text[i]
    BY DEF Stored
  <2>3. Holds(m, mem, len, n)
    BY <2>2, ReservedIs
  <2>4. m \in Seq(Cell) /\ Len(m) \in 0..UMax /\ Len(m) >= len + n
        /\ \A i \in 1..Len(mem) : m[i] = mem[i]
    BY <2>3 DEF Holds
  <2>5. len \in Nat /\ len + Len(written) <= Len(m)
    BY <2>2, <2>4
  <2>6. /\ mem' \in Seq(Cell) /\ Len(mem') = Len(m)
        /\ \A i \in 1..len : mem'[i] = m[i]
        /\ \A i \in 1..Len(written) : mem'[len + i] = written[i]
    <3>1. PICK r : r = Copied(m, len, written)
      OBVIOUS
    <3>2. Overwritten(r, m, len, written)
      BY <2>4, <2>5, <3>1, CopiedIs
    <3>3. QED
      BY <2>1, <3>1, <3>2 DEF Overwritten
  <2>7. /\ text \o str \in Seq(Chars) /\ Len(text \o str) = Len(text) + Len(str)
        /\ \A i \in 1..Len(text)+Len(str) :
              (text \o str)[i] = IF i <= Len(text) THEN text[i] ELSE str[i - Len(text)]
    BY <2>2, ExtendedText
  <2> DEFINE a == Len(mem)
             c == Len(str)
             t == text \o str
  <2>8. a \in Nat /\ c \in Nat /\ len \in 0..a /\ c <= n
    BY <2>2
  <2> HIDE DEF a, c, t
  <2>9. ASSUME NEW i \in 1..len+c
        PROVE  mem'[i] = t[i]
    <3>1. CASE i \in 1..len
      <4>1. i \in 1..a /\ i <= len
        BY <2>8, <3>1
      <4>2. m[i] = mem[i] /\ mem[i] = text[i] /\ mem'[i] = m[i]
        BY <2>2, <2>4, <2>6, <3>1, <4>1 DEF a
      <4>3. t[i] = text[i]
        BY <2>2, <2>7, <4>1 DEF t, c
      <4>4. QED
        BY <4>2, <4>3
    <3>2. CASE i \notin 1..len
      <4> DEFINE j == i - len
      <4>1. j \in 1..c /\ j \in 1..n /\ len + j = i /\ ~(i <= len)
        BY <2>8, <3>2
      <4>2. t[i] = str[j]
        BY <2>2, <2>7, <4>1 DEF t, c
      <4> HIDE DEF j
      <4>3. mem'[len + j] = written[j] /\ written[j] = str[j]
        BY <2>6, <4>1 DEF c
      <4>4. QED
        BY <4>1, <4>2, <4>3
    <3>3. QED
      BY <3>1, <3>2
  <2>10. len' = len + c /\ text' = t /\ t \in Seq(Chars) /\ Len(t) = len + c
    BY <2>1, <2>2, <2>7 DEF c, t
  <2>11. len' \in 0..Len(mem') /\ Len(mem') \in 0..UMax
    <3> DEFINE b == Len(m)
    <3>1. b \in Nat /\ b \in 0..UMax /\ b >= len + n /\ Len(mem') = b
      BY <2>4, <2>6
    <3> HIDE DEF b
    <3>2. QED
      BY <2>8, <2>10, <3>1
  <2>12. QED
    BY <2>6, <2>9, <2>10, <2>11 DEF Stored
<1>3. QED
  BY <1>1, <1>2 DEF Written

LEMMA PutsInv ==
  ASSUME BufferInv, NEW str \in Strings, Puts(str)
  PROVE  BufferInv'
<1>1. str \in Seq(Chars)
  BY BufferAssumption
<1>2. /\ Written(Len(str), str, str) /\ Stored /\ Len(str) \in Nat /\ Len(str) <= Len(str)
      /\ Appending /\ UNCHANGED <<pc, fileVars, lineVars>>
  BY <1>1 DEF Puts, BufferInv
<1>3. Stored'
  BY <1>1, <1>2, WrittenStored
<1>4. QED
  BY <1>2, <1>3, ContentStays

LEMMA PrintfInv ==
  ASSUME BufferInv, NEW str \in Strings, Printf(str)
  PROVE  BufferInv'
<1> DEFINE ended == Append(str, Nul)
<1>1. str \in Seq(Chars) /\ Len(str) \in Nat /\ Nul \in Chars
  BY BufferAssumption
<1>2. /\ ended \in Seq(Chars) /\ Len(ended) = Len(str) + 1
      /\ \A i \in 1..Len(str) : ended[i] = str[i]
  BY <1>1, AppendIs
<1>3. /\ Written(Len(str) + 1, ended, str) /\ Stored
      /\ Appending /\ UNCHANGED <<pc, fileVars, lineVars>>
  BY DEF Printf, BufferInv
<1>4. Len(str) + 1 \in Nat /\ Len(str) <= Len(str) + 1
  BY <1>1
<1> HIDE DEF ended
<1>5. Stored'
  BY <1>1, <1>2, <1>3, <1>4, WrittenStored
<1>6. QED
  BY <1>3, <1>5, ContentStays

LEMMA ResetInv ==
  ASSUME BufferInv, Reset
  PROVE  BufferInv'
<1>1. /\ len' = 0 /\ text' = <<>> /\ mem' = mem
      /\ Appending /\ UNCHANGED <<pc, fileVars, lineVars>>
  BY DEF Reset
<1>2. /\ mem \in Seq(Cell) /\ Len(mem) \in 0..UMax /\ Len(mem) \in Nat
      /\ <<>> \in Seq(Chars) /\ Len(<<>>) = 0
  BY DEF BufferInv, Stored
<1>3. Stored'
  BY <1>1, <1>2 DEF Stored
<1>4. QED
  BY <1>1, <1>3, ContentStays

LEMMA PopInv ==
  ASSUME BufferInv, NEW n \in Nat, Pop(n)
  PROVE  BufferInv'
<1>1. /\ len' = len - (IF n > len THEN len ELSE n)
      /\ text' = SubSeq(text, 1, len') /\ mem' = mem
      /\ Appending /\ UNCHANGED <<pc, fileVars, lineVars>>
  BY DEF Pop
<1>2. /\ mem \in Seq(Cell) /\ Len(mem) \in 0..UMax /\ len \in 0..Len(mem)
      /\ text \in Seq(Chars) /\ Len(text) = len /\ \A i \in 1..len : mem[i] = text[i]
  BY DEF BufferInv, Stored
<1>3. PICK l : l = len'
  OBVIOUS
<1>4. l \in 0..len
  BY <1>1, <1>2, <1>3
<1>5. /\ SubSeq(text, 1, l) \in Seq(Chars) /\ Len(SubSeq(text, 1, l)) = l
      /\ \A i \in 1..l : SubSeq(text, 1, l)[i] = text[i]
  BY <1>2, <1>4
<1>6. l \in 0..Len(mem) /\ \A i \in 1..l : i \in 1..len
  BY <1>2, <1>4
<1>7. Stored'
  BY <1>1, <1>2, <1>3, <1>5, <1>6 DEF Stored
<1>8. QED
  BY <1>1, <1>7, ContentStays

LEMMA StrInv ==
  ASSUME BufferInv, Str
  PROVE  BufferInv'
<1>1. /\ \/ mem' = <<>> /\ len' = 0 /\ text' = <<>>
         \/ UNCHANGED <<mem, len, text>>
      /\ Appending /\ UNCHANGED <<pc, fileVars, lineVars>>
  BY DEF Str
<1>2. CASE mem' = <<>> /\ len' = 0 /\ text' = <<>>
  <2>1. /\ <<>> \in Seq(Cell) /\ <<>> \in Seq(Chars) /\ Len(<<>>) = 0
        /\ 0 \in 0..UMax
    BY NulIs
  <2>2. Stored'
    BY <1>2, <2>1 DEF Stored
  <2>3. QED
    BY <1>1, <2>2, ContentStays
<1>3. CASE UNCHANGED <<mem, len, text>>
  <2>1. Stored'
    BY <1>3 DEF BufferInv, Stored
  <2>2. QED
    BY <1>1, <2>1, ContentStays
<1>4. QED
  BY <1>1, <1>2, <1>3

-----------------------------------------------------------------------------
(* Reading a file.                                                           *)

LEMMA OpenInv ==
  ASSUME BufferInv, NEW n \in 1..Len(Text), Open(n)
  PROVE  BufferInv'
<1>1. /\ pc = "idle" /\ file = NoFile /\ len = 0 /\ Len(mem) >= 8 /\ file' = n
      /\ mem' = mem /\ len' = len /\ pc' = pc /\ exact' = exact /\ doreserve' = doreserve
      /\ off' = off /\ changed' = changed /\ text' = text
      /\ goff' = goff /\ line' = line /\ lines' = lines
  BY DEF Open, Siz, lineVars
<1>2. Stored' /\ Flags'
  BY <1>1 DEF BufferInv, Stored, Flags
<1>3. LinesGot'
  BY <1>1 DEF BufferInv, LinesGot, LinesSplit
<1>4. FileRead'
  <2>1. ~exact /\ off = 0 /\ ~doreserve
    BY <1>1 DEF BufferInv, FileRead
  <2>2. text = <<>> /\ SubSeq(Text, 1, 0) = <<>>
    BY <1>1, BufferAssumption DEF BufferInv, Stored
  <2>3. n # NoFile /\ 0 \in 0..n
    BY DEF NoFile
  <2>4. QED
    BY <1>1, <2>1, <2>2, <2>3 DEF FileRead
<1>5. QED
  BY <1>2, <1>3, <1>4 DEF BufferInv

LEMMA ReadBeginInv ==
  ASSUME BufferInv, ReadBegin
  PROVE  BufferInv'
<1>1. /\ pc = "idle" /\ file # NoFile /\ pc' = "reading"
      /\ doreserve' = (file # Len(mem) - len)
      /\ mem' = mem /\ len' = len /\ file' = file /\ exact' = exact
      /\ off' = off /\ changed' = changed /\ text' = text
      /\ goff' = goff /\ line' = line /\ lines' = lines
  BY DEF ReadBegin, Siz, lineVars
<1>2. Stored'
  BY <1>1 DEF BufferInv, Stored
<1>3. Flags'
  BY <1>1 DEF BufferInv, Flags
<1>4. LinesGot'
  BY <1>1 DEF BufferInv, LinesGot, LinesSplit
<1>5. FileRead'
  <2>1. /\ file \in 1..Len(Text) /\ off \in 0..file
        /\ len = off /\ text = SubSeq(Text, 1, off) /\ off = 0
        /\ ~exact => Len(mem) >= 8
        /\ exact /\ ~changed => Len(mem) = file /\ ~doreserve
    BY <1>1 DEF BufferInv, FileRead
  <2>2. Len(mem) \in Nat
    BY DEF BufferInv, Stored
  <2> DEFINE k == Len(mem)
  <2> HIDE DEF k
  <2>3. k \in Nat /\ doreserve' = (file # k) /\ (~exact => len < k)
    BY <1>1, <2>1, <2>2 DEF k
  <2>4. QED
    BY <1>1, <2>1, <2>3 DEF FileRead, k
<1>6. QED
  BY <1>2, <1>3, <1>4, <1>5 DEF BufferInv

LEMMA PartIs ==
  ASSUME NEW S, NEW s \in Seq(S), NEW i \in Nat, NEW n \in Nat, i + n <= Len(s)
  PROVE  /\ SubSeq(s, i + 1, i + n) \in Seq(S) /\ Len(SubSeq(s, i + 1, i + n)) = n
         /\ \A j \in 1..n : SubSeq(s, i + 1, i + n)[j] = s[i + j]
OBVIOUS

LEMMA PartNamed ==
  ASSUME NEW S, NEW s \in Seq(S), NEW i \in Nat, NEW n \in Nat, i + n <= Len(s),
         NEW p, p = SubSeq(s, i + 1, i + n)
  PROVE  Len(p) = n /\ \A j \in 1..n : p[j] = s[i + j]
BY PartIs

LEMMA PrefixIs ==
  ASSUME NEW S, NEW s \in Seq(S), NEW i \in 0..Len(s)
  PROVE  /\ SubSeq(s, 1, i) \in Seq(S) /\ Len(SubSeq(s, 1, i)) = i
         /\ \A j \in 1..i : SubSeq(s, 1, i)[j] = s[j]
OBVIOUS

\* A prefix and what follows it make a longer one.
LEMMA PrefixGrows ==
  ASSUME NEW S, NEW s \in Seq(S), NEW i \in Nat, NEW n \in Nat, i + n <= Len(s)
  PROVE  SubSeq(s, 1, i) \o SubSeq(s, i + 1, i + n) = SubSeq(s, 1, i + n)
<1> DEFINE a == SubSeq(s, 1, i)
           b == SubSeq(s, i + 1, i + n)
           c == SubSeq(s, 1, i + n)
           k == Len(s)
<1>1. i + n \in 0..k /\ i \in 0..k /\ i \in Nat /\ n \in Nat
  OBVIOUS
<1>2. a \in Seq(S) /\ Len(a) = i /\ \A j \in 1..i : a[j] = s[j]
  BY <1>1, PrefixIs
<1>3. c \in Seq(S) /\ Len(c) = i + n /\ \A j \in 1..i+n : c[j] = s[j]
  BY <1>1, PrefixIs
<1>4. b \in Seq(S) /\ Len(b) = n /\ \A j \in 1..n : b[j] = s[i + j]
  BY <1>1, PartIs
<1> HIDE DEF a, b, c, k
<1>5. /\ a \o b \in Seq(S) /\ Len(a \o b) = i + n
      /\ \A j \in 1..i+n : (a \o b)[j] = IF j <= i THEN a[j] ELSE b[j - i]
  <2>1. /\ a \o b \in Seq(S) /\ Len(a \o b) = Len(a) + Len(b)
        /\ \A j \in 1..Len(a)+Len(b) :
              (a \o b)[j] = IF j <= Len(a) THEN a[j] ELSE b[j - Len(a)]
    BY <1>2, <1>4, ExtendedText
  <2>2. QED
    BY <1>2, <1>4, <2>1
<1>6. ASSUME NEW j \in 1..i+n
      PROVE  (a \o b)[j] = c[j]
  <2>1. CASE j <= i
    <3>1. j \in 1..i
      BY <1>1, <2>1
    <3>2. QED
      BY <1>2, <1>3, <1>5, <2>1, <3>1
  <2>2. CASE ~(j <= i)
    <3>1. j - i \in 1..n /\ i + (j - i) = j
      BY <1>1, <2>2
    <3>2. b[j - i] = s[i + (j - i)]
      BY <1>4, <3>1
    <3>3. QED
      BY <1>3, <1>5, <2>2, <3>1, <3>2
  <2>3. QED
    BY <2>1, <2>2
<1>7. a \o b = c
  BY <1>3, <1>5, <1>6, SameSequence
<1>8. QED
  BY <1>7 DEF a, b, c

LEMMA ReadSomeInv ==
  ASSUME BufferInv, NEW n \in Nat \ {0}, ReadSome(n)
  PROVE  BufferInv'
<1> DEFINE got == SubSeq(Text, off + 1, off + n)
           full == Copied(mem, len, got)
           t == SubSeq(Text, 1, off + n)
<1>1. /\ pc = "reading" /\ n \in 1..Count /\ len' = len + n /\ off' = off + n
      /\ text' = text \o got
      /\ \/ mem' \in ReserveMore(full, len + n) /\ pc' = pc
         \/ doreserve /\ mem' = full /\ pc' = "end"
      /\ file' = file /\ changed' = changed /\ exact' = exact /\ doreserve' = doreserve
      /\ goff' = goff /\ line' = line /\ lines' = lines
  BY DEF ReadSome, lineVars
<1>2. /\ file # NoFile /\ file \in 1..Len(Text) /\ off \in 0..file
      /\ len = off /\ text = SubSeq(Text, 1, off)
      /\ ~exact => Len(mem) >= 8
      /\ exact /\ ~changed => Len(mem) = file /\ ~doreserve
      /\ ~doreserve /\ ~changed => Len(mem) = file
  BY <1>1 DEF BufferInv, FileRead
<1>3. /\ mem \in Seq(Cell) /\ Len(mem) \in 0..UMax /\ len \in 0..Len(mem)
      /\ \A i \in 1..len : mem[i] = text[i]
  BY DEF BufferInv, Stored
<1>4. Text \in Seq(Chars) /\ Len(Text) \in Nat
  BY BufferAssumption
<1>5. n <= Len(mem) - len /\ n <= file - off
  <2> DEFINE a == Len(mem)
  <2>1. Count = IF a - len < file - off THEN a - len ELSE file - off
    BY DEF Count, Room, Siz
  <2>2. a \in Nat /\ len \in Nat /\ file \in Nat /\ off \in Nat /\ n \in Nat
    BY <1>2, <1>3, <1>4
  <2> HIDE DEF a
  <2>3. Count \in Int /\ n <= Count
    BY <1>1, <2>1, <2>2
  <2>4. n <= a - len /\ n <= file - off
    BY <2>1, <2>2, <2>3
  <2>5. QED
    BY <2>4 DEF a
<1>6. off + n \in 0..file /\ off + n <= Len(Text) /\ off \in Nat /\ off + n \in 0..Len(Text)
  BY <1>2, <1>4, <1>5
<1>7. got \in Seq(Chars) /\ Len(got) = n
  BY <1>4, <1>6, PartIs
<1>8. text' = t
  BY <1>1, <1>2, <1>4, <1>6, PrefixGrows
<1>9. t \in Seq(Chars) /\ Len(t) = len + n
  BY <1>2, <1>4, <1>6, PrefixIs
<1>10. len + n \in 0..Len(mem) /\ len \in Nat /\ len + Len(got) <= Len(mem)
  BY <1>3, <1>5, <1>7
<1>11. PICK r : r = full
  OBVIOUS
<1>12. Overwritten(r, mem, len, got)
  BY <1>3, <1>7, <1>10, <1>11, CopiedIs
<1>13. /\ r \in Seq(Cell) /\ Len(r) = Len(mem)
       /\ \A i \in 1..len : r[i] = mem[i]
       /\ \A i \in 1..n : r[len + i] = got[i]
  BY <1>7, <1>12 DEF Overwritten
<1>14. ASSUME NEW i \in 1..len+n
       PROVE  r[i] = t[i]
  <2>1. t[i] = Text[i]
    <3>1. \A j \in 1..off+n : t[j] = Text[j]
      BY <1>4, <1>6, PrefixIs
    <3>2. QED
      BY <1>2, <3>1
  <2>2. CASE i \in 1..len
    <3>1. \A j \in 1..off : text[j] = Text[j]
      <4>1. off \in 0..Len(Text)
        BY <1>2, <1>4, <1>6
      <4>2. QED
        BY <1>2, <1>4, <4>1, PrefixIs
    <3>2. QED
      BY <1>2, <1>3, <1>13, <2>1, <2>2, <3>1
  <2>3. CASE i \notin 1..len
    <3> DEFINE j == i - len
    <3>1. j \in 1..n /\ len + j = i
      BY <1>10, <2>3
    <3> HIDE DEF j
    <3>2. got[j] = Text[off + j]
      BY <1>4, <1>6, <3>1, PartIs
    <3>3. QED
      BY <1>2, <1>13, <2>1, <3>1, <3>2
  <2>4. QED
    BY <2>2, <2>3
<1> HIDE DEF got, full, t
<1>15. ASSUME NEW m, m = mem', m \in Seq(Cell), Len(m) \in 0..UMax, Len(m) >= Len(r),
              \A i \in 1..Len(r) : m[i] = r[i]
       PROVE  Stored'
  <2> DEFINE a == Len(m)
             b == Len(r)
  <2>1. a \in Nat /\ b \in Nat /\ a >= b /\ len + n \in 0..b
    BY <1>10, <1>13, <1>15
  <2> HIDE DEF a, b
  <2>2. len + n \in 0..a /\ \A i \in 1..len+n : i \in 1..b
    BY <2>1
  <2>3. \A i \in 1..len+n : m[i] = t[i]
    BY <1>14, <1>15, <2>2 DEF b
  <2>4. QED
    BY <1>1, <1>8, <1>9, <1>15, <2>2, <2>3 DEF Stored, a
<1>16. Flags'
  BY <1>1 DEF BufferInv, Flags
<1>17. LinesGot'
  <2>1. goff = 0 /\ lines = <<>> /\ LinesSplit
    BY <1>1 DEF BufferInv, LinesGot
  <2>2. 0 \in 0..len+n+1
    BY <1>10
  <2>3. LinesSplit'
    BY <1>1, <2>1 DEF LinesSplit
  <2>4. pc' \in {"reading", "end"}
    BY <1>1
  <2>5. <<>> \in Seq(Seq(Chars))
    OBVIOUS
  <2>6. QED
    BY <1>1, <2>1, <2>2, <2>3, <2>4, <2>5 DEF LinesGot
<1>18. ASSUME Len(mem') >= Len(mem), ~doreserve => Len(mem') = Len(mem), Len(mem') \in Nat,
              pc' = "reading" /\ doreserve /\ ~exact => len + n < Len(mem')
       PROVE  FileRead'
  <2>1. ~exact => Len(mem') >= 8
    <3> DEFINE a == Len(mem)
               b == Len(mem')
    <3>1. a \in Nat /\ b \in Nat /\ b >= a /\ (~exact => a >= 8)
      BY <1>2, <1>3, <1>18
    <3> HIDE DEF a, b
    <3>2. ~exact => b >= 8
      BY <3>1
    <3>3. QED
      BY <3>2 DEF b
  <2>2. /\ exact /\ ~changed => Len(mem') = file /\ ~doreserve
        /\ ~doreserve /\ ~changed => Len(mem') = file
    BY <1>2, <1>18
  <2>3. len + n = off + n /\ pc' \in {"reading", "end"}
    BY <1>1, <1>2
  <2>4. text' = SubSeq(Text, 1, off + n)
    BY <1>8 DEF t
  <2>5. QED
    BY <1>1, <1>2, <1>6, <1>18, <2>1, <2>2, <2>3, <2>4 DEF FileRead
<1>19. CASE mem' = full
  <2>1. Len(r) \in 0..UMax /\ Len(r) >= Len(r) /\ Len(r) \in Nat
    BY <1>3, <1>13
  <2>2. Stored'
    BY <1>11, <1>13, <1>15, <1>19, <2>1
  <2>3. CASE pc' = "reading" /\ doreserve /\ ~exact
    <3>1. mem' \in Reserved(full, len + n, Len(full) \div 8, TRUE)
      BY <1>1, <2>3 DEF ReserveMore
    <3>2. PICK e \in Nat : e = Len(r) \div 8
      BY <2>1
    <3>3. r \in Reserved(r, len + n, e, TRUE)
      BY <1>11, <1>19, <3>1, <3>2
    <3>4. len + n \in 0..Len(r)
      BY <1>10, <1>13
    <3>5. Holds(r, r, len + n, e)
      BY <1>13, <2>1, <3>3, <3>4, ReservedIs
    <3>6. Len(r) >= len + n + e /\ Len(r) >= 8
      BY <1>2, <1>13, <2>3, <3>5 DEF Holds
    <3>7. e >= 1
      BY <2>1, <3>2, <3>6
    <3>8. len + n < Len(r)
      BY <1>10, <2>1, <3>2, <3>6, <3>7
    <3>9. FileRead'
      BY <1>11, <1>13, <1>18, <1>19, <2>1, <3>8
    <3>10. QED
      BY <1>16, <1>17, <2>2, <3>9 DEF BufferInv
  <2>4. CASE ~(pc' = "reading" /\ doreserve /\ ~exact)
    <3>1. FileRead'
      BY <1>11, <1>13, <1>18, <1>19, <2>1, <2>4
    <3>2. QED
      BY <1>16, <1>17, <2>2, <3>1 DEF BufferInv
  <2>5. QED
    BY <2>3, <2>4
<1>20. CASE mem' # full
  <2>1. doreserve /\ mem' \in Reserved(full, len + n, Len(full) \div 8, TRUE)
    BY <1>1, <1>20 DEF ReserveMore
  <2>2. Len(r) \in 0..UMax /\ Len(r) \in Nat
    BY <1>3, <1>13
  <2>3. PICK e \in Nat : e = Len(r) \div 8
    BY <2>2
  <2>4. PICK m \in Reserved(r, len + n, e, TRUE) : m = mem'
    BY <1>11, <2>1, <2>3
  <2>5. len + n \in 0..Len(r)
    BY <1>10, <1>13
  <2>6. Holds(m, r, len + n, e)
    BY <1>13, <2>2, <2>3, <2>5, ReservedIs
  <2>7. /\ m \in Seq(Cell) /\ Len(m) \in 0..UMax /\ Len(m) >= Len(r)
        /\ Len(m) >= len + n + e /\ \A i \in 1..Len(r) : m[i] = r[i]
    BY <2>6 DEF Holds
  <2>8. Stored'
    BY <1>15, <2>4, <2>7
  <2>9. ~exact => len + n < Len(m)
    <3>1. SUFFICES ASSUME ~exact
                   PROVE  len + n < Len(m)
      OBVIOUS
    <3>2. Len(r) >= 8
      BY <1>2, <1>13, <3>1
    <3>3. e >= 1
      BY <2>2, <2>3, <3>2
    <3>4. QED
      BY <1>10, <2>3, <2>7, <3>3
  <2>10. FileRead'
    BY <1>13, <1>18, <2>1, <2>4, <2>7, <2>9
  <2>11. QED
    BY <1>16, <1>17, <2>8, <2>10 DEF BufferInv
<1>21. QED
  BY <1>19, <1>20

LEMMA ReadNothingInv ==
  ASSUME BufferInv, ReadNothing
  PROVE  BufferInv'
<1>1. /\ pc = "reading" /\ Count = 0 /\ pc' = "read" /\ mem' = mem /\ len' = len
      /\ text' = text /\ file' = file /\ off' = off /\ changed' = changed
      /\ exact' = exact /\ doreserve' = doreserve
      /\ goff' = goff /\ line' = line /\ lines' = lines
  BY DEF ReadNothing, fileVars, lineVars
<1>2. Stored'
  BY <1>1 DEF BufferInv, Stored
<1>3. Flags'
  BY <1>1 DEF BufferInv, Flags
<1>4. LinesGot'
  <2>1. goff = 0 /\ lines = <<>>
    BY <1>1 DEF BufferInv, LinesGot
  <2>2. QED
    BY <1>1, <2>1 DEF BufferInv, LinesGot, LinesSplit
<1>5. FileRead'
  <2>1. /\ file # NoFile /\ file \in 1..Len(Text) /\ off \in 0..file
        /\ len = off /\ text = SubSeq(Text, 1, off)
        /\ ~exact => Len(mem) >= 8
        /\ exact /\ ~changed => Len(mem) = file /\ ~doreserve
        /\ ~doreserve /\ ~changed => Len(mem) = file
        /\ doreserve /\ ~exact => len < Len(mem)
    BY <1>1 DEF BufferInv, FileRead
  <2>2. Len(mem) \in Nat /\ len \in 0..Len(mem) /\ Len(Text) \in Nat
    BY BufferAssumption DEF BufferInv, Stored
  <2>3. Len(mem) = len \/ file = off
    <3> DEFINE a == Len(mem)
    <3>1. 0 = IF a - len < file - off THEN a - len ELSE file - off
      BY <1>1 DEF Count, Room, Siz
    <3>2. a \in Nat /\ len \in Nat /\ file \in Int /\ off \in Int
      BY <2>1, <2>2
    <3> HIDE DEF a
    <3>3. a = len \/ file = off
      BY <3>1, <3>2
    <3>4. QED
      BY <3>3 DEF a
  <2>4. changed \/ off = file
    BY <2>1, <2>2, <2>3 DEF BufferInv, Flags
  <2>5. doreserve /\ ~exact => off = file
    BY <2>1, <2>2, <2>3
  <2>6. QED
    BY <1>1, <2>1, <2>4, <2>5 DEF FileRead
<1>6. QED
  BY <1>2, <1>3, <1>4, <1>5 DEF BufferInv

LEMMA GrowInv ==
  ASSUME BufferInv, Grow
  PROVE  BufferInv'
<1>1. PICK n \in file+1..Len(Text) : file' = n
  BY DEF Grow
<1>2. /\ file # NoFile /\ file < Len(Text) /\ pc \in {"idle", "reading"} /\ changed' = TRUE
      /\ mem' = mem /\ len' = len /\ pc' = pc
      /\ text' = text /\ off' = off /\ exact' = exact /\ doreserve' = doreserve
      /\ goff' = goff /\ line' = line /\ lines' = lines
  BY DEF Grow, lineVars
<1>3. Stored'
  BY <1>2 DEF BufferInv, Stored
<1>4. Flags'
  BY <1>2 DEF BufferInv, Flags
<1>5. LinesGot'
  BY <1>2 DEF BufferInv, LinesGot, LinesSplit
<1>6. FileRead'
  <2>1. /\ file \in 1..Len(Text) /\ off \in 0..file
        /\ len = off /\ text = SubSeq(Text, 1, off)
        /\ ~exact => Len(mem) >= 8
        /\ pc = "idle" => off = 0
        /\ pc = "reading" /\ doreserve /\ ~exact => len < Len(mem)
    BY <1>2 DEF BufferInv, FileRead
  <2>2. n \in 1..Len(Text) /\ off \in 0..n /\ n # NoFile
    <3>1. Len(Text) \in Nat /\ file \in Nat /\ off \in Nat
      BY <2>1, BufferAssumption
    <3>2. QED
      BY <1>1, <2>1, <3>1 DEF NoFile
  <2>3. pc' # "read"
    BY <1>2
  <2>4. QED
    BY <1>1, <1>2, <2>1, <2>2, <2>3 DEF FileRead
<1>7. QED
  BY <1>3, <1>4, <1>5, <1>6 DEF BufferInv

-----------------------------------------------------------------------------
(* Getting lines.                                                            *)

\* The n sequences ss, and s behind them.
OneMore(tt, ss, s, n) ==
    /\ ss \in [1..n -> Seq(Chars)] /\ s \in Seq(Chars) /\ tt \in [1..n+1 -> Seq(Chars)]
    /\ tt[n + 1] = s /\ \A i \in 1..n : tt[i] = ss[i]

JoinedWith(tt, ss, s) == FlattenSeq(tt) = FlattenSeq(ss) \o s

LEMMA Flattened ==
  ASSUME NEW n \in Nat, NEW tt, NEW ss, NEW s, OneMore(tt, ss, s, n)
  PROVE  JoinedWith(tt, ss, s)
<1>0. /\ ss \in [1..n -> Seq(Chars)] /\ s \in Seq(Chars) /\ tt \in [1..n+1 -> Seq(Chars)]
      /\ tt[n + 1] = s /\ \A i \in 1..n : tt[i] = ss[i]
  BY DEF OneMore
<1>1. n + 1 \in Nat \ {0} /\ 1 \in 1..n+1 /\ n + 1 \in 1..n+1
  OBVIOUS
<1>2. PICK g : /\ g[1] = tt[1] /\ \A i \in 2..n+1 : g[i] = g[i-1] \o tt[i]
               /\ FlattenSeq(tt) = g[n+1]
  BY <1>0, <1>1, FlattenSteps
<1>3. CASE n = 0
  <2>1. ss = <<>> /\ Len(ss) = 0
    BY <1>0, <1>3
  <2>2. FlattenSeq(ss) = <<>>
    BY <2>1 DEF FlattenSeq
  <2>3. FlattenSeq(tt) = s
    BY <1>0, <1>2, <1>3
  <2>4. <<>> \o s = s
    BY <1>0
  <2>5. QED
    BY <2>2, <2>3, <2>4 DEF JoinedWith
<1>4. CASE n # 0
  <2>1. n \in Nat \ {0}
    BY <1>4
  <2>2. PICK f : /\ f[1] = ss[1] /\ \A i \in 2..n : f[i] = f[i-1] \o ss[i]
                 /\ FlattenSeq(ss) = f[n]
    BY <1>0, <2>1, FlattenSteps
  <2> DEFINE T == {i \in Nat : i # 0 => f[i] = g[i]}
  <2>3. 0 \in T
    OBVIOUS
  <2>4. ASSUME NEW i \in 0..n-1, i \in T
        PROVE  i + 1 \in T
    <3>1. CASE i = 0
      <4>1. 1 \in 1..n /\ i + 1 = 1
        BY <2>1, <3>1
      <4>2. QED
        BY <1>0, <1>2, <2>2, <4>1
    <3>2. CASE i # 0
      <4> DEFINE j == i + 1
      <4>1. j \in 2..n /\ j \in 2..n+1 /\ j \in 1..n /\ j - 1 = i /\ j \in Nat
        BY <2>1, <3>2
      <4> HIDE DEF j
      <4>2. f[j] = f[i] \o ss[j] /\ g[j] = g[i] \o tt[j]
        BY <1>2, <2>2, <4>1
      <4>3. f[i] = g[i]
        BY <2>4, <3>2
      <4>4. j \in T
        BY <1>0, <4>1, <4>2, <4>3
      <4>5. QED
        BY <4>4 DEF j
    <3>3. QED
      BY <3>1, <3>2
  <2>5. n \in T
    <3> HIDE DEF T
    <3>1. 0..n \subseteq T
      BY <2>3, <2>4, UpTo
    <3>2. QED
      BY <3>1
  <2>6. f[n] = g[n]
    BY <2>1, <2>5
  <2>7. g[n+1] = g[n] \o tt[n+1]
    <3> DEFINE j == n + 1
    <3>1. j \in 2..n+1 /\ j - 1 = n
      BY <2>1
    <3> HIDE DEF j
    <3>2. g[j] = g[n] \o tt[j]
      BY <1>2, <3>1
    <3>3. QED
      BY <3>2 DEF j
  <2>8. QED
    BY <1>0, <1>2, <2>2, <2>6, <2>7 DEF JoinedWith
<1>5. QED
  BY <1>3, <1>4

LEMMA JoinedMore ==
  ASSUME NEW ls \in Seq(Seq(Chars)), NEW l \in Seq(Chars)
  PROVE  Joined(Append(ls, l)) = Joined(ls) \o Append(l, Newline)
<1> DEFINE n == Len(ls)
           ms == Append(ls, l)
           ss == [i \in DOMAIN ls |-> Append(ls[i], Newline)]
           tt == [i \in DOMAIN ms |-> Append(ms[i], Newline)]
<1>1. n \in Nat /\ DOMAIN ls = 1..n /\ \A i \in 1..n : ls[i] \in Seq(Chars)
  OBVIOUS
<1>2. /\ DOMAIN ms = 1..n+1 /\ ms[n + 1] = l /\ \A i \in 1..n : ms[i] = ls[i]
  <2>1. /\ ms \in Seq(Seq(Chars)) /\ Len(ms) = n + 1
        /\ \A i \in 1..n : ms[i] = ls[i] /\ ms[n + 1] = l
    BY AppendIs
  <2>2. QED
    BY <2>1
<1>3. \A s \in Seq(Chars) : Append(s, Newline) \in Seq(Chars)
  BY NulIs
<1> HIDE DEF n, ms
<1>4. ss \in [1..n -> Seq(Chars)]
  BY <1>1, <1>3
<1>5. n + 1 \in 1..n+1 /\ \A i \in 1..n : i \in 1..n+1
  BY <1>1
<1>6. tt[n + 1] = Append(l, Newline) /\ \A i \in 1..n : tt[i] = ss[i]
  BY <1>1, <1>2, <1>5
<1>7. tt \in [1..n+1 -> Seq(Chars)]
  <2>1. \A i \in 1..n+1 : i \in 1..n \/ i = n + 1
    BY <1>1
  <2>2. \A i \in 1..n+1 : ms[i] \in Seq(Chars)
    BY <1>1, <1>2, <2>1
  <2>3. QED
    BY <1>2, <1>3, <2>2
<1>8. Append(l, Newline) \in Seq(Chars)
  BY <1>3
<1>9. Joined(ls) = FlattenSeq(ss) /\ Joined(ms) = FlattenSeq(tt)
  BY DEF Joined
<1> HIDE DEF ss, tt
<1>10. FlattenSeq(tt) = FlattenSeq(ss) \o Append(l, Newline)
  <2>1. OneMore(tt, ss, Append(l, Newline), n)
    BY <1>4, <1>6, <1>7, <1>8 DEF OneMore
  <2>2. JoinedWith(tt, ss, Append(l, Newline))
    BY <1>1, <2>1, Flattened
  <2>3. QED
    BY <2>2 DEF JoinedWith
<1>11. QED
  BY <1>9, <1>10 DEF ms

\* A nonempty set of positions has a first one.
LEMMA FirstExists ==
  ASSUME NEW E, E \subseteq Nat, E # {}
  PROVE  \E i \in E : \A j \in E : i <= j
<1>1. PICK m \in E : \A l \in E : ~(<<l, m>> \in OpToRel(<, Nat))
  BY NatLessThanWellFounded, WFMin
<1>2. \A l \in E : ~(l < m)
  BY <1>1 DEF OpToRel
<1>3. QED
  BY <1>2

\* Where the line ends that begins behind goff.
LEMMA EndOfLineIs ==
  ASSUME BufferInv, goff < len, NEW e, e = EndOfLine
  PROVE  /\ e \in goff+1..len+1
         /\ e <= len => mem[e] = Newline
         /\ \A i \in goff+1..e-1 : mem[i] # Newline
<1> DEFINE E == {i \in goff+1..len : mem[i] = Newline}
<1>1. goff \in Nat /\ len \in Nat
  BY DEF BufferInv, Stored, LinesGot
<1>2. e = IF E = {} THEN len + 1 ELSE CHOOSE i \in E : \A j \in E : i <= j
  BY DEF EndOfLine
<1>3. CASE E = {}
  <2>1. e = len + 1
    BY <1>2, <1>3
  <2>2. \A i \in goff+1..e-1 : i \in goff+1..len
    BY <1>1, <2>1
  <2>3. \A i \in goff+1..e-1 : mem[i] # Newline
    BY <1>3, <2>2
  <2> HIDE DEF E
  <2>4. e \in goff+1..len+1 /\ ~(e <= len)
    BY <1>1, <2>1
  <2>5. QED
    BY <2>3, <2>4
<1>4. CASE E # {}
  <2>1. E \subseteq Nat
    BY <1>1
  <2>2. \E i \in E : \A j \in E : i <= j
    <3> HIDE DEF E
    <3>1. QED
      BY <1>4, <2>1, FirstExists
  <2>3. e \in E /\ \A j \in E : e <= j
    <3> HIDE DEF E
    <3>1. QED
      BY <1>2, <1>4, <2>2
  <2>4. e \in goff+1..len /\ mem[e] = Newline
    BY <2>3
  <2>5. ASSUME NEW i \in goff+1..e-1
        PROVE  mem[i] # Newline
    <3>1. i \in goff+1..len /\ ~(e <= i)
      BY <1>1, <2>4
    <3>2. QED
      BY <2>3, <3>1
  <2> HIDE DEF E
  <2>6. e \in goff+1..len+1
    BY <1>1, <2>4
  <2>7. QED
    BY <2>4, <2>5, <2>6
<1>5. QED
  BY <1>3, <1>4

LEMMA GetlineBeginInv ==
  ASSUME BufferInv, GetlineBegin
  PROVE  BufferInv'
<1>1. /\ pc \in {"read", "idle"} /\ pc' = "lines" /\ mem' = mem /\ len' = len /\ text' = text
      /\ file' = file /\ off' = off /\ changed' = changed
      /\ exact' = exact /\ doreserve' = doreserve
      /\ goff' = goff /\ line' = line /\ lines' = lines
  BY DEF GetlineBegin, Appending, fileVars, lineVars
<1>2. Stored' /\ Flags'
  BY <1>1 DEF BufferInv, Stored, Flags
<1>3. FileRead'
  BY <1>1 DEF BufferInv, FileRead
<1>4. LinesGot'
  <2>1. goff = 0 /\ lines = <<>> /\ goff <= len
    BY <1>1 DEF BufferInv, Stored, LinesGot
  <2>2. text \in Seq(Chars)
    BY DEF BufferInv, Stored
  <2>3. SubSeq(text, 1, 0) = <<>>
    BY <2>2
  <2>4. Joined(<<>>) = <<>>
    <3>1. [i \in DOMAIN <<>> |-> Append(<<>>[i], Newline)] = <<>>
      OBVIOUS
    <3>2. Len(<<>>) = 0
      OBVIOUS
    <3>3. QED
      BY <3>1, <3>2 DEF Joined, FlattenSeq
  <2>5. Joined(lines) = SubSeq(text, 1, goff)
    BY <2>1, <2>3, <2>4
  <2>6. QED
    BY <1>1, <2>1, <2>5 DEF BufferInv, LinesGot, LinesSplit
<1>5. QED
  BY <1>2, <1>3, <1>4 DEF BufferInv

\* The characters behind the first i ones up to the end of a line.
LEMMA LineOf ==
  ASSUME NEW s \in Seq(Chars), NEW i \in Nat, NEW e \in i+1..Len(s), s[e] = Newline,
         NEW l \in Seq(Chars), l = SubSeq(s, i + 1, e - 1)
  PROVE  SubSeq(s, 1, i) \o Append(l, Newline) = SubSeq(s, 1, e)
<1> DEFINE n == e - i
           k == Len(s)
           b == SubSeq(s, i + 1, i + n)
           a == Append(l, Newline)
<1>1. n \in Nat \ {0} /\ i + n = e /\ e - 1 = i + (n - 1) /\ n - 1 \in Nat
      /\ i + n <= k /\ i + (n - 1) <= k /\ k \in Nat /\ e \in Nat
  OBVIOUS
<1>2. b \in Seq(Chars) /\ Len(b) = n /\ \A j \in 1..n : b[j] = s[i + j]
  BY <1>1, PartIs
<1>3. Len(l) = n - 1 /\ \A j \in 1..n-1 : l[j] = s[i + j]
  <2>1. l = SubSeq(s, i + 1, i + (n - 1))
    BY <1>1
  <2>2. PICK m \in Nat : m = n - 1
    BY <1>1
  <2> HIDE DEF n
  <2>3. l = SubSeq(s, i + 1, i + m) /\ i + m <= Len(s)
    BY <1>1, <2>1, <2>2
  <2>4. i + m <= Len(s)
    BY <2>3
  <2> HIDE DEF b, k, a
  <2>5. Len(l) = m /\ \A j \in 1..m : l[j] = s[i + j]
    BY <2>3, <2>4, PartNamed
  <2>6. QED
    BY <2>2, <2>5
<1> HIDE DEF n, b, k
<1>4. /\ a \in Seq(Chars) /\ Len(a) = n /\ a[n] = Newline
      /\ \A j \in 1..n-1 : a[j] = l[j]
  <2>1. Newline \in Chars
    BY NulIs
  <2>2. /\ a \in Seq(Chars) /\ Len(a) = Len(l) + 1 /\ a[Len(l) + 1] = Newline
        /\ \A j \in 1..Len(l) : a[j] = l[j]
    BY <2>1, AppendIs
  <2>3. Len(l) + 1 = n
    BY <1>1, <1>3
  <2>4. QED
    BY <1>3, <2>2, <2>3
<1> HIDE DEF a
<1>5. \A j \in 1..n : a[j] = b[j]
  <2>1. \A j \in 1..n : j \in 1..n-1 \/ j = n
    BY <1>1
  <2>2. n \in 1..n /\ \A j \in 1..n-1 : j \in 1..n
    BY <1>1
  <2>3. b[n] = Newline
    BY <1>1, <1>2, <2>2
  <2>4. \A j \in 1..n-1 : a[j] = b[j]
    BY <1>2, <1>3, <1>4, <2>2
  <2>5. QED
    BY <1>4, <2>1, <2>3, <2>4
<1>6. a = b
  BY <1>2, <1>4, <1>5, SameSequence
<1>7. SubSeq(s, 1, i) \o b = SubSeq(s, 1, i + n)
  BY <1>1, PrefixGrows DEF b, k
<1>8. QED
  BY <1>1, <1>6, <1>7 DEF a

LEMMA AppendConcat ==
  ASSUME NEW S, NEW s \in Seq(S), NEW t \in Seq(S), NEW x \in S
  PROVE  s \o Append(t, x) = Append(s \o t, x)
OBVIOUS

LEMMA GetlineInv ==
  ASSUME BufferInv, Getline
  PROVE  BufferInv'
<1>1. /\ pc = "lines" /\ goff < len /\ line' = SubSeq(mem, goff + 1, EndOfLine - 1)
      /\ lines' = Append(lines, line') /\ goff' = EndOfLine
      /\ mem' = mem /\ len' = len /\ pc' = pc /\ text' = text
      /\ file' = file /\ off' = off /\ changed' = changed
      /\ exact' = exact /\ doreserve' = doreserve
  BY DEF Getline, fileVars
<1>2. Stored' /\ Flags'
  BY <1>1 DEF BufferInv, Stored, Flags
<1>3. FileRead'
  BY <1>1 DEF BufferInv, FileRead
<1>4. PICK e : e = EndOfLine
  OBVIOUS
<1>5. /\ e \in goff+1..len+1
      /\ e <= len => mem[e] = Newline
      /\ \A i \in goff+1..e-1 : mem[i] # Newline
  BY <1>1, <1>4, EndOfLineIs
<1>6. /\ mem \in Seq(Cell) /\ len \in 0..Len(mem) /\ Len(mem) \in Nat
      /\ text \in Seq(Chars) /\ Len(text) = len /\ \A i \in 1..len : mem[i] = text[i]
  BY DEF BufferInv, Stored
<1>7. goff \in Nat /\ lines \in Seq(Seq(Chars)) /\ LinesSplit /\ goff <= len
      /\ Joined(lines) = SubSeq(text, 1, goff)
  <2>1. goff \in Nat /\ goff <= len
    BY <1>1, <1>6 DEF BufferInv, LinesGot
  <2>2. QED
    BY <1>1, <2>1 DEF BufferInv, LinesGot
<1> DEFINE n == e - 1 - goff
<1>8. n \in Nat /\ goff + n = e - 1 /\ goff + n <= len
  BY <1>5, <1>6, <1>7
<1>9. PICK l : l = line'
  OBVIOUS
<1>10. l = SubSeq(text, goff + 1, e - 1) /\ l \in Seq(Chars) /\ Len(l) = n
       /\ \A j \in 1..n : l[j] = mem[goff + j] /\ l[j] # Newline
  <2> DEFINE t == SubSeq(text, goff + 1, goff + n)
  <2> HIDE DEF n
  <2>1. t \in Seq(Chars) /\ Len(t) = n /\ \A j \in 1..n : t[j] = text[goff + j]
    BY <1>6, <1>7, <1>8, PartIs
  <2>2. l = SubSeq(mem, goff + 1, goff + n)
    BY <1>1, <1>4, <1>8, <1>9
  <2>3. goff + n <= Len(mem)
    <3> DEFINE a == Len(mem)
    <3>1. a \in Nat /\ len \in 0..a
      BY <1>6
    <3> HIDE DEF a
    <3>2. goff + n <= a
      BY <1>7, <1>8, <3>1
    <3>3. QED
      BY <3>2 DEF a
  <2>4. l \in Seq(Cell) /\ Len(l) = n /\ \A j \in 1..n : l[j] = mem[goff + j]
    <3>1. mem \in Seq(Cell) /\ goff \in Nat /\ n \in Nat
      BY <1>6, <1>7, <1>8
    <3>2. /\ SubSeq(mem, goff + 1, goff + n) \in Seq(Cell)
          /\ Len(SubSeq(mem, goff + 1, goff + n)) = n
          /\ \A j \in 1..n : SubSeq(mem, goff + 1, goff + n)[j] = mem[goff + j]
      BY <2>3, <3>1, PartIs
    <3>3. QED
      BY <2>2, <3>2
  <2>5. \A j \in 1..n : goff + j \in 1..len /\ goff + j \in goff+1..e-1
    BY <1>6, <1>7, <1>8
  <2>6. \A j \in 1..n : l[j] = t[j] /\ l[j] # Newline
    BY <1>5, <1>6, <2>1, <2>4, <2>5, SMTT(30)
  <2>7. t \in Seq(Cell)
    BY <2>1 DEF Cell
  <2> HIDE DEF t
  <2>8. l = t
    BY <2>1, <2>4, <2>6, <2>7, SameSequence
  <2>9. QED
    BY <1>8, <2>1, <2>4, <2>6, <2>8 DEF t
<1>11. Append(lines, l) \in Seq(Seq(Chars))
  BY <1>7, <1>10
<1>12. LinesSplit'
  <2>1. \A i \in DOMAIN lines : \A j \in DOMAIN lines[i] : lines[i][j] # Newline
    BY <1>7 DEF LinesSplit
  <2>2. \A j \in DOMAIN l : l[j] # Newline
    BY <1>8, <1>10
  <2>3. \A i \in DOMAIN Append(lines, l) : \A j \in DOMAIN Append(lines, l)[i] :
           Append(lines, l)[i][j] # Newline
    <3> DEFINE a == Append(lines, l)
               b == Len(lines)
    <3>1. b \in Nat /\ DOMAIN lines = 1..b
      BY <1>7
    <3>2. a \in Seq(Seq(Chars)) /\ Len(a) = b + 1 /\ a[b + 1] = l
          /\ \A i \in 1..b : a[i] = lines[i]
      BY <1>7, <1>10, AppendIs
    <3>3. DOMAIN a = 1..b+1
      BY <3>2
    <3> HIDE DEF a, b
    <3>4. \A i \in 1..b+1 : i \in 1..b \/ i = b + 1
      BY <3>1
    <3>5. \A i \in DOMAIN a : \A j \in DOMAIN a[i] : a[i][j] # Newline
      BY <2>1, <2>2, <3>1, <3>2, <3>3, <3>4
    <3>6. QED
      BY <3>5 DEF a
  <2>4. QED
    BY <1>1, <1>9, <2>3 DEF LinesSplit
<1>13. Joined(Append(lines, l)) = IF e <= len THEN SubSeq(text, 1, e) ELSE Append(text, Newline)
  <2>1. Joined(Append(lines, l)) = SubSeq(text, 1, goff) \o Append(l, Newline)
    BY <1>7, <1>10, JoinedMore
  <2>2. CASE e <= len
    <3>1. e \in goff+1..len /\ e \in 1..len
      BY <1>5, <1>6, <1>7, <2>2
    <3>2. text[e] = Newline
      BY <1>5, <1>6, <2>2, <3>1
    <3>3. SubSeq(text, 1, goff) \o Append(l, Newline) = SubSeq(text, 1, e)
      BY <1>6, <1>7, <1>10, <3>1, <3>2, LineOf
    <3>4. QED
      BY <2>1, <2>2, <3>3
  <2>3. CASE ~(e <= len)
    <3>1. goff + n = len
      BY <1>5, <1>6, <1>7, <2>3
    <3>2. l = SubSeq(text, goff + 1, goff + n)
      BY <1>8, <1>10
    <3> HIDE DEF n
    <3>3. SubSeq(text, 1, goff) \o l = SubSeq(text, 1, len)
      BY <1>6, <1>7, <1>8, <3>1, <3>2, PrefixGrows
    <3>4. SubSeq(text, 1, len) = text
      BY <1>6
    <3>5. SubSeq(text, 1, goff) \in Seq(Chars)
      BY <1>6, <1>7
    <3>6. SubSeq(text, 1, goff) \o Append(l, Newline) = Append(text, Newline)
      <4>1. PICK p \in Seq(Chars) : p = SubSeq(text, 1, goff)
        BY <3>5
      <4>2. p \o Append(l, Newline) = Append(p \o l, Newline)
        BY <1>10, NulIs, AppendConcat, SMTT(30)
      <4>3. p \o l = text
        BY <3>3, <3>4, <4>1
      <4>4. QED
        BY <4>1, <4>2, <4>3
    <3>7. QED
      BY <2>1, <2>3, <3>6
  <2>4. QED
    BY <2>2, <2>3
<1>14. LinesGot'
  <2>1. e \in 0..len+1
    BY <1>5, <1>6, <1>7
  <2>2. lines' = Append(lines, l) /\ goff' = e
    BY <1>1, <1>4, <1>9
  <2>3. QED
    BY <1>1, <1>11, <1>12, <1>13, <2>1, <2>2 DEF LinesGot
<1>15. QED
  BY <1>2, <1>3, <1>14 DEF BufferInv

LEMMA GetlineEndInv ==
  ASSUME BufferInv, GetlineEnd
  PROVE  BufferInv'
<1>1. /\ pc = "lines" /\ pc' = "end" /\ mem' = mem /\ len' = len /\ text' = text
      /\ file' = file /\ off' = off /\ changed' = changed
      /\ exact' = exact /\ doreserve' = doreserve
      /\ goff' = goff /\ line' = line /\ lines' = lines
  BY DEF GetlineEnd, fileVars, lineVars
<1>2. Stored' /\ Flags'
  BY <1>1 DEF BufferInv, Stored, Flags
<1>3. FileRead'
  BY <1>1 DEF BufferInv, FileRead
<1>4. LinesGot'
  BY <1>1 DEF BufferInv, LinesGot, LinesSplit
<1>5. QED
  BY <1>2, <1>3, <1>4 DEF BufferInv

-----------------------------------------------------------------------------
LEMMA BufferStart ==
  ASSUME BufferInit
  PROVE  BufferInv
<1>1. /\ \/ exact = FALSE /\ file = NoFile
            /\ \E size \in InitSizes : mem \in Reserved(<<>>, 0, size, TRUE)
         \/ exact = TRUE /\ file \in 1..Len(Text) /\ mem \in Reserved(<<>>, 0, file, FALSE)
      /\ len = 0 /\ pc = "idle" /\ doreserve = FALSE /\ off = 0 /\ changed = FALSE
      /\ text = <<>> /\ goff = 0 /\ line = <<>> /\ lines = <<>>
  BY DEF BufferInit
<1>2. /\ UMax \in Nat /\ InitSizes \subseteq 0..UMax /\ Text \in Seq(Chars) /\ Len(Text) \in Nat
  BY BufferAssumption
<1>3. <<>> \in Seq(Cell) /\ <<>> \in Seq(Chars) /\ Len(<<>>) = 0 /\ Len(<<>>) \in 0..UMax
      /\ 0 \in 0..Len(<<>>)
  BY <1>2
<1>4. Flags
  BY <1>1 DEF Flags
<1>5. LinesGot
  <2>1. LinesSplit
    BY <1>1 DEF LinesSplit
  <2>2. <<>> \in Seq(Seq(Chars)) /\ 0 \in 0..0+1
    OBVIOUS
  <2>3. QED
    BY <1>1, <2>1, <2>2 DEF LinesGot
<1>6. mem \in Seq(Cell) /\ Len(mem) \in 0..UMax
  <2>1. CASE \E size \in InitSizes : mem \in Reserved(<<>>, 0, size, TRUE)
    <3>1. PICK size \in InitSizes : mem \in Reserved(<<>>, 0, size, TRUE)
      BY <2>1
    <3>2. size \in Nat
      BY <1>2
    <3>3. PICK m \in Reserved(<<>>, 0, size, TRUE) : m = mem
      BY <3>1
    <3>4. Holds(m, <<>>, 0, size)
      BY <1>3, <3>2, ReservedIs
    <3>5. QED
      BY <3>3, <3>4 DEF Holds
  <2>2. CASE file \in 1..Len(Text) /\ mem \in Reserved(<<>>, 0, file, FALSE)
    <3>1. file \in Nat
      BY <1>2, <2>2
    <3>2. PICK m \in Reserved(<<>>, 0, file, FALSE) : m = mem
      BY <2>2
    <3>3. Holds(m, <<>>, 0, file)
      BY <1>3, <3>1, ReservedIs
    <3>4. QED
      BY <3>2, <3>3 DEF Holds
  <2>3. QED
    BY <1>1, <2>1, <2>2
<1>7. Stored
  <2>1. 0 \in 0..Len(mem)
    BY <1>6
  <2>2. QED
    BY <1>1, <1>3, <1>6, <2>1 DEF Stored
<1>8. FileRead
  <2>1. CASE file = NoFile
    <3>1. NoFile \notin 1..Len(Text)
      BY <1>2 DEF NoFile
    <3>2. QED
      BY <1>1, <2>1, <3>1 DEF FileRead
  <2>2. CASE file # NoFile
    <3>1. exact = TRUE /\ file \in 1..Len(Text) /\ mem \in Reserved(<<>>, 0, file, FALSE)
      BY <1>1, <2>2
    <3>2. file \in Nat \ {0} /\ 0 \in 0..file
      BY <1>2, <3>1
    <3>3. Len(mem) = file
      <4>1. mem = Resized(<<>>, file)
        <5>1. ~Enough(<<>>, 0, file) /\ 0 + file = file
          BY <1>3, <3>2 DEF Enough
        <5>2. QED
          BY <3>1, <5>1 DEF Reserved
      <4>2. mem = [i \in 1..file |-> IF i <= Len(<<>>) THEN <<>>[i] ELSE Junk]
        BY <4>1 DEF Resized
      <4>3. mem \in Seq(Cell) /\ DOMAIN mem = 1..file
        BY <1>6, <4>2
      <4>4. QED
        BY <3>2, <4>3
    <3>4. SubSeq(Text, 1, 0) = <<>>
      BY <1>2
    <3>5. QED
      BY <1>1, <2>2, <3>1, <3>2, <3>3, <3>4 DEF FileRead
  <2>3. QED
    BY <2>1, <2>2
<1>9. QED
  BY <1>4, <1>5, <1>7, <1>8 DEF BufferInv

LEMMA BufferStep ==
  ASSUME BufferInv, [BufferNext]_bufferVars
  PROVE  BufferInv'
<1>1. ASSUME NEW s \in Strings, Puts(s) \/ Printf(s)
      PROVE  BufferInv'
  BY <1>1, PutsInv, PrintfInv
<1>2. ASSUME NEW n \in {1, 3}, Pop(n)
      PROVE  BufferInv'
  <2>1. n \in Nat
    OBVIOUS
  <2>2. QED
    BY <1>2, <2>1, PopInv
<1>3. CASE Reset \/ Str
  BY <1>3, ResetInv, StrInv
<1>4. ASSUME NEW n \in 1..Len(Text), Open(n)
      PROVE  BufferInv'
  BY <1>4, OpenInv
<1>5. ASSUME NEW n \in 1..Len(Text), ReadSome(n)
      PROVE  BufferInv'
  <2>1. n \in Nat \ {0}
    BY BufferAssumption
  <2>2. QED
    BY <1>5, <2>1, ReadSomeInv
<1>6. CASE ReadBegin \/ ReadNothing \/ Grow
  BY <1>6, ReadBeginInv, ReadNothingInv, GrowInv
<1>7. CASE GetlineBegin \/ Getline \/ GetlineEnd
  BY <1>7, GetlineBeginInv, GetlineInv, GetlineEndInv
<1>8. CASE UNCHANGED bufferVars
  <2>1. /\ mem' = mem /\ len' = len /\ pc' = pc /\ exact' = exact /\ doreserve' = doreserve
        /\ file' = file /\ off' = off /\ changed' = changed /\ text' = text
        /\ goff' = goff /\ line' = line /\ lines' = lines
    BY <1>8 DEF bufferVars
  <2>2. Stored' /\ Flags'
    BY <2>1 DEF BufferInv, Stored, Flags
  <2>3. FileRead'
    BY <2>1 DEF BufferInv, FileRead
  <2>4. LinesGot'
    BY <2>1 DEF BufferInv, LinesGot, LinesSplit
  <2>5. QED
    BY <2>2, <2>3, <2>4 DEF BufferInv
<1>9. QED
  BY <1>1, <1>2, <1>3, <1>4, <1>5, <1>6, <1>7, <1>8 DEF BufferNext, Reading, Lines

\* The buffer holds what was appended to it, whichever growth failed; a file is
\* read as a whole unless it grows meanwhile, and a prefix of it then; and the
\* lines got are the lines of the content (libks/buffer.c).
THEOREM BufferKept ==
  BufferSpec => [](/\ BufferTypeOK /\ Appended /\ ReadsAll /\ ReadsPrefix
                   /\ LinesPartition /\ LinesSplit)
<1>1. BufferInit => BufferInv
  BY BufferStart
<1>2. BufferInv /\ [BufferNext]_bufferVars => BufferInv'
  BY BufferStep
<1>3. BufferInv => /\ BufferTypeOK /\ Appended /\ ReadsAll /\ ReadsPrefix
                   /\ LinesPartition /\ LinesSplit
  BY BufferPromises
<1>4. QED
  BY <1>1, <1>2, <1>3, PTL DEF BufferSpec
=============================================================================
