-------------------------- MODULE ParserLoop_proofs --------------------------
(***************************************************************************)
(* Proofs about ParserLoop, for files of any length: the links, flags and  *)
(* references of BranchLinks through everything parser_exec() does to      *)
(* them, where the cursor stands, what each rewind consumes and what is    *)
(* emitted.                                                                *)
(***************************************************************************)
EXTENDS ParserLoop, BranchLinks_proofs

-----------------------------------------------------------------------------
(* Folds: what an operator makes of the heap, element by element.            *)

\* Induction up to n, the property being the set of its numbers.
LEMMA UpTo ==
  ASSUME NEW n \in Nat, NEW S, 0 \in S, \A i \in 0..n-1 : i \in S => i + 1 \in S
  PROVE  0..n \subseteq S
<1> DEFINE T == {i \in Nat : i \in 0..n /\ i \notin S}
<1> SUFFICES ASSUME T # {}
             PROVE  FALSE
  OBVIOUS
<1>1. PICK m \in T : \A l \in T : ~(<<l, m>> \in OpToRel(<, Nat))
  <2>1. T \subseteq Nat
    OBVIOUS
  <2> HIDE DEF T
  <2>2. QED
    BY <2>1, NatLessThanWellFounded, WFMin
<1>2. m \in 0..n /\ m \notin S
  BY <1>1
<1>3. m # 0
  BY <1>2
<1>4. m \in 1..n /\ m - 1 \in 0..n-1 /\ m - 1 \in Nat /\ m \in Nat /\ m - 1 < m
      /\ m - 1 + 1 = m /\ m - 1 \in 0..n
  BY <1>2, <1>3
<1>5. m - 1 \in S => m \in S
  BY <1>4
<1>6. m - 1 \in T
  BY <1>2, <1>4, <1>5
<1>7. <<m - 1, m>> \in OpToRel(<, Nat)
  BY <1>4 DEF OpToRel
<1>8. QED
  BY <1>1, <1>6, <1>7

\* The operators that are folded over a sequence.
Step(op, g, e) ==
    CASE op = "unlink" -> Unlink(g, e)
      [] op = "remove" -> RemoveWithPrefixes(g, e)
      [] op = "rele"   -> Rele(g, e)
      [] op = "free"   -> UnlinkPrefixes(g, e)
      [] op = "item"   -> ExecItem(g, e)
      [] op = "doc"    -> ExecDoc(g, e)

\* f[i] is the heap after the first i elements.
Folds(f, op, g, s) ==
    f[0] = g /\ \A i \in 1..Len(s) : f[i] = Step(op, f[i-1], s[i])

Iterates(f, op, g, s, k) ==
    f = [T \in SUBSET (1..k) |->
            IF T = {} THEN g ELSE Step(op, f[T \ {Max(T)}], s[Max(T)])]

LEMMA MaxOfUpTo ==
  ASSUME NEW k \in Nat, NEW T \in SUBSET (1..k), T # {}
  PROVE  Max(T) \in T /\ \A x \in T : x <= Max(T)
<1>1. \E x \in T : \A y \in T : x >= y
  <2> DEFINE D == {d \in Nat : k - d \in T}
  <2>1. PICK x \in T : TRUE
    OBVIOUS
  <2>2. k - x \in D
    BY <2>1
  <2>3. PICK d \in D : \A l \in D : ~(<<l, d>> \in OpToRel(<, Nat))
    <3>1. D \subseteq Nat /\ D # {}
      BY <2>2
    <3> HIDE DEF D
    <3>2. QED
      BY <3>1, NatLessThanWellFounded, WFMin
  <2>4. ASSUME NEW y \in T
        PROVE  k - d >= y
    <3>1. y \in Nat /\ k - y \in Nat /\ k - (k - y) = y
      OBVIOUS
    <3>2. k - y \in D
      BY <3>1
    <3>3. ~(k - y < d)
      <4>1. d \in Nat /\ ~(<<k - y, d>> \in OpToRel(<, Nat))
        BY <2>3, <3>2
      <4>2. QED
        BY <3>1, <4>1 DEF OpToRel
    <3>4. d \in Nat
      BY <2>3
    <3>5. QED
      BY <3>1, <3>3, <3>4
  <2>5. QED
    BY <2>3, <2>4
<1>2. QED
  BY <1>1 DEF Max

LEMMA MaxOfAll ==
  ASSUME NEW k \in Nat \ {0}
  PROVE  Max(1..k) = k /\ (1..k) \ {k} = 1..k-1
<1>1. 1..k # {} /\ k \in 1..k
  OBVIOUS
<1>2. Max(1..k) \in 1..k /\ \A x \in 1..k : x <= Max(1..k)
  BY <1>1, MaxOfUpTo
<1>3. k <= Max(1..k)
  BY <1>1, <1>2
<1>4. QED
  BY <1>2, <1>3

LEMMA MinOf ==
  ASSUME NEW k \in Nat, NEW T \in SUBSET (1..k), T # {}
  PROVE  \E x \in T : \A y \in T : x <= y
<1>1. T \subseteq Nat
  OBVIOUS
<1>2. PICK x \in T : \A l \in T : ~(<<l, x>> \in OpToRel(<, Nat))
  BY <1>1, NatLessThanWellFounded, WFMin
<1>3. ASSUME NEW y \in T
      PROVE  x <= y
  <2>1. x \in Nat /\ y \in Nat /\ ~(<<y, x>> \in OpToRel(<, Nat))
    BY <1>1, <1>2
  <2>2. QED
    BY <2>1 DEF OpToRel
<1>4. QED
  BY <1>2, <1>3

LEMMA IterateExists ==
  ASSUME NEW op, NEW g, NEW s, NEW n \in Nat
  PROVE  \E f : Iterates(f, op, g, s, n)
<1> DEFINE S == {k \in 0..n : \E f : Iterates(f, op, g, s, k)}
<1>1. 0 \in S
  <2> DEFINE f == [T \in SUBSET (1..0) |-> g]
  <2>1. \A T \in SUBSET (1..0) : T = {}
    OBVIOUS
  <2>2. Iterates(f, op, g, s, 0)
    BY <2>1 DEF Iterates
  <2>3. QED
    BY <2>2
<1>2. ASSUME NEW k \in 0..n-1, k \in S
      PROVE  k + 1 \in S
  <2>1. PICK f : Iterates(f, op, g, s, k)
    BY <1>2
  <2> DEFINE Before(T) == f[T \ {Max(T)}]
             e == [T \in SUBSET (1..k+1) |->
                      IF T = {} THEN g ELSE Step(op, Before(T), s[Max(T)])]
  <2>2. ASSUME NEW T \in SUBSET (1..k)
        PROVE  e[T] = f[T]
    <3>1. T \in SUBSET (1..k+1) /\ k + 1 \notin T
      OBVIOUS
    <3>2. f[T] = IF T = {} THEN g ELSE Step(op, f[T \ {Max(T)}], s[Max(T)])
      <4> DEFINE w(R) == IF R = {} THEN g ELSE Step(op, f[R \ {Max(R)}], s[Max(R)])
      <4>1. f = [R \in SUBSET (1..k) |-> w(R)]
        BY <2>1 DEF Iterates
      <4> HIDE DEF w
      <4>2. f[T] = w(T)
        BY <4>1
      <4>3. QED
        BY <4>2 DEF w
    <3>3. QED
      BY <3>1, <3>2
  <2>3. ASSUME NEW T \in SUBSET (1..k+1), T # {}
        PROVE  T \ {Max(T)} \in SUBSET (1..k) /\ Before(T) = f[T \ {Max(T)}]
    <3>1. k \in Nat /\ k + 1 \in Nat
      OBVIOUS
    <3> DEFINE m == Max(T)
    <3>2. m \in T /\ \A x \in T : x <= m
      BY <2>3, <3>1, MaxOfUpTo
    <3> HIDE DEF m
    <3>3. ASSUME NEW x \in T, x # m
          PROVE  x \in 1..k
      <4>1. x \in 1..k+1 /\ m \in 1..k+1 /\ x <= m
        BY <3>2
      <4>2. QED
        BY <3>1, <3>3, <4>1
    <3>4. T \ {m} \in SUBSET (1..k)
      BY <3>3
    <3>5. QED
      BY <3>4 DEF m
  <2> HIDE DEF Before
  <2>4. ASSUME NEW T \in SUBSET (1..k+1)
        PROVE  e[T] = IF T = {} THEN g ELSE Step(op, e[T \ {Max(T)}], s[Max(T)])
    <3>1. CASE T = {}
      BY <3>1
    <3>2. CASE T # {}
      BY <2>2, <2>3, <3>2
    <3>3. QED
      BY <3>1, <3>2
  <2>5. Iterates(e, op, g, s, k + 1)
    <3>1. e = [T \in SUBSET (1..k+1) |-> e[T]]
      OBVIOUS
    <3> HIDE DEF e
    <3>2. QED
      BY <2>4, <3>1 DEF Iterates
  <2>6. QED
    BY <2>5
<1> HIDE DEF S
<1>3. 0..n \subseteq S
  BY <1>1, <1>2, UpTo
<1>4. n \in S
  BY <1>3
<1>5. QED
  BY <1>4 DEF S

LEMMA RunOf ==
  ASSUME NEW op, NEW g, NEW S, NEW s \in Seq(S), NEW e, Iterates(e, op, g, s, Len(s))
  PROVE  \E f : Folds(f, op, g, s) /\ f[Len(s)] = e[1..Len(s)]
<1> DEFINE n == Len(s)
<1>1. n \in Nat
  OBVIOUS
<1>2. \A T \in SUBSET (1..n) :
          e[T] = IF T = {} THEN g ELSE Step(op, e[T \ {Max(T)}], s[Max(T)])
  <2> DEFINE w(T) == IF T = {} THEN g ELSE Step(op, e[T \ {Max(T)}], s[Max(T)])
  <2>1. e = [T \in SUBSET (1..n) |-> w(T)]
    BY DEF Iterates
  <2> HIDE DEF w
  <2>2. \A T \in SUBSET (1..n) : e[T] = w(T)
    BY <2>1
  <2>3. QED
    BY <2>2 DEF w
<1> HIDE DEF n
<1> DEFINE f == [i \in 0..n |-> e[1..i]]
<1>3. f[0] = g
  <2>1. 1..0 = {} /\ 1..0 \in SUBSET (1..n) /\ 0 \in 0..n
    BY <1>1
  <2>2. e[1..0] = g
    BY <1>2, <2>1
  <2>3. QED
    BY <2>1, <2>2
<1>4. ASSUME NEW i \in 1..n
      PROVE  f[i] = Step(op, f[i-1], s[i])
  <2>1. 1..i \in SUBSET (1..n) /\ 1..i # {} /\ i \in Nat \ {0} /\ i \in 0..n /\ i - 1 \in 0..n
    BY <1>1
  <2>2. Max(1..i) = i /\ (1..i) \ {i} = 1..i-1
    BY <2>1, MaxOfAll
  <2>3. e[1..i] = Step(op, e[(1..i) \ {Max(1..i)}], s[Max(1..i)])
    BY <1>2, <2>1
  <2>4. QED
    BY <2>1, <2>2, <2>3
<1>5. f[n] = e[1..n]
  BY <1>1
<1> HIDE DEF f
<1>6. QED
  BY <1>3, <1>4, <1>5 DEF Folds, n

LEMMA FoldUnlink ==
  ASSUME NEW g, NEW S, NEW s \in Seq(S)
  PROVE  \E f : Folds(f, "unlink", g, s) /\ FoldLeft(Unlink, g, s) = f[Len(s)]
<1> DEFINE Is(f) == f = [T \in SUBSET (1..Len(s)) |->
                IF T = {} THEN g ELSE Unlink(f[T \ {Max(T)}], s[Max(T)])]
           e == CHOOSE f : Is(f)
<1>1. DOMAIN s = 1..Len(s) /\ Len(s) \in Nat
  OBVIOUS
<1>2. FoldLeft(Unlink, g, s) =
        (CHOOSE f : f = [T \in SUBSET DOMAIN s |->
                IF T = {} THEN g ELSE Unlink(f[T \ {Max(T)}], s[Max(T)])])[DOMAIN s]
  BY DEF FoldLeft, MapThenFoldSet
<1>3. FoldLeft(Unlink, g, s) = e[1..Len(s)]
  BY <1>1, <1>2
<1>4. ASSUME NEW f
      PROVE  Is(f) <=> Iterates(f, "unlink", g, s, Len(s))
  <2>1. \A x, y : Step("unlink", x, y) = Unlink(x, y)
    BY DEF Step
  <2>2. QED
    BY <2>1 DEF Iterates
<1> HIDE DEF Is
<1>5. \E f : Is(f)
  BY <1>1, <1>4, IterateExists
<1>6. Is(e)
  BY <1>5
<1> HIDE DEF e
<1>7. Iterates(e, "unlink", g, s, Len(s))
  BY <1>4, <1>6
<1>8. QED
  BY <1>3, <1>7, RunOf

LEMMA FoldRemove ==
  ASSUME NEW g, NEW S, NEW s \in Seq(S)
  PROVE  \E f : Folds(f, "remove", g, s) /\ FoldLeft(RemoveWithPrefixes, g, s) = f[Len(s)]
<1> DEFINE Is(f) == f = [T \in SUBSET (1..Len(s)) |->
                IF T = {} THEN g ELSE RemoveWithPrefixes(f[T \ {Max(T)}], s[Max(T)])]
           e == CHOOSE f : Is(f)
<1>1. DOMAIN s = 1..Len(s) /\ Len(s) \in Nat
  OBVIOUS
<1>2. FoldLeft(RemoveWithPrefixes, g, s) =
        (CHOOSE f : f = [T \in SUBSET DOMAIN s |->
                IF T = {} THEN g ELSE RemoveWithPrefixes(f[T \ {Max(T)}], s[Max(T)])])[DOMAIN s]
  BY DEF FoldLeft, MapThenFoldSet
<1>3. FoldLeft(RemoveWithPrefixes, g, s) = e[1..Len(s)]
  BY <1>1, <1>2
<1>4. ASSUME NEW f
      PROVE  Is(f) <=> Iterates(f, "remove", g, s, Len(s))
  <2>1. \A x, y : Step("remove", x, y) = RemoveWithPrefixes(x, y)
    BY DEF Step
  <2>2. QED
    BY <2>1 DEF Iterates
<1> HIDE DEF Is
<1>5. \E f : Is(f)
  BY <1>1, <1>4, IterateExists
<1>6. Is(e)
  BY <1>5
<1> HIDE DEF e
<1>7. Iterates(e, "remove", g, s, Len(s))
  BY <1>4, <1>6
<1>8. QED
  BY <1>3, <1>7, RunOf

LEMMA FoldRele ==
  ASSUME NEW g, NEW S, NEW s \in Seq(S)
  PROVE  \E f : Folds(f, "rele", g, s) /\ FoldLeft(Rele, g, s) = f[Len(s)]
<1> DEFINE Is(f) == f = [T \in SUBSET (1..Len(s)) |->
                IF T = {} THEN g ELSE Rele(f[T \ {Max(T)}], s[Max(T)])]
           e == CHOOSE f : Is(f)
<1>1. DOMAIN s = 1..Len(s) /\ Len(s) \in Nat
  OBVIOUS
<1>2. FoldLeft(Rele, g, s) =
        (CHOOSE f : f = [T \in SUBSET DOMAIN s |->
                IF T = {} THEN g ELSE Rele(f[T \ {Max(T)}], s[Max(T)])])[DOMAIN s]
  BY DEF FoldLeft, MapThenFoldSet
<1>3. FoldLeft(Rele, g, s) = e[1..Len(s)]
  BY <1>1, <1>2
<1>4. ASSUME NEW f
      PROVE  Is(f) <=> Iterates(f, "rele", g, s, Len(s))
  <2>1. \A x, y : Step("rele", x, y) = Rele(x, y)
    BY DEF Step
  <2>2. QED
    BY <2>1 DEF Iterates
<1> HIDE DEF Is
<1>5. \E f : Is(f)
  BY <1>1, <1>4, IterateExists
<1>6. Is(e)
  BY <1>5
<1> HIDE DEF e
<1>7. Iterates(e, "rele", g, s, Len(s))
  BY <1>4, <1>6
<1>8. QED
  BY <1>3, <1>7, RunOf

LEMMA FoldFree ==
  ASSUME NEW g, NEW S, NEW s \in Seq(S)
  PROVE  \E f : Folds(f, "free", g, s) /\ FoldLeft(UnlinkPrefixes, g, s) = f[Len(s)]
<1> DEFINE Is(f) == f = [T \in SUBSET (1..Len(s)) |->
                IF T = {} THEN g ELSE UnlinkPrefixes(f[T \ {Max(T)}], s[Max(T)])]
           e == CHOOSE f : Is(f)
<1>1. DOMAIN s = 1..Len(s) /\ Len(s) \in Nat
  OBVIOUS
<1>2. FoldLeft(UnlinkPrefixes, g, s) =
        (CHOOSE f : f = [T \in SUBSET DOMAIN s |->
                IF T = {} THEN g ELSE UnlinkPrefixes(f[T \ {Max(T)}], s[Max(T)])])[DOMAIN s]
  BY DEF FoldLeft, MapThenFoldSet
<1>3. FoldLeft(UnlinkPrefixes, g, s) = e[1..Len(s)]
  BY <1>1, <1>2
<1>4. ASSUME NEW f
      PROVE  Is(f) <=> Iterates(f, "free", g, s, Len(s))
  <2>1. \A x, y : Step("free", x, y) = UnlinkPrefixes(x, y)
    BY DEF Step
  <2>2. QED
    BY <2>1 DEF Iterates
<1> HIDE DEF Is
<1>5. \E f : Is(f)
  BY <1>1, <1>4, IterateExists
<1>6. Is(e)
  BY <1>5
<1> HIDE DEF e
<1>7. Iterates(e, "free", g, s, Len(s))
  BY <1>4, <1>6
<1>8. QED
  BY <1>3, <1>7, RunOf

LEMMA FoldItem ==
  ASSUME NEW g, NEW S, NEW s \in Seq(S)
  PROVE  \E f : Folds(f, "item", g, s) /\ FoldLeft(ExecItem, g, s) = f[Len(s)]
<1> DEFINE Is(f) == f = [T \in SUBSET (1..Len(s)) |->
                IF T = {} THEN g ELSE ExecItem(f[T \ {Max(T)}], s[Max(T)])]
           e == CHOOSE f : Is(f)
<1>1. DOMAIN s = 1..Len(s) /\ Len(s) \in Nat
  OBVIOUS
<1>2. FoldLeft(ExecItem, g, s) =
        (CHOOSE f : f = [T \in SUBSET DOMAIN s |->
                IF T = {} THEN g ELSE ExecItem(f[T \ {Max(T)}], s[Max(T)])])[DOMAIN s]
  BY DEF FoldLeft, MapThenFoldSet
<1>3. FoldLeft(ExecItem, g, s) = e[1..Len(s)]
  BY <1>1, <1>2
<1>4. ASSUME NEW f
      PROVE  Is(f) <=> Iterates(f, "item", g, s, Len(s))
  <2>1. \A x, y : Step("item", x, y) = ExecItem(x, y)
    BY DEF Step
  <2>2. QED
    BY <2>1 DEF Iterates
<1> HIDE DEF Is
<1>5. \E f : Is(f)
  BY <1>1, <1>4, IterateExists
<1>6. Is(e)
  BY <1>5
<1> HIDE DEF e
<1>7. Iterates(e, "item", g, s, Len(s))
  BY <1>4, <1>6
<1>8. QED
  BY <1>3, <1>7, RunOf

LEMMA FoldDoc ==
  ASSUME NEW g, NEW S, NEW s \in Seq(S)
  PROVE  \E f : Folds(f, "doc", g, s) /\ FoldLeft(ExecDoc, g, s) = f[Len(s)]
<1> DEFINE Is(f) == f = [T \in SUBSET (1..Len(s)) |->
                IF T = {} THEN g ELSE ExecDoc(f[T \ {Max(T)}], s[Max(T)])]
           e == CHOOSE f : Is(f)
<1>1. DOMAIN s = 1..Len(s) /\ Len(s) \in Nat
  OBVIOUS
<1>2. FoldLeft(ExecDoc, g, s) =
        (CHOOSE f : f = [T \in SUBSET DOMAIN s |->
                IF T = {} THEN g ELSE ExecDoc(f[T \ {Max(T)}], s[Max(T)])])[DOMAIN s]
  BY DEF FoldLeft, MapThenFoldSet
<1>3. FoldLeft(ExecDoc, g, s) = e[1..Len(s)]
  BY <1>1, <1>2
<1>4. ASSUME NEW f
      PROVE  Is(f) <=> Iterates(f, "doc", g, s, Len(s))
  <2>1. \A x, y : Step("doc", x, y) = ExecDoc(x, y)
    BY DEF Step
  <2>2. QED
    BY <2>1 DEF Iterates
<1> HIDE DEF Is
<1>5. \E f : Is(f)
  BY <1>1, <1>4, IterateExists
<1>6. Is(e)
  BY <1>5
<1> HIDE DEF e
<1>7. Iterates(e, "doc", g, s, Len(s))
  BY <1>4, <1>6
<1>8. QED
  BY <1>3, <1>7, RunOf

-----------------------------------------------------------------------------
(* What holds of the heap once the file is read, and unlinking prefixes.     *)

Sorted(s) == \A i, j \in DOMAIN s : i < j => s[i] < s[j]

\* The list is in the order of the file, and ends with the end of file.
TokensOK(g) ==
    /\ Sorted(g.toks) /\ g.toks # <<>> /\ ToSet(g.toks) \subseteq Pos
    /\ g.kind[Last(g.toks)] = "eof"

Core(g) ==
    /\ g \in Heap /\ InShape(g) /\ AllSettled(g)
    /\ PrefixesApart(g) /\ PrefixesListed(g) /\ TokensOK(g)

\* The prefixes of P are out of any chain, nothing got into one, and the lexer
\* halts nowhere it did not before.
Unlinked(g, k, P) ==
    /\ Core(k) /\ SameLists(g, k) /\ OnlyBranches(g, k) /\ SameHeld(g, k)
    /\ k.flag \subseteq g.flag
    /\ \A p \in P : k.kind[p] \notin BranchKinds

LEMMA CoreFacts ==
  ASSUME NEW g, Core(g)
  PROVE  /\ g \in Heap /\ LinksInOrder(g) /\ BranchesLinked(g) /\ ParentsHoldIn(g)
         /\ ParentExact(g) /\ BranchesParented(g)
         /\ \A p \in Id : g.kind[p] \in BranchKinds <=> g.par[p] # Null
<1>1. g \in Heap /\ LinksInOrder(g) /\ BranchesLinked(g) /\ ParentsHoldIn(g)
  BY DEF Core, InShape
<1>2. ParentExact(g)
  BY <1>1, ParentsAreExact DEF Core
<1>3. \A p \in Id : g.kind[p] \in BranchKinds => g.par[p] # Null
  BY <1>1 DEF BranchesLinked
<1>4. \A p \in Id : g.par[p] # Null => g.kind[p] \in BranchKinds
  BY <1>1 DEF LinksInOrder
<1>5. QED
  BY <1>1, <1>2, <1>3, <1>4 DEF BranchesParented

LEMMA UnlinkedKind ==
  ASSUME NEW g \in Heap, NEW p \in Id, InShape(g)
  PROVE  Unlink(g, p).kind[p] \notin BranchKinds
<1>1. g.kind \in [Id -> Kinds] /\ LinksInOrder(g) /\ BranchesLinked(g)
  BY HeapFields DEF InShape
<1>2. CASE g.kind[p] = "if"
  <2>1. IfUnlinked(g, Unlink(g, p), p)
    BY <1>2, UnlinkIfLemma DEF Unlink
  <2>2. g.nx[p] # Null => g.nx[p] # p
    BY <1>1, NullOutside DEF LinksInOrder
  <2>3. CASE g.kind[g.nx[p]] = "endif"
    BY <2>1, <2>3 DEF IfUnlinked, CutFrom, BranchKinds
  <2>4. CASE g.kind[g.nx[p]] # "endif"
    BY <1>1, <2>1, <2>4 DEF IfUnlinked, BranchKinds
  <2>5. QED
    BY <2>3, <2>4
<1>3. CASE g.kind[p] = "else"
  <2>1. ElseUnlinked(g, Unlink(g, p), p)
    BY <1>3, UnlinkElseLemma DEF Unlink
  <2>2. QED
    BY <1>1, <2>1 DEF ElseUnlinked, BranchKinds
<1>4. CASE g.kind[p] = "endif"
  <2>1. EndifUnlinked(g, Unlink(g, p), p)
    BY <1>4, UnlinkEndifLemma DEF Unlink
  <2>2. CASE g.kind[g.pv[p]] = "if"
    BY <2>1, <2>2 DEF EndifUnlinked, CutFrom, BranchKinds
  <2>3. CASE g.kind[g.pv[p]] # "if"
    BY <1>1, <2>1, <2>3 DEF EndifUnlinked, BranchKinds
  <2>4. QED
    BY <2>2, <2>3
<1>5. CASE g.kind[p] \notin BranchKinds
  BY <1>5 DEF Unlink, BranchKinds
<1>6. QED
  BY <1>2, <1>3, <1>4, <1>5 DEF BranchKinds

\* What is linked anew is the neighbour of an #else, to the one before it.
LEMMA UnlinkNear ==
  ASSUME NEW g \in Heap, NEW p \in Id, InShape(g), NEW k, k = Unlink(g, p)
  PROVE  /\ \A q \in Id : k.par[q] # Null => k.par[q] = g.par[q]
         /\ \A q \in Id : k.kind[q] = "else" => g.kind[q] = "else"
         /\ \A q \in Id : k.pv[q] # Null =>
                \/ k.pv[q] = g.pv[q]
                \/ g.kind[p] = "else" /\ q = g.nx[p] /\ k.pv[q] = g.pv[p]
<1>1. /\ g.kind \in [Id -> Kinds] /\ g.pv \in [Id -> Id \cup {Null}]
      /\ g.par \in [Id -> Id \cup {Null}]
  BY HeapFields
<1>2. CASE g.kind[p] = "if"
  <2>1. IfUnlinked(g, k, p)
    BY <1>2, UnlinkIfLemma DEF Unlink
  <2>2. CASE g.kind[g.nx[p]] = "endif"
    BY <2>1, <2>2 DEF IfUnlinked, CutFrom
  <2>3. CASE g.kind[g.nx[p]] # "endif"
    BY <1>1, <2>1, <2>3 DEF IfUnlinked
  <2>4. QED
    BY <2>2, <2>3
<1>3. CASE g.kind[p] = "else"
  <2>1. ElseUnlinked(g, k, p)
    BY <1>3, UnlinkElseLemma DEF Unlink
  <2>2. QED
    BY <1>1, <1>3, <2>1 DEF ElseUnlinked
<1>4. CASE g.kind[p] = "endif"
  <2>1. EndifUnlinked(g, k, p)
    BY <1>4, UnlinkEndifLemma DEF Unlink
  <2>2. CASE g.kind[g.pv[p]] = "if"
    BY <2>1, <2>2 DEF EndifUnlinked, CutFrom
  <2>3. CASE g.kind[g.pv[p]] # "if"
    BY <1>1, <2>1, <2>3 DEF EndifUnlinked
  <2>4. QED
    BY <2>2, <2>3
<1>5. CASE g.kind[p] \notin BranchKinds
  BY <1>5 DEF Unlink, BranchKinds
<1>6. QED
  BY <1>2, <1>3, <1>4, <1>5 DEF BranchKinds

\* An alternative that starts at a token once another one is unlinked takes the
\* place of that one.
LEMMA UnlinkFlags ==
  ASSUME NEW g, Core(g), NEW p \in Id, NEW k, k = Unlink(g, p), AllSettled(k)
  PROVE  k.flag \subseteq g.flag
<1>1. /\ g \in Heap /\ InShape(g) /\ AllSettled(g) /\ LinksInOrder(g) /\ ParentsHoldIn(g)
      /\ ParentExact(g)
  BY CoreFacts DEF Core
<1>2. k \in Heap /\ k.pfx = g.pfx /\ LinksInOrder(k) /\ OnlyBranches(g, k)
  BY <1>1, UnlinkLemma DEF InShape, SameLists
<1>3. /\ \A q \in Id : k.par[q] # Null => k.par[q] = g.par[q]
      /\ \A q \in Id : k.kind[q] = "else" => g.kind[q] = "else"
      /\ \A q \in Id : k.pv[q] # Null =>
             \/ k.pv[q] = g.pv[q]
             \/ g.kind[p] = "else" /\ q = g.nx[p] /\ k.pv[q] = g.pv[p]
  BY <1>1, UnlinkNear
<1> HIDE DEF Unlink
<1>4. ASSUME NEW q \in Id, IsAlternative(k, q)
      PROVE  /\ g.par[q] \in Id
             /\ \E a \in Id : IsAlternative(g, a) /\ g.par[a] = g.par[q]
  <2> DEFINE v == k.pv[q]
  <2>1. k.kind[q] = "else" /\ v # Null /\ k.par[q] # k.par[v] /\ v \in Id
    BY <1>2, <1>4, HeapFields DEF IsAlternative
  <2>2. k.nx[v] = q /\ q # Null
    BY <1>2, <2>1, NullOutside DEF LinksInOrder
  <2>3. k.par[q] # Null /\ k.par[v] # Null
    BY <1>2, <2>1, <2>2 DEF LinksInOrder
  <2>4. g.kind[q] = "else" /\ k.par[q] = g.par[q] /\ k.par[v] = g.par[v]
    BY <1>3, <2>1, <2>3
  <2>5. g.par[q] \in Id /\ g.par[q] # g.par[v]
    BY <1>1, <2>1, <2>3, <2>4, HeapFields
  <2>6. CASE v = g.pv[q]
    BY <2>1, <2>4, <2>5, <2>6 DEF IsAlternative
  <2>7. CASE g.kind[p] = "else" /\ q = g.nx[p] /\ v = g.pv[p]
    <3>1. g.pv[q] = p
      BY <1>1, <2>2, <2>7 DEF LinksInOrder
    <3>2. CASE g.par[p] = g.par[q]
      BY <2>1, <2>5, <2>7, <3>2 DEF IsAlternative
    <3>3. CASE g.par[p] # g.par[q]
      BY <2>4, <2>5, <3>1, <3>3, NullOutside DEF IsAlternative
    <3>4. QED
      BY <3>2, <3>3
  <2>8. QED
    BY <1>3, <2>1, <2>5, <2>6, <2>7
<1>5. ASSUME NEW t \in Id, HasBranch(k, t)
      PROVE  HasBranch(g, t)
  <2>1. PICK q \in ToSet(g.pfx[t]) : IsAlternative(k, q)
    BY <1>2, <1>5 DEF HasBranch
  <2>2. q \in Id
    BY <1>1, HeapFields, ToSetType
  <2>3. PICK a \in Id : IsAlternative(g, a) /\ g.par[a] = g.par[q]
    BY <1>4, <2>1, <2>2
  <2>4. g.par[q] # Null /\ g.par[q] = t
    BY <1>1, <1>4, <2>1, <2>2, NullOutside DEF ParentExact
  <2>5. a \in ToSet(g.pfx[t])
    BY <1>1, <2>3, <2>4 DEF ParentsHoldIn
  <2>6. QED
    BY <2>3, <2>5 DEF HasBranch
<1>6. k.flag \subseteq Id
  BY <1>2 DEF Heap
<1>7. QED
  BY <1>1, <1>5, <1>6 DEF AllSettled, Settled

LEMMA UnlinkOne ==
  ASSUME NEW g, Core(g), NEW p \in Id
  PROVE  Unlinked(g, Unlink(g, p), {p})
<1> DEFINE k == Unlink(g, p)
<1>1. /\ k \in Heap /\ SameLists(g, k) /\ InShape(k) /\ OnlyBranches(g, k)
  BY UnlinkLemma DEF Core
<1>2. SameHeld(g, k) /\ AllSettled(k)
  BY CoreFacts, UnlinkSettles DEF Core
<1>3. k.kind[p] \notin BranchKinds
  BY UnlinkedKind DEF Core
<1>4. k.flag \subseteq g.flag
  BY <1>2, UnlinkFlags
<1> HIDE DEF k
<1>5. PrefixesApart(k) /\ PrefixesListed(k)
  BY <1>1 DEF Core, SameLists, PrefixesApart, PrefixesListed
<1>6. TokensOK(k)
  <2>1. k.toks = g.toks /\ Last(g.toks) \in Id
    BY <1>1, NullOutside, HeapFields DEF Core, TokensOK, SameLists, Last
  <2>2. k.kind[Last(g.toks)] = "eof"
    BY <1>1, <2>1 DEF OnlyBranches, Core, TokensOK, BranchKinds
  <2>3. QED
    BY <2>1, <2>2 DEF Core, TokensOK
<1>7. QED
  BY <1>1, <1>2, <1>3, <1>5, <1>6, <1>4 DEF Unlinked, Core, k

LEMMA UnlinkedThrough ==
  ASSUME NEW f, NEW g, NEW k, NEW P \in SUBSET Id, NEW Q \in SUBSET Id,
         Unlinked(f, g, P), Unlinked(g, k, Q)
  PROVE  Unlinked(f, k, P \cup Q)
<1>1. Core(k) /\ SameLists(f, k) /\ SameHeld(f, k)
  BY HeldThrough DEF Unlinked, SameLists
<1>2. OnlyBranches(f, k)
  BY DEF Unlinked, OnlyBranches
<1>3. \A p \in P \cup Q : k.kind[p] \notin BranchKinds
  <2>1. \A p \in P : k.kind[p] = g.kind[p]
    BY DEF Unlinked, OnlyBranches
  <2>2. QED
    BY <2>1 DEF Unlinked
<1>4. k.flag \subseteq f.flag
  BY DEF Unlinked
<1>5. QED
  BY <1>1, <1>2, <1>3, <1>4 DEF Unlinked

LEMMA UnlinkNone ==
  ASSUME NEW g, Core(g)
  PROVE  Unlinked(g, g, {})
  BY DEF Unlinked, SameLists, OnlyBranches, SameHeld

FirstOf(s, i) == {s[j] : j \in 1..i}

LEMMA FirstOfNext ==
  ASSUME NEW s, NEW i \in Nat
  PROVE  FirstOf(s, i + 1) = FirstOf(s, i) \cup {s[i + 1]} /\ FirstOf(s, 0) = {}
<1>1. 1..i+1 = (1..i) \cup {i + 1} /\ 1..0 = {}
  OBVIOUS
<1>2. QED
  BY <1>1 DEF FirstOf

LEMMA FirstOfAll ==
  ASSUME NEW S, NEW s \in Seq(S)
  PROVE  FirstOf(s, Len(s)) = ToSet(s) /\ \A i \in 0..Len(s) : FirstOf(s, i) \subseteq S
<1>1. DOMAIN s = 1..Len(s) /\ Len(s) \in Nat /\ \A i \in 1..Len(s) : s[i] \in S
  OBVIOUS
<1>2. FirstOf(s, Len(s)) = ToSet(s)
  BY <1>1 DEF FirstOf, ToSet
<1>3. \A i \in 0..Len(s) : \A j \in 1..i : j \in 1..Len(s)
  BY <1>1
<1>4. \A i \in 0..Len(s) : FirstOf(s, i) \subseteq S
  BY <1>1, <1>3 DEF FirstOf
<1>5. QED
  BY <1>2, <1>4

LEMMA UnlinkAll ==
  ASSUME NEW g, Core(g), NEW s \in Seq(Id)
  PROVE  Unlinked(g, FoldLeft(Unlink, g, s), ToSet(s))
<1>1. PICK f : Folds(f, "unlink", g, s) /\ FoldLeft(Unlink, g, s) = f[Len(s)]
  BY FoldUnlink
<1>2. Len(s) \in Nat /\ \A i \in 1..Len(s) : s[i] \in Id
  OBVIOUS
<1>3. f[0] = g /\ \A i \in 1..Len(s) : f[i] = Unlink(f[i-1], s[i])
  BY <1>1 DEF Folds, Step
<1> DEFINE S == {i \in 0..Len(s) : Unlinked(g, f[i], FirstOf(s, i))}
<1>4. 0 \in S
  <2>1. FirstOf(s, 0) = {}
    BY FirstOfNext
  <2>2. Unlinked(g, f[0], FirstOf(s, 0))
    BY <1>3, <2>1, UnlinkNone
  <2>3. QED
    BY <1>2, <2>2
<1>5. ASSUME NEW i \in 0..Len(s)-1, i \in S
      PROVE  i + 1 \in S
  <2>1. /\ i \in Nat /\ i \in 0..Len(s) /\ i + 1 \in 1..Len(s) /\ i + 1 \in 0..Len(s)
        /\ i + 1 - 1 = i
    BY <1>2
  <2>2. f[i + 1] = Unlink(f[i], s[i + 1])
    BY <1>3, <2>1
  <2>3. Unlinked(g, f[i], FirstOf(s, i)) /\ Core(f[i])
    BY <1>5 DEF Unlinked
  <2>4. Unlinked(f[i], f[i + 1], {s[i + 1]})
    BY <1>2, <2>1, <2>2, <2>3, UnlinkOne
  <2>5. FirstOf(s, i) \in SUBSET Id /\ {s[i + 1]} \in SUBSET Id
    BY <1>2, <2>1, FirstOfAll
  <2>6. Unlinked(g, f[i + 1], FirstOf(s, i) \cup {s[i + 1]})
    BY <2>3, <2>4, <2>5, UnlinkedThrough
  <2>7. QED
    BY <2>1, <2>6, FirstOfNext
<1> HIDE DEF S
<1>6. Len(s) \in S
  <2>1. 0..Len(s) \subseteq S
    BY <1>2, <1>4, <1>5, UpTo
  <2>2. QED
    BY <1>2, <2>1
<1>7. QED
  BY <1>1, <1>6, FirstOfAll DEF S

-----------------------------------------------------------------------------
(* Prefixes that are no branch come and go.                                  *)

\* The prefixes of t are others, with the same branches among them; f, which is
\* none before and after, is of another kind.
Respelled(g, k, t, f) ==
    /\ k \in Heap /\ k.pv = g.pv /\ k.nx = g.nx /\ k.par = g.par
    /\ k.refs = g.refs /\ k.flag = g.flag /\ k.toks = g.toks
    /\ \A p \in Id \ {f} : k.kind[p] = g.kind[p]
    /\ f \in Id => g.kind[f] \notin BranchKinds /\ k.kind[f] \notin BranchKinds
    /\ f \notin Pos
    /\ \A u \in Id \ {t} : k.pfx[u] = g.pfx[u]
    /\ \A p \in Id : g.kind[p] \in BranchKinds =>
           (p \in ToSet(k.pfx[t]) <=> p \in ToSet(g.pfx[t]))
    /\ k.pfx[t] # <<>> => t \in ToSet(g.toks)
    /\ \A u \in Id \ {t} : ToSet(k.pfx[t]) \cap ToSet(g.pfx[u]) = {}

LEMMA Respell ==
  ASSUME NEW g, Core(g), NEW t \in Id, NEW f, NEW k, Respelled(g, k, t, f)
  PROVE  Core(k) /\ SameHeld(g, k)
<1>1. /\ g \in Heap /\ LinksInOrder(g) /\ BranchesLinked(g) /\ ParentsHoldIn(g)
      /\ \A p \in Id : g.kind[p] \in BranchKinds <=> g.par[p] # Null
  BY CoreFacts
<1>2. /\ k \in Heap /\ k.pv = g.pv /\ k.nx = g.nx /\ k.par = g.par
      /\ k.refs = g.refs /\ k.flag = g.flag /\ k.toks = g.toks
  BY DEF Respelled
<1>3. ASSUME NEW p \in Id
      PROVE  /\ k.kind[p] \in BranchKinds <=> g.kind[p] \in BranchKinds
             /\ g.kind[p] \in BranchKinds => k.kind[p] = g.kind[p]
  BY DEF Respelled
<1>4. LinksInOrder(k) /\ BranchesLinked(k)
  <2>1. LinksInOrder(k)
    <3>1. \A p \in Id : \A K \in SUBSET BranchKinds : k.kind[p] \in K <=> g.kind[p] \in K
      BY <1>3
    <3>2. \A p \in Id : /\ k.kind[p] \in {"if", "else"} <=> g.kind[p] \in {"if", "else"}
                        /\ k.kind[p] \in {"else", "endif"} <=> g.kind[p] \in {"else", "endif"}
      BY <3>1 DEF BranchKinds
    <3> HIDE DEF BranchKinds
    <3>3. QED
      BY <1>1, <1>2, <1>3, <3>2 DEF LinksInOrder
  <2>2. BranchesLinked(k)
    BY <1>1, <1>2, <1>3 DEF BranchesLinked, BranchKinds
  <2>3. QED
    BY <2>1, <2>2
<1>5. ParentsHoldIn(k)
  <2> SUFFICES ASSUME NEW p \in Id, k.par[p] # Null
               PROVE  /\ k.par[p] \in ToSet(k.toks)
                      /\ p \in ToSet(k.pfx[k.par[p]])
    BY DEF ParentsHoldIn
  <2>1. /\ g.par[p] \in ToSet(g.toks) /\ p \in ToSet(g.pfx[g.par[p]])
        /\ g.kind[p] \in BranchKinds /\ g.par[p] \in Id
    BY <1>1, <1>2, HeapFields DEF ParentsHoldIn
  <2>2. QED
    BY <1>2, <2>1 DEF Respelled
<1>6. AllSettled(k)
  <2> SUFFICES ASSUME NEW u \in Id
               PROVE  Settled(k, u)
    BY DEF AllSettled
  <2>1. ToSet(k.pfx[u]) \subseteq Id /\ ToSet(g.pfx[u]) \subseteq Id
    BY <1>1, <1>2, HeapFields, ToSetType
  <2>2. \A p \in Id : IsAlternative(k, p) <=> IsAlternative(g, p)
    BY <1>2, <1>3 DEF IsAlternative, BranchKinds
  <2>3. \A p \in Id : IsAlternative(g, p) =>
            (p \in ToSet(k.pfx[u]) <=> p \in ToSet(g.pfx[u]))
    <3>1. \A p \in Id : IsAlternative(g, p) => g.kind[p] \in BranchKinds
      BY DEF IsAlternative, BranchKinds
    <3>2. CASE u = t
      BY <3>1, <3>2 DEF Respelled
    <3>3. CASE u # t
      BY <3>3 DEF Respelled
    <3>4. QED
      BY <3>2, <3>3
  <2>4. HasBranch(k, u) <=> HasBranch(g, u)
    BY <2>1, <2>2, <2>3 DEF HasBranch
  <2>5. QED
    BY <1>2, <2>4 DEF Core, AllSettled, Settled
<1>7. PrefixesApart(k)
  <2> SUFFICES ASSUME NEW a \in Id, NEW b \in Id, a # b
               PROVE  ToSet(k.pfx[a]) \cap ToSet(k.pfx[b]) = {}
    BY DEF PrefixesApart
  <2>1. ToSet(g.pfx[a]) \cap ToSet(g.pfx[b]) = {}
    BY DEF Core, PrefixesApart
  <2>2. CASE a = t
    BY <2>2 DEF Respelled
  <2>3. CASE b = t
    BY <2>3 DEF Respelled
  <2>4. CASE a # t /\ b # t
    BY <2>1, <2>4 DEF Respelled
  <2>5. QED
    BY <2>2, <2>3, <2>4
<1>8. PrefixesListed(k)
  BY <1>2 DEF Core, PrefixesListed, Respelled
<1>9. TokensOK(k)
  <2>1. Last(g.toks) \in Pos
    <3>1. g.toks \in Seq(Id) /\ g.toks # <<>>
      BY <1>1, HeapFields DEF Core, TokensOK
    <3>2. Last(g.toks) \in ToSet(g.toks)
      BY <3>1 DEF Last, ToSet
    <3>3. QED
      BY <3>2 DEF Core, TokensOK
  <2>2. k.kind[Last(g.toks)] = g.kind[Last(g.toks)]
    BY <2>1, NullOutside DEF Respelled
  <2>3. QED
    BY <1>2, <2>2 DEF Core, TokensOK
<1>10. SameHeld(g, k)
  BY <1>2, HeldAlike
<1>11. QED
  BY <1>2, <1>4, <1>5, <1>6, <1>7, <1>8, <1>9, <1>10 DEF Core, InShape

-----------------------------------------------------------------------------
(* Removing tokens together with their prefixes.                             *)

LEMMA BelowLast ==
  ASSUME NEW n \in Nat, NEW i \in 1..n, i # n
  PROVE  /\ i \in Int /\ i \in 1..n-1 /\ i < n /\ i + 1 \in 1..n /\ i < i + 1
         /\ n - 1 \in Nat \ {0} /\ n - 1 \in 1..n-1 /\ n - 1 + 1 = n /\ ~(n - 1 < i)
  OBVIOUS

LEMMA ItemOf ==
  ASSUME NEW s \in Seq(Id), NEW i \in DOMAIN s
  PROVE  i \in 1..Len(s) /\ i \in Int /\ s[i] \in Id /\ s[i] \in Nat
<1>1. i \in 1..Len(s) /\ s[i] \in Id
  OBVIOUS
<1>2. i \in Int
  BY <1>1
<1>3. QED
  BY <1>1, <1>2, NullOutside

LEMMA SortedDistinct ==
  ASSUME NEW s \in Seq(Id), Sorted(s)
  PROVE  Distinct(s)
<1> SUFFICES ASSUME NEW i \in DOMAIN s, NEW j \in DOMAIN s, s[i] = s[j], i # j
             PROVE  FALSE
  BY DEF Distinct
<1>1. i \in Int /\ j \in Int /\ s[i] \in Nat /\ s[j] \in Nat
  BY ItemOf
<1>2. CASE i < j
  BY <1>1, <1>2 DEF Sorted
<1>3. CASE j < i
  BY <1>1, <1>3 DEF Sorted
<1>4. QED
  BY <1>1, <1>2, <1>3

LEMMA RemoveSorted ==
  ASSUME NEW s \in Seq(Id), Sorted(s), NEW t \in ToSet(s), Last(s) # t,
         NEW r, r = RemoveAt(s, IndexOf(s, t))
  PROVE  /\ r \in Seq(Id) /\ Sorted(r) /\ r # <<>> /\ Last(r) = Last(s)
         /\ ToSet(r) = ToSet(s) \ {t}
<1> DEFINE i == IndexOf(s, t)
<1>1. i \in 1..Len(s) /\ s[i] = t /\ DOMAIN s = 1..Len(s) /\ Len(s) \in Nat
  BY IndexOfLemma
<1> HIDE DEF i
<1>2. /\ r \in Seq(Id) /\ Len(r) = Len(s) - 1
      /\ \A j \in 1..(Len(s) - 1) : r[j] = IF j < i THEN s[j] ELSE s[j + 1]
  BY <1>1, RemoveAtLemma DEF i
<1>3. i # Len(s)
  BY <1>1 DEF Last
<1> DEFINE n == Len(s) - 1
<1>4. DOMAIN r = 1..n /\ Len(r) = n
  BY <1>2
<1>5. /\ i \in Int /\ n \in Nat \ {0} /\ n \in 1..n /\ n + 1 = Len(s) /\ ~(n < i)
  BY <1>1, <1>3, BelowLast
<1>6. \A j \in 1..n : r[j] = IF j < i THEN s[j] ELSE s[j + 1]
  BY <1>2
<1> HIDE DEF n
<1>7. r # <<>> /\ Last(r) = Last(s)
  <2>1. r[n] = s[Len(s)]
    BY <1>5, <1>6
  <2>2. r # <<>>
    BY <1>4, <1>5
  <2>3. QED
    BY <1>4, <2>1, <2>2 DEF Last
<1>8. Sorted(r)
  <2> SUFFICES ASSUME NEW m \in DOMAIN r, NEW l \in DOMAIN r, m < l
               PROVE  r[m] < r[l]
    BY DEF Sorted
  <2> DEFINE at(j) == IF j < i THEN j ELSE j + 1
  <2>1. m \in 1..n /\ l \in 1..n
    BY <1>4
  <2>2. at(m) \in 1..n+1 /\ at(l) \in 1..n+1 /\ at(m) < at(l)
    BY <1>5, <2>1
  <2>3. r[m] = s[at(m)] /\ r[l] = s[at(l)]
    BY <1>6, <2>1
  <2> HIDE DEF at
  <2>4. QED
    BY <1>1, <1>5, <2>2, <2>3 DEF Sorted
<1>9. ToSet(r) = ToSet(s) \ {t}
  BY SortedDistinct, RemoveFromList
<1>10. QED
  BY <1>2, <1>7, <1>8, <1>9

\* The tokens of R are gone with their prefixes, which are out of any chain.
RangeRemoved(g, k, R) ==
    /\ Core(k) /\ OnlyBranches(g, k) /\ k.flag \subseteq g.flag
    /\ ToSet(k.toks) = ToSet(g.toks) \ R /\ Last(k.toks) = Last(g.toks)
    /\ \A t \in Id : k.pfx[t] = IF t \in R THEN <<>> ELSE g.pfx[t]
    /\ \A t \in R : \A p \in ToSet(g.pfx[t]) : k.kind[p] \notin BranchKinds
    /\ \A t \in Id : Held(k, t) = Held(g, t) - (IF t \in R THEN 1 ELSE 0)

LEMMA ListFacts ==
  ASSUME NEW g, Core(g)
  PROVE  /\ g.toks \in Seq(Id) /\ Sorted(g.toks) /\ Distinct(g.toks) /\ g.toks # <<>>
         /\ Last(g.toks) \in ToSet(g.toks) /\ ToSet(g.toks) \subseteq Pos
<1>1. g.toks \in Seq(Id) /\ Sorted(g.toks) /\ g.toks # <<>> /\ ToSet(g.toks) \subseteq Pos
  BY HeapFields DEF Core, TokensOK
<1>2. Last(g.toks) \in ToSet(g.toks)
  BY <1>1 DEF Last, ToSet
<1>3. QED
  BY <1>1, <1>2, SortedDistinct

\* The token after one that is not the last.
LEMMA NextToken ==
  ASSUME NEW g, Core(g), NEW t \in ToSet(g.toks), t # Last(g.toks)
  PROVE  /\ Index(g, t) \in 1..Len(g.toks) - 1 /\ g.toks[Index(g, t)] = t
         /\ TokenNext(g, t) = g.toks[Index(g, t) + 1]
         /\ TokenNext(g, t) \in ToSet(g.toks) /\ t < TokenNext(g, t)
<1>1. g.toks \in Seq(Id) /\ Sorted(g.toks)
  BY ListFacts
<1> DEFINE i == Index(g, t)
<1>2. i \in 1..Len(g.toks) /\ g.toks[i] = t /\ DOMAIN g.toks = 1..Len(g.toks)
  BY <1>1, IndexOfLemma DEF Index
<1>3. i # Len(g.toks)
  BY <1>2 DEF Last
<1> HIDE DEF i
<1>4. i < Len(g.toks) /\ i + 1 \in DOMAIN g.toks /\ i \in DOMAIN g.toks /\ i < i + 1
      /\ i \in 1..Len(g.toks) - 1
  BY <1>1, <1>2, <1>3
<1>5. TokenNext(g, t) = g.toks[i + 1]
  BY <1>4 DEF TokenNext, InList, i
<1>6. g.toks[i] < g.toks[i + 1] /\ g.toks[i + 1] \in ToSet(g.toks)
  BY <1>1, <1>4 DEF Sorted, ToSet
<1>7. QED
  BY <1>2, <1>4, <1>5, <1>6 DEF i

LEMMA BareRemoved ==
  ASSUME NEW g, Core(g), NEW t \in Id, t \in ToSet(g.toks), g.pfx[t] = <<>>,
         NEW k \in Heap, k.kind = g.kind, k.pv = g.pv, k.nx = g.nx, k.flag = g.flag,
         \A v \in Id : k.par[v] = g.par[v] /\ k.pfx[v] = g.pfx[v],
         \A v \in Id : k.refs[v] = g.refs[v] - (IF v = t THEN 1 ELSE 0),
         Sorted(k.toks), k.toks # <<>>, Last(k.toks) = Last(g.toks),
         ToSet(k.toks) = ToSet(g.toks) \ {t}
  PROVE  RangeRemoved(g, k, {t})
<1>1. /\ g \in Heap /\ LinksInOrder(g) /\ BranchesLinked(g) /\ ParentsHoldIn(g)
  BY CoreFacts
<1>2. ToSet(g.pfx[t]) = {}
  BY DEF ToSet
<1>3. LinksInOrder(k) /\ BranchesLinked(k)
  BY <1>1 DEF LinksInOrder, BranchesLinked
<1>4. ParentsHoldIn(k)
  <2> SUFFICES ASSUME NEW p \in Id, k.par[p] # Null
               PROVE  k.par[p] \in ToSet(k.toks) /\ p \in ToSet(k.pfx[k.par[p]])
    BY DEF ParentsHoldIn
  <2>1. g.par[p] \in Id /\ g.par[p] \in ToSet(g.toks) /\ p \in ToSet(g.pfx[g.par[p]])
    BY <1>1, HeapFields DEF ParentsHoldIn
  <2>2. QED
    BY <1>2, <2>1
<1>5. AllSettled(k)
  <2>1. \A p \in Id : IsAlternative(k, p) <=> IsAlternative(g, p)
    <3>1. \A p \in Id : g.pv[p] # Null => g.pv[p] \in Id
      BY <1>1, HeapFields
    <3>2. QED
      BY <3>1 DEF IsAlternative
  <2>2. ASSUME NEW v \in Id
        PROVE  HasBranch(k, v) <=> HasBranch(g, v)
    <3>1. ToSet(g.pfx[v]) \subseteq Id /\ k.pfx[v] = g.pfx[v]
      BY <1>1, HeapFields, ToSetType
    <3>2. QED
      BY <2>1, <3>1 DEF HasBranch
  <2>3. QED
    BY <2>2 DEF Core, AllSettled, Settled
<1>6. PrefixesApart(k)
  BY DEF Core, PrefixesApart
<1>7. PrefixesListed(k)
  BY DEF Core, PrefixesListed
<1>8. TokensOK(k)
  BY DEF Core, TokensOK
<1>9. Core(k)
  BY <1>3, <1>4, <1>5, <1>6, <1>7, <1>8 DEF Core, InShape
<1>10. \A v \in Id : Held(k, v) = Held(g, v) - (IF v \in {t} THEN 1 ELSE 0)
  <2> SUFFICES ASSUME NEW v \in Id
               PROVE  Held(k, v) = Held(g, v) - (IF v = t THEN 1 ELSE 0)
    OBVIOUS
  <2>1. Kids(k, v) = Kids(g, v)
    BY DEF Kids
  <2>2. g.refs[v] \in Int /\ Cardinality(Kids(g, v)) \in Nat
    BY <1>1, HeapFields, KidsCount
  <2>3. QED
    BY <2>1, <2>2 DEF Held
<1>11. OnlyBranches(g, k)
  BY DEF OnlyBranches
<1>12. /\ \A v \in Id : k.pfx[v] = IF v \in {t} THEN <<>> ELSE g.pfx[v]
       /\ \A v \in {t} : \A p \in ToSet(g.pfx[v]) : k.kind[p] \notin BranchKinds
  BY <1>2
<1>13. QED
  BY <1>9, <1>10, <1>11, <1>12 DEF RangeRemoved

\* lexer_remove() of a token having no prefix.
LEMMA BareFields ==
  ASSUME NEW g, Core(g), NEW t \in Id, t \in ToSet(g.toks), t # Last(g.toks),
         g.pfx[t] = <<>>, NEW k, k = LexerRemove(g, t)
  PROVE  /\ k \in Heap /\ k.kind = g.kind /\ k.pv = g.pv /\ k.nx = g.nx /\ k.flag = g.flag
         /\ \A v \in Id : k.par[v] = g.par[v] /\ k.pfx[v] = g.pfx[v]
         /\ \A v \in Id : k.refs[v] = g.refs[v] - (IF v = t THEN 1 ELSE 0)
         /\ Sorted(k.toks) /\ k.toks # <<>> /\ Last(k.toks) = Last(g.toks)
         /\ ToSet(k.toks) = ToSet(g.toks) \ {t}
<1> DEFINE u == TokenNext(g, t)
           moved == MovePrefixes(g, t, u)
           toks == RemoveAt(moved.toks, Index(g, t))
           cut == [moved EXCEPT !.toks = toks]
<1>1. /\ g \in Heap /\ InShape(g) /\ AllSettled(g) /\ PrefixesApart(g) /\ PrefixesListed(g)
      /\ g.toks \in Seq(Id) /\ Sorted(g.toks) /\ ToSet(g.toks) \subseteq Pos
      /\ g.kind[Last(g.toks)] = "eof" /\ Last(g.toks) \in Id
  BY ListFacts, NullOutside DEF Core, TokensOK
<1>2. u \in Id /\ u # t
  <2>1. u \in Pos /\ t \in Pos /\ t < u
    BY <1>1, NextToken
  <2>2. QED
    BY <2>1, NullOutside DEF Pos
<1> HIDE DEF u
<1>3. Moved(g, moved, <<>>, <<>>, t, u)
  BY <1>1, <1>2, MoveFields
<1>4. BranchesOf(g, <<>>) = {} /\ \A S \in {x \in {} : TRUE} : FALSE
  BY DEF BranchesOf, ToSet
<1>5. Cardinality({}) = 0 /\ {p \in {} : g.par[p] = t} = {}
  BY FS_EmptySet
<1>6. /\ moved \in Heap /\ moved.kind = g.kind /\ moved.pv = g.pv /\ moved.nx = g.nx
      /\ moved.toks = g.toks /\ moved.flag = g.flag
      /\ \A p \in Id : moved.par[p] = g.par[p]
  BY <1>3, <1>4 DEF Moved
<1>7. \A v \in Id : moved.pfx[v] = g.pfx[v]
  <2>1. moved.pfx[t] = g.pfx[t]
    BY <1>3 DEF Moved
  <2>2. moved.pfx[u] = g.pfx[u]
    <3>1. g.pfx[u] \in Seq(Id)
      BY <1>1, <1>2, HeapFields
    <3>2. moved.pfx[u] = <<>> \o g.pfx[u]
      BY <1>3 DEF Moved
    <3>3. QED
      BY <3>1, <3>2
  <2>3. QED
    BY <1>3, <2>1, <2>2 DEF Moved
<1>8. \A v \in Id : moved.refs[v] = g.refs[v]
  <2>1. g.refs[u] \in Int /\ g.refs[t] \in Int
    BY <1>1, <1>2, HeapFields
  <2>2. /\ moved.refs[u] = g.refs[u] + Cardinality(BranchesOf(g, <<>>))
        /\ moved.refs[t] = g.refs[t] - Cardinality({p \in BranchesOf(g, <<>>) : g.par[p] = t})
        /\ \A v \in Id \ {t, u} : moved.refs[v] = g.refs[v]
    BY <1>3 DEF Moved
  <2>3. moved.refs[u] = g.refs[u] + 0 /\ moved.refs[t] = g.refs[t] - 0
    BY <1>4, <1>5, <2>2
  <2>4. QED
    BY <2>1, <2>2, <2>3
<1>9. k = Rele(cut, t)
  BY DEF LexerRemove, u
<1> HIDE DEF moved
<1>10. toks \in Seq(Id) /\ Sorted(toks) /\ toks # <<>> /\ Last(toks) = Last(g.toks)
       /\ ToSet(toks) = ToSet(g.toks) \ {t}
  BY <1>1, <1>6, RemoveSorted DEF Index
<1> HIDE DEF toks
<1>11. /\ cut \in Heap /\ SameLinks(moved, cut) /\ cut.pfx = moved.pfx
       /\ cut.toks = toks /\ cut.refs = moved.refs /\ cut.flag = moved.flag
  BY <1>6, <1>10 DEF Heap, SameLinks
<1> HIDE DEF cut
<1>12. /\ k \in Heap /\ SameLinks(cut, k) /\ SameLists(cut, k) /\ k.flag = cut.flag
       /\ \A v \in Id : k.refs[v] = cut.refs[v] - (IF v = t THEN 1 ELSE 0)
  BY <1>9, <1>11, ReleLemma, RefFields
<1>13. /\ k \in Heap /\ k.kind = g.kind /\ k.pv = g.pv /\ k.nx = g.nx /\ k.flag = g.flag
       /\ k.toks = toks
       /\ \A v \in Id : k.par[v] = g.par[v] /\ k.pfx[v] = g.pfx[v]
       /\ \A v \in Id : k.refs[v] = g.refs[v] - (IF v = t THEN 1 ELSE 0)
  BY <1>6, <1>7, <1>8, <1>11, <1>12 DEF SameLinks, SameLists
<1>14. QED
  BY <1>10, <1>13

LEMMA RemoveBare ==
  ASSUME NEW g, Core(g), NEW t \in Id, t \in ToSet(g.toks), t # Last(g.toks),
         g.pfx[t] = <<>>, NEW k, k = LexerRemove(g, t)
  PROVE  RangeRemoved(g, k, {t})
  BY BareFields, BareRemoved



\* remove_token()
LEMMA RemoveOne ==
  ASSUME NEW g, Core(g), NEW t \in Id, t \in ToSet(g.toks), t # Last(g.toks)
  PROVE  RangeRemoved(g, RemoveWithPrefixes(g, t), {t})
<1> DEFINE free == FoldLeft(Unlink, g, g.pfx[t])
           bare == [free EXCEPT !.pfx[t] = <<>>]
           k == LexerRemove(bare, t)
<1>1. g \in Heap /\ g.pfx[t] \in Seq(Id)
  BY HeapFields DEF Core
<1>2. Unlinked(g, free, ToSet(g.pfx[t]))
  BY <1>1, UnlinkAll
<1>3. RemoveWithPrefixes(g, t) = k
  BY DEF RemoveWithPrefixes, UnlinkPrefixes
<1> HIDE DEF free
<1>4. /\ Core(free) /\ free \in Heap /\ free.pfx = g.pfx /\ free.toks = g.toks
      /\ \A p \in ToSet(g.pfx[t]) : free.kind[p] \notin BranchKinds
      /\ OnlyBranches(g, free) /\ SameHeld(g, free) /\ free.flag \subseteq g.flag
  BY <1>2 DEF Unlinked, Core, SameLists
<1>5. ToSet(<<>>) = {} /\ <<>> \in Seq(Id)
  BY DEF ToSet
<1>6. /\ bare \in Heap /\ bare.kind = free.kind /\ bare.pv = free.pv /\ bare.nx = free.nx
      /\ bare.par = free.par /\ bare.refs = free.refs /\ bare.flag = free.flag
      /\ bare.toks = free.toks
      /\ bare.pfx[t] = <<>> /\ \A u \in Id \ {t} : bare.pfx[u] = free.pfx[u]
  BY <1>4, <1>5 DEF Heap
<1> HIDE DEF bare
<1>7. Respelled(free, bare, t, Null)
  <2>1. \A p \in Id : g.kind[p] \in BranchKinds /\ p \in ToSet(g.pfx[t]) =>
                         free.kind[p] \notin BranchKinds
    BY <1>4
  <2>2. ToSet(bare.pfx[t]) = {} /\ Null \notin Pos
    BY <1>5, <1>6, NullOutside
  <2>3. QED
    BY <1>4, <1>6, <2>2, NullOutside DEF Respelled
<1>8. Core(bare) /\ SameHeld(free, bare)
  BY <1>4, <1>7, Respell
<1>9. RangeRemoved(bare, k, {t})
  BY <1>4, <1>6, <1>8, RemoveBare
<1> HIDE DEF k
<1>10. RangeRemoved(g, k, {t})
  <2>1. OnlyBranches(g, k)
    BY <1>4, <1>6, <1>9 DEF RangeRemoved, OnlyBranches
  <2>2. \A v \in Id : k.pfx[v] = IF v \in {t} THEN <<>> ELSE g.pfx[v]
    BY <1>4, <1>6, <1>9 DEF RangeRemoved
  <2>3. \A p \in ToSet(g.pfx[t]) : k.kind[p] \notin BranchKinds
    <3>1. ToSet(g.pfx[t]) \subseteq Id
      BY <1>1, ToSetType
    <3>2. \A p \in ToSet(g.pfx[t]) : bare.kind[p] \notin BranchKinds
      BY <1>4, <1>6
    <3>3. QED
      BY <1>9, <3>1, <3>2 DEF RangeRemoved, OnlyBranches
  <2>4. \A v \in Id : Held(k, v) = Held(g, v) - (IF v \in {t} THEN 1 ELSE 0)
    BY <1>4, <1>8, <1>9 DEF RangeRemoved, SameHeld
  <2>5. Core(k) /\ ToSet(k.toks) = ToSet(g.toks) \ {t} /\ Last(k.toks) = Last(g.toks)
    BY <1>4, <1>6, <1>9 DEF RangeRemoved
  <2>6. k.flag \subseteq g.flag
    BY <1>4, <1>6, <1>9 DEF RangeRemoved
  <2>7. QED
    BY <2>1, <2>2, <2>3, <2>4, <2>5, <2>6 DEF RangeRemoved
<1>11. QED
  BY <1>3, <1>10

LEMMA RangeThrough ==
  ASSUME NEW f, NEW g, NEW k, NEW P \in SUBSET Id, NEW Q \in SUBSET Id, P \cap Q = {},
         Core(f), RangeRemoved(f, g, P), RangeRemoved(g, k, Q)
  PROVE  RangeRemoved(f, k, P \cup Q)
<1>1. f \in Heap
  BY DEF Core
<1>2. OnlyBranches(f, k)
  BY DEF RangeRemoved, OnlyBranches
<1>3. ToSet(k.toks) = ToSet(f.toks) \ (P \cup Q) /\ Last(k.toks) = Last(f.toks)
  BY DEF RangeRemoved
<1>4. \A t \in Id : k.pfx[t] = IF t \in P \cup Q THEN <<>> ELSE f.pfx[t]
  BY DEF RangeRemoved
<1>5. ASSUME NEW t \in P \cup Q, NEW p \in ToSet(f.pfx[t])
      PROVE  k.kind[p] \notin BranchKinds
  <2>1. p \in Id /\ t \in Id
    BY <1>1, HeapFields, ToSetType
  <2>2. CASE t \in P
    <3>1. g.kind[p] \notin BranchKinds
      BY <2>2 DEF RangeRemoved
    <3>2. QED
      BY <2>1, <3>1 DEF RangeRemoved, OnlyBranches
  <2>3. CASE t \in Q
    <3>1. g.pfx[t] = f.pfx[t]
      BY <2>1, <2>3 DEF RangeRemoved
    <3>2. QED
      BY <2>3, <3>1 DEF RangeRemoved
  <2>4. QED
    BY <2>2, <2>3
<1>6. ASSUME NEW t \in Id
      PROVE  Held(k, t) = Held(f, t) - (IF t \in P \cup Q THEN 1 ELSE 0)
  <2>1. /\ Held(g, t) = Held(f, t) - (IF t \in P THEN 1 ELSE 0)
        /\ Held(k, t) = Held(g, t) - (IF t \in Q THEN 1 ELSE 0)
    BY DEF RangeRemoved
  <2>2. Held(f, t) \in Int
    BY <1>1, HeapFields, KidsCount DEF Held
  <2>3. QED
    BY <2>1, <2>2
<1>7. k.flag \subseteq f.flag
  BY DEF RangeRemoved
<1>8. QED
  BY <1>2, <1>3, <1>4, <1>5, <1>6, <1>7 DEF RangeRemoved

LEMMA RangeNone ==
  ASSUME NEW g, Core(g)
  PROVE  RangeRemoved(g, g, {})
<1>1. \A t \in Id : Held(g, t) = Held(g, t) - 0
  BY HeapFields, KidsCount DEF Core, Held
<1>2. QED
  BY <1>1 DEF RangeRemoved, OnlyBranches

\* remove_token() of each token of s in turn.
LEMMA RemoveAll ==
  ASSUME NEW g, Core(g), NEW s \in Seq(Id), Distinct(s), ToSet(s) \subseteq ToSet(g.toks),
         Last(g.toks) \notin ToSet(s)
  PROVE  RangeRemoved(g, FoldLeft(RemoveWithPrefixes, g, s), ToSet(s))
<1>1. PICK f : /\ Folds(f, "remove", g, s)
               /\ FoldLeft(RemoveWithPrefixes, g, s) = f[Len(s)]
  BY FoldRemove
<1>2. /\ Len(s) \in Nat /\ \A i \in 1..Len(s) : s[i] \in Id
      /\ DOMAIN s = 1..Len(s)
  OBVIOUS
<1>3. f[0] = g /\ \A i \in 1..Len(s) : f[i] = RemoveWithPrefixes(f[i-1], s[i])
  BY <1>1 DEF Folds, Step
<1> DEFINE S == {i \in 0..Len(s) : RangeRemoved(g, f[i], FirstOf(s, i))}
<1>4. 0 \in S
  <2>1. FirstOf(s, 0) = {}
    BY FirstOfNext
  <2>2. RangeRemoved(g, f[0], FirstOf(s, 0))
    BY <1>3, <2>1, RangeNone
  <2>3. QED
    BY <1>2, <2>2
<1>5. ASSUME NEW i \in 0..Len(s)-1, i \in S
      PROVE  i + 1 \in S
  <2>1. /\ i \in Nat /\ i \in 0..Len(s) /\ i + 1 \in 1..Len(s) /\ i + 1 \in 0..Len(s)
        /\ i + 1 - 1 = i
    BY <1>2
  <2>2. f[i + 1] = RemoveWithPrefixes(f[i], s[i + 1])
    BY <1>3, <2>1
  <2>3. RangeRemoved(g, f[i], FirstOf(s, i)) /\ Core(f[i])
    BY <1>5 DEF RangeRemoved
  <2>4. s[i + 1] \in ToSet(s) /\ s[i + 1] \in Id /\ s[i + 1] \notin FirstOf(s, i)
    <3>1. s[i + 1] \in ToSet(s)
      BY <1>2, <2>1 DEF ToSet
    <3>2. \A j \in 1..i : j \in 1..Len(s) /\ j # i + 1
      BY <2>1
    <3>3. \A j \in 1..i : s[j] # s[i + 1]
      BY <1>2, <2>1, <3>2 DEF Distinct
    <3>4. QED
      BY <1>2, <2>1, <3>1, <3>3 DEF FirstOf
  <2>5. s[i + 1] \in ToSet(f[i].toks) /\ s[i + 1] # Last(f[i].toks)
    BY <2>3, <2>4 DEF RangeRemoved
  <2>6. RangeRemoved(f[i], f[i + 1], {s[i + 1]})
    BY <2>2, <2>3, <2>4, <2>5, RemoveOne
  <2>7. FirstOf(s, i) \in SUBSET Id /\ {s[i + 1]} \in SUBSET Id
        /\ FirstOf(s, i) \cap {s[i + 1]} = {}
    BY <1>2, <2>1, <2>4, FirstOfAll
  <2>8. RangeRemoved(g, f[i + 1], FirstOf(s, i) \cup {s[i + 1]})
    BY <2>3, <2>6, <2>7, RangeThrough
  <2>9. QED
    BY <2>1, <2>8, FirstOfNext
<1> HIDE DEF S
<1>6. Len(s) \in S
  <2>1. 0..Len(s) \subseteq S
    BY <1>2, <1>4, <1>5, UpTo
  <2>2. QED
    BY <1>2, <2>1
<1>7. QED
  BY <1>1, <1>6, FirstOfAll DEF S

LEMMA RangeOfSubSeq ==
  ASSUME NEW s \in Seq(Id), Distinct(s), NEW i \in 1..Len(s), NEW j \in 1..Len(s)
  PROVE  /\ SubSeq(s, i, j - 1) \in Seq(Id)
         /\ ToSet(SubSeq(s, i, j - 1)) = {s[m] : m \in i..j-1}
         /\ Distinct(SubSeq(s, i, j - 1))
<1> DEFINE r == SubSeq(s, i, j - 1)
           l == IF i <= j - 1 THEN j - i ELSE 0
<1>1. i \in Nat /\ j \in Nat /\ i >= 1 /\ j <= Len(s) /\ l \in Nat /\ DOMAIN s = 1..Len(s)
  OBVIOUS
<1>2. r \in Seq(Id) /\ DOMAIN r = 1..l /\ \A m \in 1..l : r[m] = s[i + m - 1]
  OBVIOUS
<1> HIDE DEF r
<1>3. \A m \in 1..l : i + m - 1 \in i..j-1 /\ i + m - 1 \in 1..Len(s)
  BY <1>1
<1>4. \A m \in i..j-1 : m - i + 1 \in 1..l /\ i + (m - i + 1) - 1 = m
  BY <1>1
<1> HIDE DEF l
<1>5. ToSet(r) = {s[m] : m \in i..j-1}
  <2>1. \A m \in DOMAIN r : r[m] \in {s[q] : q \in i..j-1}
    BY <1>2, <1>3
  <2>2. \A m \in i..j-1 : s[m] = r[m - i + 1] /\ m - i + 1 \in DOMAIN r
    BY <1>2, <1>4
  <2>3. QED
    BY <2>1, <2>2 DEF ToSet
<1>6. Distinct(r)
  <2> SUFFICES ASSUME NEW a \in 1..l, NEW b \in 1..l, r[a] = r[b]
               PROVE  a = b
    BY <1>2 DEF Distinct
  <2>1. i + a - 1 = i + b - 1
    BY <1>1, <1>2, <1>3 DEF Distinct
  <2>2. a \in Int /\ b \in Int /\ i \in Int
    BY <1>1
  <2>3. QED
    BY <2>1, <2>2
<1>7. QED
  BY <1>2, <1>5, <1>6 DEF r

\* The tokens from src up to, not including, dst.
Between(g, src, dst) == {t \in ToSet(g.toks) : src <= t /\ t < dst}

LEMMA BetweenItems ==
  ASSUME NEW g, Core(g), NEW src \in ToSet(g.toks), NEW dst \in ToSet(g.toks)
  PROVE  \E s \in Seq(Id) :
             /\ Distinct(s) /\ ToSet(s) = Between(g, src, dst)
             /\ ToSet(s) \subseteq ToSet(g.toks) /\ Last(g.toks) \notin ToSet(s)
             /\ RemoveRange(g, src, dst) = FoldLeft(RemoveWithPrefixes, g, s)
<1> DEFINE i == Index(g, src)
           j == Index(g, dst)
           s == SubSeq(g.toks, i, j - 1)
           n == Len(g.toks)
<1>1. g.toks \in Seq(Id) /\ Sorted(g.toks) /\ Distinct(g.toks) /\ g.toks # <<>>
  BY ListFacts
<1>2. i \in 1..n /\ j \in 1..n /\ g.toks[i] = src /\ g.toks[j] = dst
      /\ DOMAIN g.toks = 1..n /\ n \in Nat
  BY <1>1, IndexOfLemma DEF Index
<1> HIDE DEF i, j, n
<1>3. ASSUME NEW a \in 1..n, NEW b \in 1..n
      PROVE  /\ a <= b <=> g.toks[a] <= g.toks[b]
             /\ a < b <=> g.toks[a] < g.toks[b]
  <2>1. a \in Int /\ b \in Int /\ g.toks[a] \in Nat /\ g.toks[b] \in Nat
    BY <1>1, <1>2, ItemOf
  <2>2. (a < b => g.toks[a] < g.toks[b]) /\ (b < a => g.toks[b] < g.toks[a])
    BY <1>1, <1>2 DEF Sorted
  <2>3. QED
    BY <2>1, <2>2
<1>4. s \in Seq(Id) /\ ToSet(s) = {g.toks[m] : m \in i..j-1} /\ Distinct(s)
  BY <1>1, <1>2, RangeOfSubSeq DEF n
<1> HIDE DEF s
<1>5. ToSet(s) = Between(g, src, dst)
  <2>1. ASSUME NEW m \in i..j-1
        PROVE  g.toks[m] \in Between(g, src, dst)
    <3>1. m \in 1..n /\ i <= m /\ m < j
      BY <1>2
    <3>2. QED
      BY <1>2, <1>3, <3>1 DEF Between, ToSet
  <2>2. ASSUME NEW t \in Between(g, src, dst)
        PROVE  \E m \in i..j-1 : t = g.toks[m]
    <3>1. PICK m \in 1..n : t = g.toks[m]
      BY <1>2 DEF Between, ToSet
    <3>2. i <= m /\ m < j
      BY <1>2, <1>3, <3>1 DEF Between
    <3>3. m \in i..j-1
      BY <1>2, <3>2
    <3>4. QED
      BY <3>1, <3>3
  <2>3. QED
    BY <1>4, <2>1, <2>2
<1>6. Last(g.toks) \notin ToSet(s)
  <2>1. Last(g.toks) = g.toks[n] /\ n \in 1..n
    <3>1. n \in 1..n
      BY <1>2
    <3>2. QED
      BY <3>1 DEF Last, n
  <2>2. ~(n < j)
    BY <1>2
  <2>3. ~(g.toks[n] < dst)
    BY <1>2, <1>3, <2>1, <2>2
  <2>4. QED
    BY <1>5, <2>1, <2>3 DEF Between
<1>7. ToSet(s) \subseteq ToSet(g.toks)
  BY <1>5 DEF Between
<1>8. RemoveRange(g, src, dst) = FoldLeft(RemoveWithPrefixes, g, s)
  BY DEF RemoveRange, s, i, j
<1>9. QED
  BY <1>4, <1>5, <1>6, <1>7, <1>8

LEMMA RemoveBetween ==
  ASSUME NEW g, Core(g), NEW src \in ToSet(g.toks), NEW dst \in ToSet(g.toks)
  PROVE  RangeRemoved(g, RemoveRange(g, src, dst), Between(g, src, dst))
<1>1. PICK s \in Seq(Id) :
             /\ Distinct(s) /\ ToSet(s) = Between(g, src, dst)
             /\ ToSet(s) \subseteq ToSet(g.toks) /\ Last(g.toks) \notin ToSet(s)
             /\ RemoveRange(g, src, dst) = FoldLeft(RemoveWithPrefixes, g, s)
  BY BetweenItems
<1>2. QED
  BY <1>1, RemoveAll



-----------------------------------------------------------------------------
(* Moving prefixes, and folding an alternative into one.                     *)

LEMMA MovedCore ==
  ASSUME NEW g, Core(g), NEW src \in Id, NEW dst \in Id, src # dst, dst \in ToSet(g.toks),
         NEW k, NEW moved, NEW kept, Moved(g, k, moved, kept, src, dst),
         ToSet(moved) \cap ToSet(kept) = {}
  PROVE  /\ Core(k) /\ SameHeld(g, k) /\ k.kind = g.kind /\ k.toks = g.toks
         /\ ToSet(k.pfx[dst]) = ToSet(moved) \cup ToSet(g.pfx[dst])
<1>1. /\ g \in Heap /\ LinksInOrder(g) /\ BranchesLinked(g) /\ ParentsHoldIn(g)
      /\ ParentExact(g) /\ BranchesParented(g)
      /\ \A p \in Id : g.kind[p] \in BranchKinds <=> g.par[p] # Null
  BY CoreFacts
<1>2. /\ moved \in Seq(Id) /\ kept \in Seq(Id)
      /\ ToSet(g.pfx[src]) = ToSet(moved) \cup ToSet(kept)
      /\ k \in Heap /\ k.kind = g.kind /\ k.pv = g.pv /\ k.nx = g.nx /\ k.toks = g.toks
      /\ k.pfx[src] = kept /\ k.pfx[dst] = moved \o g.pfx[dst]
      /\ \A t \in Id \ {src, dst} : k.pfx[t] = g.pfx[t]
      /\ \A p \in Id : k.par[p] = IF p \in BranchesOf(g, moved) THEN dst ELSE g.par[p]
  BY DEF Moved
<1>3. ToSet(k.pfx[dst]) = ToSet(moved) \cup ToSet(g.pfx[dst])
  <2>1. g.pfx[dst] \in Seq(Id)
    BY <1>1, HeapFields
  <2>2. QED
    BY <1>2, <2>1, ToSetOfConcat
<1>4. ToSet(moved) \subseteq Id
  BY <1>2, ToSetType
<1>5. \A p \in Id : k.par[p] = Null <=> g.par[p] = Null
  BY <1>1, <1>2, NullOutside DEF BranchesOf
<1>6. LinksInOrder(k) /\ BranchesLinked(k)
  <2>1. LinksInOrder(g) /\ BranchesLinked(g) /\ k.kind = g.kind /\ k.pv = g.pv /\ k.nx = g.nx
    BY <1>1, <1>2
  <2>2. LinksInOrder(k)
    BY <1>5, <2>1 DEF LinksInOrder
  <2>3. QED
    BY <1>5, <2>1, <2>2 DEF BranchesLinked
<1>7. ParentsHoldIn(k)
  <2> SUFFICES ASSUME NEW p \in Id, k.par[p] # Null
               PROVE  k.par[p] \in ToSet(k.toks) /\ p \in ToSet(k.pfx[k.par[p]])
    BY DEF ParentsHoldIn
  <2>1. CASE p \in BranchesOf(g, moved)
    BY <1>2, <1>3, <2>1 DEF BranchesOf
  <2>2. CASE p \notin BranchesOf(g, moved)
    <3>1. /\ k.par[p] = g.par[p] /\ g.par[p] \in ToSet(g.toks) /\ g.par[p] \in Id
          /\ p \in ToSet(g.pfx[g.par[p]]) /\ g.kind[p] \in BranchKinds
      <4>1. g.par[p] # Null /\ k.par[p] = g.par[p] /\ g.kind[p] \in BranchKinds
        BY <1>1, <1>2, <1>5, <2>2
      <4>2. g.par[p] \in Id
        BY <1>1, <4>1, HeapFields
      <4>3. g.par[p] \in ToSet(g.toks) /\ p \in ToSet(g.pfx[g.par[p]])
        BY <1>1, <4>1 DEF ParentsHoldIn
      <4>4. QED
        BY <4>1, <4>2, <4>3
    <3>2. p \in ToSet(k.pfx[g.par[p]])
      <4>1. CASE g.par[p] = src
        BY <1>2, <2>2, <3>1, <4>1 DEF BranchesOf
      <4>2. CASE g.par[p] = dst
        BY <1>3, <3>1, <4>2
      <4>3. CASE g.par[p] \notin {src, dst}
        BY <1>2, <3>1, <4>3
      <4>4. QED
        BY <4>1, <4>2, <4>3
    <3>3. QED
      BY <1>2, <3>1, <3>2
  <2>3. QED
    BY <2>1, <2>2
<1>8. AllSettled(k)
  <2>1. FlagsBut(g, {})
    BY DEF Core, AllSettled, FlagsBut
  <2>2. FlagsBut(k, {})
    <3>1. \A B \in SUBSET Id : (\A p \in B : g.kind[p] \in BranchKinds) /\ FlagsBut(g, B)
                                  => FlagsBut(k, B)
      BY <1>1, MovedSettles
    <3>2. QED
      BY <2>1, <3>1
  <2>3. QED
    BY <2>2 DEF AllSettled, FlagsBut
<1>9. SameHeld(g, k)
  BY <1>1, MovedHeld
<1>10. PrefixesApart(k)
  <2> SUFFICES ASSUME NEW t \in Id, NEW v \in Id, t # v
               PROVE  ToSet(k.pfx[t]) \cap ToSet(k.pfx[v]) = {}
    BY DEF PrefixesApart
  <2>1. \A a, b \in Id : a # b => ToSet(g.pfx[a]) \cap ToSet(g.pfx[b]) = {}
    BY DEF Core, PrefixesApart
  <2>2. CASE t \in {src, dst} /\ v \in {src, dst}
    <3>1. ToSet(k.pfx[src]) \cap ToSet(k.pfx[dst]) = {}
      <4>1. ToSet(kept) \cap ToSet(g.pfx[dst]) = {}
        BY <1>2, <2>1
      <4>2. QED
        BY <1>2, <1>3, <4>1
    <3>2. QED
      BY <2>2, <3>1
  <2>3. CASE t \in {src, dst} /\ v \notin {src, dst}
    BY <1>2, <1>3, <2>1, <2>3
  <2>4. CASE t \notin {src, dst} /\ v \in {src, dst}
    BY <1>2, <1>3, <2>1, <2>4
  <2>5. CASE t \notin {src, dst} /\ v \notin {src, dst}
    BY <1>2, <2>1, <2>5
  <2>6. QED
    BY <2>2, <2>3, <2>4, <2>5
<1>11. PrefixesListed(k)
  <2> SUFFICES ASSUME NEW t \in Id, k.pfx[t] # <<>>
               PROVE  t \in ToSet(g.toks)
    BY <1>2 DEF PrefixesListed
  <2>1. CASE t = dst
    BY <2>1
  <2>2. CASE t = src
    <3>1. kept # <<>>
      BY <1>2, <2>2
    <3>2. kept[1] \in ToSet(kept)
      BY <1>2, <3>1 DEF ToSet
    <3>3. ToSet(g.pfx[src]) # {}
      BY <1>2, <3>2
    <3>4. g.pfx[src] # <<>>
      BY <3>3 DEF ToSet
    <3>5. QED
      BY <2>2, <3>4 DEF Core, PrefixesListed
  <2>3. CASE t \notin {src, dst}
    BY <1>2, <2>3 DEF Core, PrefixesListed
  <2>4. QED
    BY <2>1, <2>2, <2>3
<1>12. TokensOK(k)
  BY <1>2 DEF Core, TokensOK
<1>13. QED
  BY <1>2, <1>3, <1>6, <1>7, <1>8, <1>9, <1>10, <1>11, <1>12 DEF Core, InShape


LEMMA SplitFacts ==
  ASSUME NEW s \in Seq(Id), Distinct(s), NEW n \in 0..Len(s)
  PROVE  /\ SubSeq(s, 1, n) \in Seq(Id) /\ SubSeq(s, n + 1, Len(s)) \in Seq(Id)
         /\ ToSet(s) = ToSet(SubSeq(s, 1, n)) \cup ToSet(SubSeq(s, n + 1, Len(s)))
         /\ ToSet(SubSeq(s, 1, n)) \cap ToSet(SubSeq(s, n + 1, Len(s))) = {}
         /\ Distinct(SubSeq(s, 1, n)) /\ Distinct(SubSeq(s, n + 1, Len(s)))
         /\ ToSet(SubSeq(s, 1, n)) = {s[i] : i \in 1..n}
<1> DEFINE a == SubSeq(s, 1, n)
           b == SubSeq(s, n + 1, Len(s))
           l == Len(s) - n
<1>1. n \in Nat /\ l \in Nat /\ Len(s) \in Nat /\ DOMAIN s = 1..Len(s)
  OBVIOUS
<1>2. a \in Seq(Id) /\ DOMAIN a = 1..n /\ \A i \in 1..n : a[i] = s[i]
  OBVIOUS
<1>3. b \in Seq(Id) /\ DOMAIN b = 1..l /\ \A i \in 1..l : b[i] = s[n + i]
  OBVIOUS
<1> HIDE DEF a, b
<1>4. /\ \A i \in 1..n : i \in 1..Len(s)
      /\ \A i \in 1..l : n + i \in 1..Len(s)
      /\ \A i \in 1..n, j \in 1..l : i # n + j
      /\ \A i, j \in 1..l : n + i = n + j => i = j
  BY <1>1
<1>5. \A i \in 1..Len(s) : i \in 1..n \/ (i - n \in 1..l /\ n + (i - n) = i)
  BY <1>1
<1> HIDE DEF l
<1>6. ToSet(s) = ToSet(a) \cup ToSet(b)
  <2>1. \A i \in 1..Len(s) : s[i] \in ToSet(a) \cup ToSet(b)
    <3> SUFFICES ASSUME NEW i \in 1..Len(s)
                 PROVE  s[i] \in ToSet(a) \cup ToSet(b)
      OBVIOUS
    <3>1. CASE i \in 1..n
      BY <1>2, <3>1 DEF ToSet
    <3>2. CASE i - n \in 1..l /\ n + (i - n) = i
      <4>1. s[i] = b[i - n] /\ i - n \in DOMAIN b
        BY <1>3, <3>2
      <4>2. QED
        BY <4>1 DEF ToSet
    <3>3. QED
      BY <1>5, <3>1, <3>2
  <2>2. \A i \in 1..n : a[i] \in ToSet(s)
    BY <1>1, <1>2, <1>4 DEF ToSet
  <2>3. \A i \in 1..l : b[i] \in ToSet(s)
    BY <1>1, <1>3, <1>4 DEF ToSet
  <2>4. ToSet(s) \subseteq ToSet(a) \cup ToSet(b)
    BY <1>1, <2>1 DEF ToSet
  <2>5. ToSet(a) \subseteq ToSet(s)
    BY <1>2, <2>2 DEF ToSet
  <2>6. ToSet(b) \subseteq ToSet(s)
    BY <1>3, <2>3 DEF ToSet
  <2>7. QED
    BY <2>4, <2>5, <2>6
<1>7. ToSet(a) \cap ToSet(b) = {}
  <2>1. \A i \in 1..n, j \in 1..l : a[i] # b[j]
    BY <1>1, <1>2, <1>3, <1>4 DEF Distinct
  <2>2. QED
    BY <1>2, <1>3, <2>1 DEF ToSet
<1>8. Distinct(a) /\ Distinct(b)
  <2>1. \A i, j \in 1..n : a[i] = a[j] => i = j
    BY <1>1, <1>2, <1>4 DEF Distinct
  <2>2. \A i, j \in 1..l : b[i] = b[j] => i = j
    BY <1>1, <1>3, <1>4 DEF Distinct
  <2>3. QED
    BY <1>2, <1>3, <2>1, <2>2 DEF Distinct
<1>9. ToSet(a) = {s[i] : i \in 1..n}
  BY <1>2 DEF ToSet
<1>10. QED
  BY <1>2, <1>3, <1>6, <1>7, <1>8, <1>9 DEF a, b

\* Where the text of a prefix starts in the file.
Origin(p) == IF p > MaxLen THEN p - MaxLen ELSE p

\* Prefixes in the order of their text.
Placed(s) == \A i, j \in DOMAIN s : i < j => Origin(s[i]) < Origin(s[j])

LEMMA OriginType ==
  ASSUME NEW p \in Id
  PROVE  Origin(p) \in Int /\ (p \in Pos => Origin(p) = p)
BY MaxLenAssumption DEF Origin, Id, Pos

LEMMA PlacedDistinct ==
  ASSUME NEW s \in Seq(Id), Placed(s)
  PROVE  Distinct(s)
<1> SUFFICES ASSUME NEW i \in DOMAIN s, NEW j \in DOMAIN s, s[i] = s[j], i # j
             PROVE  FALSE
  BY DEF Distinct
<1>1. i \in Int /\ j \in Int /\ s[i] \in Id /\ s[j] \in Id
  BY ItemOf
<1>2. Origin(s[i]) \in Int /\ Origin(s[j]) \in Int
  BY <1>1, OriginType
<1>3. CASE i < j
  BY <1>2, <1>3 DEF Placed
<1>4. CASE j < i
  BY <1>2, <1>4 DEF Placed
<1>5. QED
  BY <1>1, <1>3, <1>4

LEMMA PlacedSplit ==
  ASSUME NEW s \in Seq(Id), Placed(s), NEW n \in 0..Len(s)
  PROVE  /\ Placed(SubSeq(s, 1, n)) /\ Placed(SubSeq(s, n + 1, Len(s)))
         /\ \A x \in ToSet(SubSeq(s, 1, n)), y \in ToSet(SubSeq(s, n + 1, Len(s))) :
                Origin(x) < Origin(y)
<1> DEFINE a == SubSeq(s, 1, n)
           b == SubSeq(s, n + 1, Len(s))
           l == Len(s) - n
<1>1. n \in Nat /\ l \in Nat /\ Len(s) \in Nat /\ DOMAIN s = 1..Len(s)
  OBVIOUS
<1>2. DOMAIN a = 1..n /\ \A i \in 1..n : a[i] = s[i]
  OBVIOUS
<1>3. DOMAIN b = 1..l /\ \A i \in 1..l : b[i] = s[n + i]
  OBVIOUS
<1> HIDE DEF a, b
<1>4. /\ \A i \in 1..n : i \in 1..Len(s)
      /\ \A i \in 1..l : n + i \in 1..Len(s)
      /\ \A i \in 1..n, j \in 1..l : i < n + j
      /\ \A i, j \in 1..l : i < j => n + i < n + j
  BY <1>1
<1> HIDE DEF l
<1>5. Placed(a)
  BY <1>1, <1>2, <1>4 DEF Placed
<1>6. Placed(b)
  BY <1>1, <1>3, <1>4 DEF Placed
<1>7. \A i \in 1..n, j \in 1..l : Origin(a[i]) < Origin(b[j])
  BY <1>1, <1>2, <1>3, <1>4 DEF Placed
<1>8. \A x \in ToSet(a), y \in ToSet(b) : Origin(x) < Origin(y)
  BY <1>2, <1>3, <1>7 DEF ToSet
<1>9. QED
  BY <1>5, <1>6, <1>8 DEF a, b

LEMMA PlacedConcat ==
  ASSUME NEW s \in Seq(Id), NEW t \in Seq(Id), Placed(s), Placed(t),
         \A x \in ToSet(s), y \in ToSet(t) : Origin(x) < Origin(y)
  PROVE  Placed(s \o t)
<1> SUFFICES ASSUME NEW i \in DOMAIN (s \o t), NEW j \in DOMAIN (s \o t), i < j
             PROVE  Origin((s \o t)[i]) < Origin((s \o t)[j])
  BY DEF Placed
<1> DEFINE m == Len(s)
           n == Len(t)
<1>1. /\ m \in Nat /\ n \in Nat /\ DOMAIN s = 1..m /\ DOMAIN t = 1..n
      /\ DOMAIN (s \o t) = 1..m+n
      /\ \A l \in 1..m+n : (s \o t)[l] = IF l <= m THEN s[l] ELSE t[l - m]
  OBVIOUS
<1> HIDE DEF m, n
<1>2. \A l \in 1..m+n : l \in Int /\ (l <= m => l \in 1..m) /\ (~(l <= m) => l - m \in 1..n)
  BY <1>1
<1>3. CASE i <= m /\ j <= m
  BY <1>1, <1>2, <1>3 DEF Placed
<1>4. CASE ~(i <= m) /\ ~(j <= m)
  <2>1. i - m < j - m
    BY <1>1, <1>2
  <2>2. QED
    BY <1>1, <1>2, <1>4, <2>1 DEF Placed
<1>5. CASE i <= m /\ ~(j <= m)
  <2>1. s[i] \in ToSet(s) /\ t[j - m] \in ToSet(t)
    BY <1>1, <1>2, <1>5 DEF ToSet
  <2>2. QED
    BY <1>1, <1>5, <2>1
<1>6. i <= m \/ ~(j <= m)
  BY <1>1, <1>2
<1>7. QED
  BY <1>3, <1>4, <1>5, <1>6

LEMMA InFront ==
  ASSUME NEW s \in Seq(Id), NEW x \in Id
  PROVE  /\ <<x>> \o s \in Seq(Id) /\ ToSet(<<x>> \o s) = {x} \cup ToSet(s)
         /\ Placed(s) /\ (\A y \in ToSet(s) : Origin(x) < Origin(y)) => Placed(<<x>> \o s)
<1>1. <<x>> \in Seq(Id) /\ ToSet(<<x>>) = {x} /\ Placed(<<x>>)
  BY DEF ToSet, Placed
<1>2. ToSet(<<x>> \o s) = {x} \cup ToSet(s)
  <2>1. ASSUME NEW e \in Seq(Id)
        PROVE  ToSet(e \o s) = ToSet(e) \cup ToSet(s)
    BY ToSetOfConcat
  <2>2. QED
    BY <1>1, <2>1
<1>3. ASSUME Placed(s), \A y \in ToSet(s) : Origin(x) < Origin(y)
      PROVE  Placed(<<x>> \o s)
  <2>1. \A e \in ToSet(<<x>>), y \in ToSet(s) : Origin(e) < Origin(y)
    BY <1>1, <1>3
  <2>2. QED
    BY <1>1, <1>3, <2>1, PlacedConcat
<1>4. QED
  BY <1>1, <1>2, <1>3

\* Where prefixes go, the lexer halts if it halted at one of the two tokens: the
\* branch an alternative comes from goes with it when both hang of one token.
LEMMA MovedFlags ==
  ASSUME NEW g, Core(g), NEW src \in Id, NEW dst \in Id, src # dst,
         NEW k, Core(k), NEW moved, NEW kept, Moved(g, k, moved, kept, src, dst),
         \A p \in ToSet(moved) : g.pv[p] \in ToSet(g.pfx[src]) => g.pv[p] \in ToSet(moved)
  PROVE  \A t \in k.flag : t \in g.flag \/ t = src \/ (t = dst /\ src \in g.flag)
<1>1. /\ g \in Heap /\ ParentsHoldIn(g) /\ ParentExact(g) /\ AllSettled(g) /\ BranchesLinked(g)
      /\ \A p \in Id : g.kind[p] \in BranchKinds <=> g.par[p] # Null
  BY CoreFacts DEF Core
<1>2. /\ moved \in Seq(Id) /\ ToSet(moved) \subseteq ToSet(g.pfx[src])
      /\ k \in Heap /\ k.kind = g.kind /\ k.pv = g.pv
      /\ k.pfx[dst] = moved \o g.pfx[dst] /\ AllSettled(k)
      /\ \A t \in Id \ {src, dst} : t \in k.flag <=> t \in g.flag
      /\ \A p \in Id : k.par[p] = IF p \in BranchesOf(g, moved) THEN dst ELSE g.par[p]
  BY DEF Moved, Core
<1>3. ToSet(k.pfx[dst]) = ToSet(moved) \cup ToSet(g.pfx[dst])
  <2>1. g.pfx[dst] \in Seq(Id)
    BY <1>1, HeapFields
  <2>2. QED
    BY <1>2, <2>1, ToSetOfConcat
<1>4. ASSUME dst \in k.flag
      PROVE  dst \in g.flag \/ src \in g.flag
  <2>1. HasBranch(k, dst)
    BY <1>2, <1>4 DEF AllSettled, Settled
  <2>2. PICK q \in ToSet(moved) \cup ToSet(g.pfx[dst]) : IsAlternative(k, q)
    BY <1>3, <2>1 DEF HasBranch
  <2>3. q \in Id
    <3>1. g.pfx[dst] \in Seq(Id)
      BY <1>1, HeapFields
    <3>2. QED
      BY <1>2, <3>1, ToSetType
  <2> DEFINE v == g.pv[q]
  <2>4. g.kind[q] = "else" /\ v # Null /\ v \in Id /\ k.par[q] # k.par[v]
        /\ g.kind[q] \in BranchKinds /\ g.par[q] # Null
    <3>1. g.kind[q] = "else" /\ v # Null /\ k.par[q] # k.par[v]
      BY <1>2, <2>2 DEF IsAlternative
    <3>2. QED
      BY <1>1, <2>3, <3>1, HeapFields DEF BranchKinds
  <2> HIDE DEF v
  <2>5. CASE q \in ToSet(moved)
    <3>1. g.par[q] = src /\ k.par[q] = dst
      BY <1>1, <1>2, <2>3, <2>4, <2>5 DEF ParentExact, BranchesOf
    <3>2. ASSUME g.par[v] = src
          PROVE  FALSE
      <4>1. v \in ToSet(g.pfx[src]) /\ g.kind[v] \in BranchKinds
        BY <1>1, <2>4, <3>2, NullOutside DEF ParentsHoldIn
      <4>2. v \in ToSet(moved)
        BY <2>5, <4>1 DEF v
      <4>3. QED
        BY <1>2, <2>4, <3>1, <4>1, <4>2 DEF BranchesOf
    <3>3. IsAlternative(g, q)
      BY <2>4, <3>1, <3>2 DEF IsAlternative, v
    <3>4. HasBranch(g, src)
      BY <1>2, <2>5, <3>3 DEF HasBranch
    <3>5. QED
      BY <1>1, <3>4 DEF AllSettled, Settled
  <2>6. CASE q \notin ToSet(moved)
    <3>1. q \in ToSet(g.pfx[dst]) /\ g.par[q] = dst /\ k.par[q] = dst
      BY <1>1, <1>2, <2>2, <2>3, <2>4, <2>6 DEF ParentExact, BranchesOf
    <3>2. k.par[v] = g.par[v]
      BY <1>2, <2>4, <3>1
    <3>3. HasBranch(g, dst)
      BY <2>4, <3>1, <3>2 DEF IsAlternative, HasBranch, v
    <3>4. QED
      BY <1>1, <3>3 DEF AllSettled, Settled
  <2>7. QED
    BY <2>5, <2>6
<1>5. k.flag \subseteq Id
  BY <1>2 DEF Heap
<1>6. QED
  BY <1>2, <1>4, <1>5

\* The prefixes of a token lie between the token before it and itself.
InOrder(g) ==
    \A t \in ToSet(g.toks) : \A p \in ToSet(g.pfx[t]) :
        Origin(p) < t /\ \A u \in ToSet(g.toks) : u < t => u < Origin(p)

\* A prefix that was folded is gone.
Fresh(g) ==
    \A p \in Pos : \A t, u \in Id :
        ~(p \in ToSet(g.pfx[t]) /\ MaxLen + p \in ToSet(g.pfx[u]))

InTurn(g) == \A t \in Id : Placed(g.pfx[t])

Parsed(g) == Core(g) /\ InFile(g) /\ InOrder(g) /\ Fresh(g) /\ InTurn(g)

\* No branch is made.
NoNewBranch(g, k) == \A p \in Id : g.par[p] = Null => k.par[p] = Null

LEMMA ParsedUnlinked ==
  ASSUME NEW g, Parsed(g), NEW k, NEW P, Unlinked(g, k, P)
  PROVE  Parsed(k) /\ NoNewBranch(g, k)
<1>1. Core(k) /\ k.pfx = g.pfx /\ k.toks = g.toks /\ OnlyBranches(g, k)
  BY DEF Unlinked, SameLists
<1>2. NoNewBranch(g, k)
  BY <1>1 DEF NoNewBranch, OnlyBranches
<1>3. InFile(k)
  BY <1>2 DEF Parsed, InFile, NoNewBranch
<1>4. InOrder(k) /\ Fresh(k) /\ InTurn(k)
  BY <1>1 DEF Parsed, InOrder, Fresh, InTurn
<1>5. QED
  BY <1>1, <1>2, <1>3, <1>4 DEF Parsed

LEMMA ParsedRemoved ==
  ASSUME NEW g, Parsed(g), NEW k, NEW R \in SUBSET Id, RangeRemoved(g, k, R)
  PROVE  Parsed(k) /\ NoNewBranch(g, k)
<1>1. /\ Core(k) /\ OnlyBranches(g, k) /\ ToSet(k.toks) = ToSet(g.toks) \ R
      /\ \A t \in Id : k.pfx[t] = IF t \in R THEN <<>> ELSE g.pfx[t]
  BY DEF RangeRemoved
<1>2. NoNewBranch(g, k)
  BY <1>1 DEF NoNewBranch, OnlyBranches
<1>3. InFile(k)
  BY <1>2 DEF Parsed, InFile, NoNewBranch
<1>4. ToSet(g.toks) \subseteq Id
  BY ListFacts, NullOutside DEF Parsed
<1>5. ToSet(<<>>) = {} /\ Placed(<<>>)
  BY DEF ToSet, Placed
<1>6. \A t \in Id : ToSet(k.pfx[t]) \subseteq ToSet(g.pfx[t])
  BY <1>1, <1>5
<1>7. InOrder(k)
  BY <1>1, <1>4, <1>6 DEF Parsed, InOrder
<1>8. Fresh(k)
  BY <1>6 DEF Parsed, Fresh
<1>9. InTurn(k)
  BY <1>1, <1>5 DEF Parsed, InTurn
<1>10. QED
  BY <1>1, <1>2, <1>3, <1>7, <1>8, <1>9 DEF Parsed

\* A link leads to the same token or to a later one.
LEMMA LinkForward ==
  ASSUME NEW g, Parsed(g), NEW p \in Id, g.nx[p] # Null
  PROVE  /\ g.nx[p] \in Pos /\ p \in Pos /\ p < g.nx[p] /\ g.pv[g.nx[p]] = p
         /\ g.par[p] \in ToSet(g.toks) /\ p \in ToSet(g.pfx[g.par[p]])
         /\ g.par[g.nx[p]] \in ToSet(g.toks) /\ g.nx[p] \in ToSet(g.pfx[g.par[g.nx[p]]])
         /\ g.par[p] <= g.par[g.nx[p]]
<1> DEFINE q == g.nx[p]
<1>1. g \in Heap /\ LinksInOrder(g) /\ ParentsHoldIn(g) /\ InFile(g) /\ InOrder(g)
  BY CoreFacts DEF Parsed
<1>2. q \in Id /\ p < q /\ g.pv[q] = p
  BY <1>1, HeapFields DEF LinksInOrder
<1> HIDE DEF q
<1>3. g.par[p] # Null /\ g.par[q] # Null
  <2>1. g.par[p] # Null
    BY <1>1 DEF LinksInOrder
  <2>2. g.pv[q] # Null
    BY <1>2, NullOutside
  <2>3. QED
    BY <1>1, <1>2, <2>1, <2>2 DEF LinksInOrder
<1>4. p \in Pos /\ q \in Pos
  BY <1>1, <1>2, <1>3 DEF InFile
<1>5. /\ g.par[p] \in ToSet(g.toks) /\ p \in ToSet(g.pfx[g.par[p]])
      /\ g.par[q] \in ToSet(g.toks) /\ q \in ToSet(g.pfx[g.par[q]])
  BY <1>1, <1>2, <1>3 DEF ParentsHoldIn
<1>6. g.par[p] <= g.par[q]
  <2>1. Origin(p) = p /\ Origin(q) = q
    BY <1>4, MaxLenAssumption DEF Origin, Pos
  <2>2. g.par[p] \in Pos /\ g.par[q] \in Pos
    BY <1>5, ListFacts DEF Parsed
  <2>3. g.par[q] < g.par[p] => g.par[q] < p
    BY <1>1, <1>5, <2>1 DEF InOrder
  <2>4. q < g.par[q]
    BY <1>1, <1>5, <2>1 DEF InOrder
  <2>5. g.par[p] \in Nat /\ g.par[q] \in Nat /\ p \in Nat /\ q \in Nat
    BY <1>4, <2>2 DEF Pos
  <2>6. QED
    BY <1>2, <2>3, <2>4, <2>5
<1>7. QED
  BY <1>2, <1>4, <1>5, <1>6 DEF q


\* What folding the alternative starting at p makes of the heap.
Folded(g, k, p) ==
    /\ Parsed(k) /\ NoNewBranch(g, k) /\ k.par[p] = Null
    /\ \A t \in k.flag : t \in g.flag \/ (t = g.par[g.nx[p]] /\ g.par[p] \in g.flag)
    /\ LET R == Between(g, g.par[p], g.par[g.nx[p]])
       IN /\ ToSet(k.toks) = ToSet(g.toks) \ R
          /\ \A t \in Id : Held(k, t) = Held(g, t) - (IF t \in R THEN 1 ELSE 0)

\* The prefixes that are kept, the folded one among them.
Respelt(g, k, p) ==
    LET src == g.par[p]
        dst == g.par[g.nx[p]]
        m == IndexOf(g.pfx[src], p)
        n == IndexOf(g.pfx[dst], g.nx[p])
    IN /\ k.pfx[dst] = SubSeq(g.pfx[src], 1, m - 1)
                       \o (<<MaxLen + p>> \o SubSeq(g.pfx[dst], n + 1, Len(g.pfx[dst])))
       /\ \A t \in Id : t \notin Between(g, src, dst) /\ t # dst => k.pfx[t] = g.pfx[t]
       /\ \A e \in Id : e # MaxLen + p /\ g.kind[e] \notin BranchKinds => k.kind[e] = g.kind[e]

LEMMA FoldStep ==
  ASSUME Parsed(h), NEW p \in Id, h.nx[p] # Null, h.par[p] # h.par[h.nx[p]]
  PROVE  Folded(h, BranchFold(p), p) /\ Respelt(h, BranchFold(p), p)
<1> DEFINE src == h.par[p]
           q == h.nx[p]
           dst == h.par[q]
           folded == MaxLen + p
           n == IndexOf(h.pfx[dst], q)
           gone == SubSeq(h.pfx[dst], 1, n)
           rest == SubSeq(h.pfx[dst], n + 1, Len(h.pfx[dst]))
           g1 == FoldLeft(Unlink, h, gone)
           g2 == [g1 EXCEPT !.kind[folded] = "cpp",
                            !.pfx[dst] = <<folded>> \o SubSeq(@, n + 1, Len(@))]
           m == IndexOf(h.pfx[src], p)
           g3 == MoveFirstPrefixes(g2, m - 1, src, dst)
           k == RemoveRange(g3, src, dst)
           R == Between(h, src, dst)
<1>1. BranchFold(p) = k
  BY DEF BranchFold
<1>2. Core(h) /\ h \in Heap /\ InFile(h) /\ InOrder(h) /\ Fresh(h) /\ InTurn(h)
      /\ ToSet(h.toks) \subseteq Pos
  BY ListFacts DEF Parsed, Core
<1>3. /\ q \in Pos /\ p \in Pos /\ p < q
      /\ src \in ToSet(h.toks) /\ p \in ToSet(h.pfx[src])
      /\ dst \in ToSet(h.toks) /\ q \in ToSet(h.pfx[dst])
      /\ src < dst /\ src \in Pos /\ dst \in Pos /\ src \in Id /\ dst \in Id
  <2>1. /\ q \in Pos /\ p \in Pos /\ p < q
        /\ src \in ToSet(h.toks) /\ p \in ToSet(h.pfx[src])
        /\ dst \in ToSet(h.toks) /\ q \in ToSet(h.pfx[dst]) /\ src <= dst
    BY LinkForward
  <2>2. src \in Pos /\ dst \in Pos
    BY <1>2, <2>1
  <2>3. src < dst
    BY <2>1, <2>2 DEF Pos
  <2>4. QED
    BY <2>1, <2>2, <2>3, NullOutside
<1>4. folded \in Id /\ folded \notin Pos /\ folded # p /\ Origin(folded) = p
  BY <1>3, MaxLenAssumption DEF Id, Pos, Origin
<1> HIDE DEF src, q, dst, folded
<1>5. /\ h.pfx[dst] \in Seq(Id) /\ Placed(h.pfx[dst]) /\ Distinct(h.pfx[dst])
      /\ h.pfx[src] \in Seq(Id) /\ Placed(h.pfx[src]) /\ Distinct(h.pfx[src])
  <2>1. /\ h.pfx[dst] \in Seq(Id) /\ Placed(h.pfx[dst])
        /\ h.pfx[src] \in Seq(Id) /\ Placed(h.pfx[src])
    BY <1>2, <1>3, HeapFields DEF InTurn
  <2>2. QED
    BY <2>1, PlacedDistinct
<1>6. \A a, b \in Id : a # b => ToSet(h.pfx[a]) \cap ToSet(h.pfx[b]) = {}
  BY <1>2 DEF Core, PrefixesApart
<1>7. \A t \in Id : folded \notin ToSet(h.pfx[t])
  BY <1>2, <1>3 DEF Fresh, folded
<1>8. n \in 1..Len(h.pfx[dst]) /\ n \in 0..Len(h.pfx[dst]) /\ h.pfx[dst][n] = q
  <2>1. n \in DOMAIN h.pfx[dst] /\ h.pfx[dst][n] = q
    BY <1>3, IndexOfLemma
  <2>2. QED
    BY <1>5, <2>1
<1>9. /\ gone \in Seq(Id) /\ rest \in Seq(Id) /\ Placed(rest)
      /\ ToSet(h.pfx[dst]) = ToSet(gone) \cup ToSet(rest)
      /\ \A e \in ToSet(rest) : q < Origin(e)
  <2>1. /\ gone \in Seq(Id) /\ rest \in Seq(Id)
        /\ ToSet(h.pfx[dst]) = ToSet(gone) \cup ToSet(rest)
        /\ ToSet(gone) = {h.pfx[dst][i] : i \in 1..n}
    BY <1>5, <1>8, SplitFacts
  <2>2. Placed(rest) /\ \A x \in ToSet(gone), y \in ToSet(rest) : Origin(x) < Origin(y)
    BY <1>5, <1>8, PlacedSplit
  <2>3. q \in ToSet(gone)
    <3>1. n \in 1..n
      BY <1>5, <1>8
    <3>2. QED
      BY <1>8, <2>1, <3>1
  <2>4. Origin(q) = q
    BY <1>3, NullOutside, OriginType
  <2>5. QED
    BY <2>1, <2>2, <2>3, <2>4
<1>10. Unlinked(h, g1, ToSet(gone))
  BY <1>2, <1>9, UnlinkAll
<1>11. SubSeq(h.pfx[dst], n + 1, Len(h.pfx[dst])) = rest
  OBVIOUS
<1> HIDE DEF g1, gone, rest
<1>12. /\ Core(g1) /\ g1 \in Heap /\ g1.pfx = h.pfx /\ g1.toks = h.toks
       /\ \A e \in ToSet(gone) : g1.kind[e] \notin BranchKinds
       /\ OnlyBranches(h, g1) /\ SameHeld(h, g1) /\ g1.flag \subseteq h.flag
  BY <1>10 DEF Unlinked, Core, SameLists
<1>13. /\ <<folded>> \o rest \in Seq(Id) /\ ToSet(<<folded>> \o rest) = {folded} \cup ToSet(rest)
       /\ Placed(<<folded>> \o rest) /\ \A e \in ToSet(rest) : p < Origin(e)
  <2>1. \A e \in ToSet(rest) : Origin(e) \in Int
    BY <1>9, ToSetType, OriginType
  <2>2. \A e \in ToSet(rest) : p < Origin(e)
    BY <1>3, <1>9, <2>1 DEF Pos
  <2>3. QED
    BY <1>4, <1>9, <2>2, InFront
<1> DEFINE new == <<folded>> \o rest
<1>14. /\ g2 \in Heap /\ g2.pv = g1.pv /\ g2.nx = g1.nx /\ g2.par = g1.par
       /\ g2.refs = g1.refs /\ g2.flag = g1.flag /\ g2.toks = g1.toks
       /\ g2.pfx[dst] = new /\ \A t \in Id \ {dst} : g2.pfx[t] = g1.pfx[t]
       /\ g2.kind[folded] = "cpp" /\ \A e \in Id \ {folded} : g2.kind[e] = g1.kind[e]
  <2>1. g2 = [g1 EXCEPT !.kind[folded] = "cpp", !.pfx[dst] = new]
    BY <1>11, <1>12
  <2> HIDE DEF g2
  <2>2. new \in Seq(Id) /\ "cpp" \in Kinds
    BY <1>13 DEF Kinds
  <2> HIDE DEF new
  <2>3. QED
    BY <1>3, <1>4, <1>12, <2>1, <2>2 DEF Heap
<1>15. new \in Seq(Id) /\ ToSet(new) = {folded} \cup ToSet(rest) /\ Placed(new)
  BY <1>13
<1> HIDE DEF new, g2
<1>16. Respelled(g1, g2, dst, folded)
  <2>1. g1.kind[folded] \notin BranchKinds /\ g2.kind[folded] \notin BranchKinds
    <3>1. h.par[folded] = Null
      BY <1>2, <1>4 DEF InFile
    <3>2. h.kind[folded] \notin BranchKinds
      BY <1>2, <1>4, <3>1, CoreFacts
    <3>3. QED
      BY <1>4, <1>12, <1>14, <3>2 DEF OnlyBranches, BranchKinds
  <2>2. \A e \in Id : g1.kind[e] \in BranchKinds =>
            (e \in ToSet(g2.pfx[dst]) <=> e \in ToSet(g1.pfx[dst]))
    BY <1>9, <1>12, <1>14, <1>15, <2>1
  <2>3. \A u \in Id \ {dst} : ToSet(g2.pfx[dst]) \cap ToSet(g1.pfx[u]) = {}
    <3> SUFFICES ASSUME NEW u \in Id \ {dst}
                 PROVE  ToSet(new) \cap ToSet(h.pfx[u]) = {}
      BY <1>12, <1>14
    <3>1. ToSet(h.pfx[dst]) \cap ToSet(h.pfx[u]) = {}
      BY <1>3, <1>6
    <3>2. ToSet(rest) \subseteq ToSet(h.pfx[dst]) /\ folded \notin ToSet(h.pfx[u])
      BY <1>7, <1>9
    <3>3. QED
      BY <1>15, <3>1, <3>2
  <2>4. QED
    BY <1>3, <1>4, <1>12, <1>14, <2>1, <2>2, <2>3 DEF Respelled
<1>17. Core(g2) /\ SameHeld(g1, g2)
  BY <1>3, <1>12, <1>16, Respell
<1>18. src # dst
  BY <1>3 DEF Pos
<1>19. /\ g2 \in Heap /\ g2.toks = h.toks /\ g2.par = g1.par
       /\ g2.pfx[dst] = new /\ g2.pfx[src] = h.pfx[src]
       /\ \A t \in Id \ {dst} : g2.pfx[t] = h.pfx[t]
  BY <1>3, <1>12, <1>14, <1>18
<1>20. m \in 1..Len(h.pfx[src]) /\ m - 1 \in 0..Len(h.pfx[src]) /\ h.pfx[src][m] = p
  <2>1. m \in DOMAIN h.pfx[src] /\ h.pfx[src][m] = p
    BY <1>3, IndexOfLemma
  <2>2. QED
    BY <1>5, <2>1
<1> DEFINE moved == SubSeq(h.pfx[src], 1, m - 1)
           kept == SubSeq(h.pfx[src], m - 1 + 1, Len(h.pfx[src]))
<1>21. /\ moved \in Seq(Id) /\ kept \in Seq(Id)
       /\ ToSet(h.pfx[src]) = ToSet(moved) \cup ToSet(kept)
       /\ ToSet(moved) \cap ToSet(kept) = {}
       /\ ToSet(moved) = {h.pfx[src][i] : i \in 1..m-1}
  BY <1>5, <1>20, SplitFacts
<1>22. Moved(g2, g3, moved, kept, src, dst)
  <2>1. m - 1 \in 0..Len(g2.pfx[src]) /\ src # dst
    BY <1>3, <1>19, <1>20 DEF Pos
  <2>2. Moved(g2, g3, SubSeq(g2.pfx[src], 1, m - 1),
              SubSeq(g2.pfx[src], m - 1 + 1, Len(g2.pfx[src])), src, dst)
    <3> HIDE DEF m
    <3>1. QED
      BY <1>3, <1>19, <2>1, MoveFirstFields
  <2>3. QED
    BY <1>19, <2>2
<1>23. Placed(moved) /\ \A x \in ToSet(moved), y \in ToSet(kept) : Origin(x) < Origin(y)
  BY <1>5, <1>20, PlacedSplit
<1>24. p \notin ToSet(moved)
  <2>1. \A i \in 1..m-1 : i \in DOMAIN h.pfx[src] /\ i # m /\ m \in DOMAIN h.pfx[src]
    <3>1. DOMAIN h.pfx[src] = 1..Len(h.pfx[src])
      BY <1>5
    <3> HIDE DEF m
    <3>2. QED
      BY <1>5, <1>20, <3>1
  <2>2. \A i \in 1..m-1 : h.pfx[src][i] # p
    BY <1>5, <1>20, <2>1 DEF Distinct
  <2>3. QED
    BY <1>21, <2>2
<1> HIDE DEF g3, moved, kept, m
<1>25. /\ Core(g3) /\ SameHeld(g2, g3) /\ g3.toks = h.toks
       /\ g3.pfx[src] = kept /\ g3.pfx[dst] = moved \o new
       /\ \A t \in Id \ {src, dst} : g3.pfx[t] = h.pfx[t]
       /\ \A e \in Id : g2.par[e] = Null => g3.par[e] = Null
       /\ g3.kind = g2.kind
  <2>1. Core(g3) /\ SameHeld(g2, g3) /\ g3.toks = g2.toks /\ g3.kind = g2.kind
    BY <1>3, <1>17, <1>19, <1>21, <1>22, <1>18, MovedCore
  <2>2. /\ g3.pfx[src] = kept /\ g3.pfx[dst] = moved \o g2.pfx[dst]
        /\ \A t \in Id \ {src, dst} : g3.pfx[t] = g2.pfx[t]
    BY <1>22 DEF Moved
  <2>3. \A e \in Id : g2.par[e] = Null => g3.par[e] = Null
    <3>1. \A e \in Id : g2.kind[e] \in BranchKinds <=> g2.par[e] # Null
      BY <1>17, CoreFacts
    <3>2. \A e \in Id : g3.kind[e] \in BranchKinds <=> g3.par[e] # Null
      BY <2>1, CoreFacts
    <3>3. QED
      BY <2>1, <3>1, <3>2
  <2>4. QED
    BY <1>19, <2>1, <2>2, <2>3
<1>26. RangeRemoved(g3, k, R)
  <2>1. Between(g3, src, dst) = R
    BY <1>25 DEF Between
  <2>2. QED
    BY <1>3, <1>25, <2>1, RemoveBetween
<1>27. src \in R /\ dst \notin R /\ R \subseteq Id
  <2>1. src <= src /\ ~(dst < dst)
    BY <1>3 DEF Pos
  <2>2. QED
    BY <1>2, <1>3, <2>1, NullOutside DEF Between
<1> HIDE DEF k, R
<1>28. /\ Core(k) /\ ToSet(k.toks) = ToSet(h.toks) \ R
       /\ k.pfx[dst] = moved \o new
       /\ \A t \in R : k.pfx[t] = <<>>
       /\ \A t \in Id : t \notin R /\ t # dst => k.pfx[t] = h.pfx[t]
       /\ \A t \in Id : Held(k, t) = Held(h, t) - (IF t \in R THEN 1 ELSE 0)
       /\ \A e \in Id : h.par[e] = Null => k.par[e] = Null
       /\ k.kind[p] \notin BranchKinds
  <2>1. Core(k) /\ ToSet(k.toks) = ToSet(h.toks) \ R
    BY <1>25, <1>26 DEF RangeRemoved
  <2>2. /\ k.pfx[dst] = moved \o new
        /\ \A t \in R : k.pfx[t] = <<>>
        /\ \A t \in Id : t \notin R /\ t # dst => k.pfx[t] = h.pfx[t]
    BY <1>3, <1>25, <1>26, <1>27 DEF RangeRemoved
  <2>3. \A t \in Id : Held(k, t) = Held(h, t) - (IF t \in R THEN 1 ELSE 0)
    BY <1>12, <1>17, <1>25, <1>26 DEF RangeRemoved, SameHeld
  <2>4. \A e \in Id : h.par[e] = Null => k.par[e] = Null
    BY <1>12, <1>19, <1>25, <1>26 DEF RangeRemoved, OnlyBranches
  <2>5. k.kind[p] \notin BranchKinds
    <3>1. p \in ToSet(g3.pfx[src])
      BY <1>3, <1>21, <1>24, <1>25
    <3>2. QED
      BY <1>26, <1>27, <3>1 DEF RangeRemoved
  <2>6. QED
    BY <2>1, <2>2, <2>3, <2>4, <2>5
<1> DEFINE T == ToSet(moved) \cup {folded} \cup ToSet(rest)
<1>29. /\ ToSet(k.pfx[dst]) = T /\ Placed(k.pfx[dst])
  <2>1. \A x \in ToSet(moved) : Origin(x) \in Int /\ Origin(x) < p
    <3>1. p \in ToSet(kept) /\ Origin(p) = p
      BY <1>3, <1>21, <1>24, NullOutside, OriginType
    <3>2. QED
      BY <1>21, <1>23, <3>1, ToSetType, OriginType
  <2>2. \A y \in ToSet(new) : Origin(y) \in Int /\ p <= Origin(y)
    <3>1. \A y \in ToSet(new) : Origin(y) \in Int
      BY <1>15, ToSetType, OriginType
    <3>2. p \in Int
      BY <1>3 DEF Pos
    <3>3. QED
      BY <1>4, <1>13, <1>15, <3>1, <3>2
  <2>3. \A x \in ToSet(moved), y \in ToSet(new) : Origin(x) < Origin(y)
    <3>1. p \in Int
      BY <1>3 DEF Pos
    <3>2. QED
      BY <2>1, <2>2, <3>1
  <2>4. Placed(moved \o new)
    BY <1>15, <1>21, <1>23, <2>3, PlacedConcat
  <2>5. ToSet(moved \o new) = ToSet(moved) \cup ToSet(new)
    BY <1>15, <1>21, ToSetOfConcat
  <2>6. QED
    BY <1>15, <1>28, <2>4, <2>5
<1>30. ToSet(<<>>) = {} /\ Placed(<<>>)
  BY DEF ToSet, Placed
<1>31. InOrder(k)
  <2> SUFFICES ASSUME NEW t \in ToSet(h.toks), t \notin R, NEW e \in ToSet(k.pfx[t])
               PROVE  /\ Origin(e) < t
                      /\ \A u \in ToSet(h.toks) : u \notin R /\ u < t => u < Origin(e)
    BY <1>28 DEF InOrder
  <2>1. t \in Id /\ t \in Pos
    BY <1>2, NullOutside
  <2>2. CASE t # dst
    <3>1. e \in ToSet(h.pfx[t])
      BY <1>28, <2>1, <2>2
    <3>2. QED
      BY <1>2, <3>1 DEF InOrder
  <2>3. CASE t = dst /\ e \in ToSet(rest)
    <3>1. e \in ToSet(h.pfx[t])
      BY <1>9, <2>3
    <3>2. QED
      BY <1>2, <3>1 DEF InOrder
  <2>4. ASSUME t = dst, NEW x \in ToSet(h.pfx[src]), Origin(e) = Origin(x)
        PROVE  /\ Origin(e) < t
               /\ \A u \in ToSet(h.toks) : u \notin R /\ u < t => u < Origin(e)
    <3>1. Origin(x) < src /\ \A u \in ToSet(h.toks) : u < src => u < Origin(x)
      BY <1>2, <1>3 DEF InOrder
    <3>2. Origin(x) \in Int
      <4>1. x \in Id
        BY <1>5, ToSetType
      <4>2. QED
        BY <4>1, MaxLenAssumption DEF Origin, Id
    <3>3. Origin(e) < dst
      BY <1>3, <2>4, <3>1, <3>2 DEF Pos
    <3>4. ASSUME NEW u \in ToSet(h.toks), u \notin R, u < dst
          PROVE  u < src
      <4>1. ~(src <= u)
        BY <3>4 DEF R, Between
      <4>2. u \in Pos
        BY <1>2
      <4>3. QED
        BY <1>3, <4>1, <4>2 DEF Pos
    <3>5. QED
      BY <2>4, <3>1, <3>3, <3>4
  <2>5. CASE t = dst /\ e \in ToSet(moved)
    <3>1. e \in ToSet(h.pfx[src])
      BY <1>21, <2>5
    <3>2. QED
      BY <2>4, <2>5, <3>1
  <2>6. CASE t = dst /\ e = folded
    <3>1. Origin(p) = p
      BY <1>3, MaxLenAssumption DEF Origin, Pos
    <3>2. QED
      BY <1>3, <1>4, <2>4, <2>6, <3>1
  <2>7. QED
    BY <1>29, <2>2, <2>3, <2>5, <2>6
\* What is held was, but for the folded prefix, and what it stands for is not.
<1>32. ASSUME NEW t \in Id, NEW e \in ToSet(k.pfx[t])
       PROVE  e # p /\ (e = folded \/ \E u \in Id : e \in ToSet(h.pfx[u]))
  <2>1. t \notin R
    BY <1>28, <1>30
  <2>2. CASE t # dst
    <3>1. e \in ToSet(h.pfx[t]) /\ t # src
      BY <1>27, <1>28, <2>1, <2>2
    <3>2. p \notin ToSet(h.pfx[t])
      BY <1>3, <1>6, <3>1
    <3>3. QED
      BY <3>1, <3>2
  <2>3. CASE t = dst
    <3>1. ToSet(h.pfx[dst]) \cap ToSet(h.pfx[src]) = {}
      BY <1>3, <1>6, <1>18
    <3>2. p \notin ToSet(rest)
      BY <1>3, <1>9, <3>1
    <3>3. e \in T
      BY <1>29, <2>3
    <3>4. QED
      BY <1>3, <1>4, <1>9, <1>21, <1>24, <3>2, <3>3
  <2>4. QED
    BY <2>2, <2>3
<1>33. Fresh(k)
  <2> SUFFICES ASSUME NEW e \in Pos, NEW t \in Id, NEW u \in Id,
                      e \in ToSet(k.pfx[t]), MaxLen + e \in ToSet(k.pfx[u])
               PROVE  FALSE
    BY DEF Fresh
  <2>1. e # p /\ e # folded /\ MaxLen + e # folded
    <3>1. e # p
      BY <1>32
    <3>2. QED
      BY <1>3, <1>4, <3>1, MaxLenAssumption DEF Pos, folded
  <2>2. PICK a \in Id : e \in ToSet(h.pfx[a])
    BY <1>32, <2>1
  <2>3. PICK b \in Id : MaxLen + e \in ToSet(h.pfx[b])
    BY <1>32, <2>1
  <2>4. QED
    BY <1>2, <2>2, <2>3 DEF Fresh
<1>34. InTurn(k)
  <2> SUFFICES ASSUME NEW t \in Id
               PROVE  Placed(k.pfx[t])
    BY DEF InTurn
  <2>1. CASE t \in R
    BY <1>28, <1>30, <2>1
  <2>2. CASE t = dst
    BY <1>29, <2>2
  <2>3. CASE t \notin R /\ t # dst
    BY <1>2, <1>28, <2>3 DEF InTurn
  <2>4. QED
    BY <2>1, <2>2, <2>3
<1>35. NoNewBranch(h, k) /\ InFile(k) /\ k.par[p] = Null
  <2>1. k.par[p] = Null
    BY <1>28, CoreFacts
  <2>2. QED
    BY <1>2, <1>28, <2>1 DEF NoNewBranch, InFile
<1>36. Parsed(k)
  BY <1>28, <1>31, <1>33, <1>34, <1>35 DEF Parsed
\* The lexer halts at dst if it halted there or at src.
<1>37. \A t \in k.flag : t \in h.flag \/ (t = dst /\ src \in h.flag)
  <2>1. ASSUME NEW e \in ToSet(moved), g2.pv[e] \in ToSet(h.pfx[src])
        PROVE  g2.pv[e] \in ToSet(moved)
    <3> DEFINE v == g2.pv[e]
    <3>1. e \in Id /\ v \in Id /\ v # Null
      BY <1>5, <1>21, <2>1, ToSetType, NullOutside
    <3>2. LinksInOrder(g2)
      BY <1>17, CoreFacts
    <3>3. v < e /\ g2.nx[v] = e /\ e # Null
      BY <3>1, <3>2, NullOutside DEF LinksInOrder
    <3>4. h.par[v] # Null /\ h.par[e] # Null
      <4>1. g2.par[v] # Null /\ g2.par[e] # Null
        BY <3>1, <3>2, <3>3 DEF LinksInOrder
      <4>2. QED
        BY <1>12, <1>19, <3>1, <4>1 DEF OnlyBranches
    <3>5. v \in Pos /\ e \in Pos
      BY <1>2, <3>1, <3>4 DEF InFile
    <3>6. Origin(v) = v /\ Origin(e) = e
      BY <3>1, <3>5, OriginType
    <3>7. v \in ToSet(moved) \/ v \in ToSet(kept)
      BY <1>21, <2>1
    <3>8. v \in ToSet(kept) => e < v
      BY <1>23, <3>6
    <3> HIDE DEF v
    <3>9. ~(e < v)
      BY <3>3, <3>5 DEF Pos
    <3>10. QED
      BY <3>7, <3>8, <3>9 DEF v
  <2>2. \A t \in g3.flag : t \in g2.flag \/ t = src \/ (t = dst /\ src \in g2.flag)
    BY <1>3, <1>17, <1>19, <1>22, <1>18, <1>25, <2>1, MovedFlags
  <2>3. g2.flag \subseteq h.flag /\ k.flag \subseteq g3.flag
    BY <1>12, <1>14, <1>26 DEF RangeRemoved
  <2>4. src \notin k.flag
    <3>1. ~HasBranch(k, src)
      BY <1>27, <1>28, <1>30 DEF HasBranch
    <3>2. QED
      BY <1>3, <1>28, <3>1 DEF Core, AllSettled, Settled
  <2>5. QED
    BY <2>2, <2>3, <2>4
<1>38. Folded(h, k, p)
  BY <1>28, <1>35, <1>36, <1>37 DEF Folded, R, src, dst, q
<1>39. \A e \in Id : e # folded /\ h.kind[e] \notin BranchKinds => k.kind[e] = h.kind[e]
  BY <1>12, <1>14, <1>25, <1>26 DEF RangeRemoved, OnlyBranches
<1>40. Respelt(h, k, p)
  BY <1>28, <1>39 DEF Respelt, R, src, dst, q, folded, moved, new, rest, n, m
<1>41. QED
  BY <1>1, <1>38, <1>40


-----------------------------------------------------------------------------
(* The alternative clang_branch() removes.                                   *)

LEMMA BranchFound ==
  ASSUME NEW g, Core(g), NEW t \in Id, HasBranch(g, t), NEW c, c = BranchFind(g, t)
  PROVE  /\ c \in Id /\ g.nx[c] \in Id /\ g.nx[c] # Null
         /\ g.par[g.nx[c]] = t /\ g.par[c] # t
         /\ IsAlternative(g, g.nx[c]) /\ g.pv[g.nx[c]] = c
<1> DEFINE alts == {i \in DOMAIN g.pfx[t] : IsAlternative(g, g.pfx[t][i])}
           first == CHOOSE i \in alts : \A j \in alts : i <= j
<1>1. g \in Heap /\ LinksInOrder(g) /\ BranchesLinked(g) /\ ParentExact(g)
  BY CoreFacts
<1>2. g.pfx[t] \in Seq(Id) /\ DOMAIN g.pfx[t] = 1..Len(g.pfx[t]) /\ Len(g.pfx[t]) \in Nat
  BY <1>1, HeapFields
<1>3. alts # {}
  BY DEF HasBranch, ToSet
<1>4. first \in alts
  <2>1. alts \in SUBSET (1..Len(g.pfx[t]))
    BY <1>2
  <2> HIDE DEF alts
  <2>2. \E i \in alts : \A j \in alts : i <= j
    BY <1>2, <1>3, <2>1, MinOf
  <2>3. QED
    BY <2>2
<1>5. c = g.pv[g.pfx[t][first]]
  BY <1>3 DEF BranchFind
<1> HIDE DEF first
<1> DEFINE q == g.pfx[t][first]
<1>6. q \in Id /\ q \in ToSet(g.pfx[t]) /\ IsAlternative(g, q)
  <2>1. first \in DOMAIN g.pfx[t] /\ IsAlternative(g, q)
    BY <1>4
  <2>2. q \in Id
    BY <1>2, <2>1, ElementsOf
  <2>3. QED
    BY <2>1, <2>2 DEF ToSet
<1>7. c = g.pv[q]
  BY <1>5
<1> HIDE DEF q, alts
<1>8. c # Null /\ g.kind[q] = "else" /\ g.par[q] # g.par[c]
  BY <1>6, <1>7 DEF IsAlternative
<1>9. c \in Id /\ g.nx[c] = q
  BY <1>1, <1>6, <1>7, <1>8, HeapFields DEF LinksInOrder
<1>10. g.par[q] = t
  <2>1. g.par[q] # Null
    BY <1>1, <1>6, <1>8 DEF BranchesLinked, BranchKinds
  <2>2. QED
    BY <1>1, <1>6, <2>1 DEF ParentExact
<1>11. QED
  BY <1>6, <1>7, <1>8, <1>9, <1>10, NullOutside

\* clang_branch()
LEMMA BranchStep ==
  ASSUME Parsed(h), NEW t \in h.flag, NEW c, c = BranchFind(h, t)
  PROVE  /\ c \in Id /\ h.nx[c] # Null
         /\ Folded(h, RemoveRange(Unlink(h, c), h.par[c], h.par[h.nx[c]]), c)
<1> DEFINE src == h.par[c]
           dst == h.par[h.nx[c]]
           u == Unlink(h, c)
           k == RemoveRange(u, src, dst)
<1>1. Core(h) /\ h \in Heap
  BY CoreFacts DEF Parsed
<1>2. t \in Id /\ HasBranch(h, t)
  <2>1. t \in Id
    BY <1>1, HeapFields
  <2>2. QED
    BY <1>1, <2>1 DEF Core, AllSettled, Settled
<1>3. c \in Id /\ h.nx[c] # Null /\ h.nx[c] \in Id /\ dst = t /\ src # t
  BY <1>1, <1>2, BranchFound
<1>4. src \in ToSet(h.toks) /\ dst \in ToSet(h.toks)
  BY <1>3, LinkForward
<1>5. Unlinked(h, u, {c})
  BY <1>1, <1>3, UnlinkOne
<1>6. Core(u) /\ u.toks = h.toks /\ u.kind[c] \notin BranchKinds
      /\ \A v \in Id : Held(u, v) = Held(h, v)
  BY <1>5 DEF Unlinked, SameLists, SameHeld
<1>7. Parsed(u) /\ NoNewBranch(h, u)
  BY <1>5, ParsedUnlinked
<1> HIDE DEF u, src, dst
<1> DEFINE R == Between(u, src, dst)
<1>8. RangeRemoved(u, k, R)
  BY <1>4, <1>6, RemoveBetween
<1>9. R \in SUBSET Id /\ R = Between(h, src, dst)
  <2>1. ToSet(u.toks) \subseteq Id
    BY <1>6, ListFacts, NullOutside
  <2>2. QED
    BY <1>6, <2>1 DEF Between
<1> HIDE DEF R, k
<1>10. Parsed(k) /\ NoNewBranch(u, k)
  BY <1>7, <1>8, <1>9, ParsedRemoved
<1>11. k.par[c] = Null
  <2>1. u.par[c] = Null
    BY <1>3, <1>6, CoreFacts
  <2>2. QED
    BY <1>3, <1>10, <2>1 DEF NoNewBranch
<1>12. NoNewBranch(h, k)
  BY <1>7, <1>10 DEF NoNewBranch
<1>13. /\ ToSet(k.toks) = ToSet(h.toks) \ R
       /\ \A v \in Id : Held(k, v) = Held(h, v) - (IF v \in R THEN 1 ELSE 0)
  BY <1>6, <1>8 DEF RangeRemoved
<1>14. k.flag \subseteq h.flag
  BY <1>5, <1>8 DEF Unlinked, RangeRemoved
<1>15. Folded(h, k, c)
  BY <1>9, <1>10, <1>11, <1>12, <1>13, <1>14 DEF Folded, src, dst
<1>16. QED
  BY <1>3, <1>15 DEF k, u, src, dst


-----------------------------------------------------------------------------
(* The alternative clang_recover() folds.                                    *)

LEMMA FoldableFound ==
  ASSUME Parsed(h), NEW tokens \in Seq(Id), NEW c, c = FirstFoldable(tokens), c # Null
  PROVE  c \in Id /\ h.nx[c] # Null /\ h.par[c] # h.par[h.nx[c]]
<1> DEFINE foldable(t) == {i \in DOMAIN h.pfx[t] : Foldable(h.pfx[t][i])}
           some == {i \in DOMAIN tokens : foldable(tokens[i]) # {}}
           first == tokens[Min(some)]
<1>1. Core(h) /\ h \in Heap /\ LinksInOrder(h) /\ BranchesLinked(h)
  BY CoreFacts DEF Parsed
<1>2. some # {} /\ c = BranchOf(h.pfx[first][Max(foldable(first))])
  BY NullOutside DEF FirstFoldable
<1>3. Min(some) \in some
  <2>1. some \in SUBSET (1..Len(tokens)) /\ Len(tokens) \in Nat
    OBVIOUS
  <2> HIDE DEF some
  <2>2. \E i \in some : \A j \in some : i <= j
    BY <1>2, <2>1, MinOf
  <2>3. QED
    BY <2>2 DEF Min
<1>4. Min(some) \in DOMAIN tokens /\ foldable(first) # {}
  BY <1>3
<1>5. first \in Id
  BY <1>4, ElementsOf
<1> HIDE DEF some, first
<1> DEFINE m == Max(foldable(first))
<1>6. m \in foldable(first)
  <2>1. foldable(first) \in SUBSET (1..Len(h.pfx[first])) /\ Len(h.pfx[first]) \in Nat
    BY <1>1, <1>5, HeapFields
  <2> HIDE DEF foldable
  <2>2. QED
    BY <1>4, <2>1, MaxOfUpTo
<1>7. m \in DOMAIN h.pfx[first] /\ Foldable(h.pfx[first][m])
  BY <1>6
<1> HIDE DEF m, foldable
<1> DEFINE p == h.pfx[first][m]
<1>8. p \in Id
  BY <1>1, <1>5, <1>7, HeapFields, ElementsOf
<1>9. c = BranchOf(p)
  BY <1>2 DEF m
<1> HIDE DEF p
<1>10. h.kind[p] \in BranchKinds /\ h.par[c] # h.par[h.nx[c]]
  BY <1>7, <1>9 DEF Foldable, p
<1>11. h.par[p] # Null
  BY <1>1, <1>8, <1>10 DEF BranchesLinked
<1>12. CASE h.kind[p] = "endif"
  <2>1. h.pv[p] # Null /\ h.pv[p] \in Id
    BY <1>1, <1>8, <1>11, <1>12, HeapFields DEF LinksInOrder
  <2>2. h.nx[h.pv[p]] = p
    BY <1>1, <1>8, <2>1 DEF LinksInOrder
  <2>3. QED
    BY <1>8, <1>9, <1>10, <1>12, <2>1, <2>2, NullOutside DEF BranchOf
<1>13. CASE h.kind[p] # "endif"
  <2>1. c = p /\ h.kind[p] \in {"if", "else"}
    BY <1>9, <1>10, <1>13 DEF BranchOf, BranchKinds
  <2>2. QED
    BY <1>1, <1>8, <1>10, <2>1 DEF BranchesLinked
<1>14. QED
  BY <1>12, <1>13

LEMMA IndexFacts ==
  ASSUME NEW g, Core(g), NEW t \in ToSet(g.toks)
  PROVE  Index(g, t) \in 1..Len(g.toks) /\ g.toks[Index(g, t)] = t /\ t \in Id /\ t \in Pos
<1>1. g.toks \in Seq(Id) /\ DOMAIN g.toks = 1..Len(g.toks) /\ ToSet(g.toks) \subseteq Pos
  BY ListFacts
<1>2. QED
  BY <1>1, IndexOfLemma, NullOutside DEF Index

\* The stamps the lexer may be sent back to are in the list.
LEMMA StampInList ==
  ASSUME NEW g, NEW limit, stamps \in Seq(Pos), NEW s, s = LastStamp(g, limit), s # Null
  PROVE  /\ s \in ToSet(g.toks) /\ s \in Pos
         /\ \E i \in DOMAIN stamps : s = stamps[i] /\ stamps[i] < limit
<1> DEFINE ok == {i \in DOMAIN stamps : InList(g, stamps[i]) /\ stamps[i] < limit}
<1>1. ok # {} /\ s = stamps[Max(ok)]
  BY DEF LastStamp
<1>2. ok \in SUBSET (1..Len(stamps)) /\ Len(stamps) \in Nat
  OBVIOUS
<1>3. Max(ok) \in ok
  <2> HIDE DEF ok
  <2>1. QED
    BY <1>1, <1>2, MaxOfUpTo
<1>4. Max(ok) \in DOMAIN stamps /\ InList(g, stamps[Max(ok)]) /\ stamps[Max(ok)] < limit
  BY <1>3
<1> HIDE DEF ok
<1>5. QED
  BY <1>1, <1>4, ElementsOf DEF InList

LEMMA ReverseType ==
  ASSUME NEW S, NEW s \in Seq(S)
  PROVE  Reverse(s) \in Seq(S)
<1>1. Len(s) \in Nat /\ \A i \in 1..Len(s) : Len(s) - i + 1 \in 1..Len(s)
  OBVIOUS
<1>2. \A i \in 1..Len(s) : s[Len(s) - i + 1] \in S
  BY <1>1, ElementsOf
<1>3. QED
  BY <1>1, <1>2 DEF Reverse

\* clang_recover_find_branch()
LEMMA RecoverFound ==
  ASSUME Parsed(h), stamps \in Seq(Pos), st # Null => st \in ToSet(h.toks),
         NEW c, c = RecoverFindBranch, c # Null
  PROVE  c \in Id /\ h.nx[c] # Null /\ h.par[c] # h.par[h.nx[c]]
<1> DEFINE back == IF st = Null THEN Head(h.toks) ELSE st
           threshold == LastStamp(h, NoLimit)
<1>1. Core(h) /\ h.toks \in Seq(Id) /\ h.toks # <<>>
  BY ListFacts DEF Parsed
<1>2. back \in ToSet(h.toks)
  <2>1. 1 \in DOMAIN h.toks /\ Head(h.toks) = h.toks[1]
    BY <1>1
  <2>2. QED
    BY <2>1 DEF ToSet
<1>3. threshold # Null => threshold \in ToSet(h.toks)
  BY StampInList
<1> HIDE DEF back, threshold
<1>4. /\ Index(h, back) \in 1..Len(h.toks)
      /\ threshold # Null => Index(h, threshold) \in 1..Len(h.toks)
  BY <1>1, <1>2, <1>3, IndexFacts
<1>5. Backward(back, threshold) \in Seq(Id)
  <2> DEFINE stop == IF threshold # Null /\ Index(h, threshold) < Index(h, back)
                     THEN Index(h, threshold) ELSE 0
  <2>1. stop \in Nat /\ Index(h, back) \in Nat /\ Index(h, back) <= Len(h.toks)
    BY <1>1, <1>4
  <2> HIDE DEF stop
  <2>2. SubSeq(h.toks, stop + 1, Index(h, back)) \in Seq(Id)
    BY <1>1, <2>1
  <2>3. QED
    BY <2>2, ReverseType DEF Backward, stop
<1>6. Forward(back, threshold) \in Seq(Id)
  <2> DEFINE stop == IF threshold # Null /\ Index(h, back) < Index(h, threshold)
                     THEN Index(h, threshold) ELSE Len(h.toks) + 1
  <2>1. stop - 1 \in Nat /\ stop - 1 <= Len(h.toks) /\ Index(h, back) \in Nat \ {0}
    BY <1>1, <1>4
  <2> HIDE DEF stop
  <2>2. SubSeq(h.toks, Index(h, back), stop - 1) \in Seq(Id)
    BY <1>1, <2>1
  <2>3. QED
    BY <2>2 DEF Forward, stop
<1>7. \/ c = FirstFoldable(Backward(back, threshold))
      \/ c = FirstFoldable(Forward(back, threshold))
  BY DEF RecoverFindBranch, back, threshold
<1>8. QED
  BY <1>5, <1>6, <1>7, FoldableFound


-----------------------------------------------------------------------------
(* References held by the list and by the stamps.                            *)

Count(s, t) == Cardinality({i \in DOMAIN s : s[i] = t})

HeldBy(g, s) ==
    \A t \in Id : Held(g, t) = (IF t \in ToSet(g.toks) THEN 1 ELSE 0) + Count(s, t)

LEMMA CountType ==
  ASSUME NEW S, NEW s \in Seq(S), NEW t
  PROVE  Count(s, t) \in Nat
<1>1. Len(s) \in Nat /\ DOMAIN s = 1..Len(s)
  OBVIOUS
<1>2. IsFiniteSet(1..Len(s))
  BY <1>1, FS_Interval
<1>3. IsFiniteSet({i \in DOMAIN s : s[i] = t})
  BY <1>1, <1>2, FS_Subset
<1>4. QED
  BY <1>3, FS_CardinalityType DEF Count

LEMMA CountOfNone == \A t : Count(<<>>, t) = 0
<1>1. \A t : {i \in DOMAIN <<>> : <<>>[i] = t} = {}
  OBVIOUS
<1>2. QED
  BY <1>1, FS_EmptySet DEF Count

LEMMA CountOfAppend ==
  ASSUME NEW S, NEW s \in Seq(S), NEW e \in S, NEW t
  PROVE  Count(Append(s, e), t) = Count(s, t) + (IF t = e THEN 1 ELSE 0)
<1> DEFINE a == Append(s, e)
           C == {i \in DOMAIN s : s[i] = t}
           D == {i \in DOMAIN a : a[i] = t}
           n == Len(s) + 1
<1>1. /\ DOMAIN a = 1..n /\ a[n] = e /\ n \in Nat /\ n \notin DOMAIN s
      /\ DOMAIN s = 1..n-1 /\ \A i \in 1..n-1 : a[i] = s[i]
  OBVIOUS
<1>2. D = IF t = e THEN C \cup {n} ELSE C
  <2> HIDE DEF a, n
  <2>1. 1..n = (1..n-1) \cup {n}
    <3>1. n # 0
      BY <1>1 DEF n
    <3>2. QED
      BY <1>1, <3>1
  <2>2. QED
    BY <1>1, <2>1
<1>3. IsFiniteSet(C) /\ n \notin C
  <2>1. IsFiniteSet(1..n-1)
    BY FS_Interval, <1>1
  <2>2. QED
    BY <1>1, <2>1, FS_Subset
<1>4. Cardinality(C \cup {n}) = Cardinality(C) + 1 /\ Cardinality(C) \in Nat
  BY <1>3, FS_AddElement, FS_CardinalityType
<1>5. Cardinality(D) = Cardinality(C) + (IF t = e THEN 1 ELSE 0)
  <2> HIDE DEF C, D
  <2>1. QED
    BY <1>2, <1>4
<1>6. QED
  BY <1>5 DEF Count

LEMMA HeldAfter ==
  ASSUME NEW g, NEW k, NEW p, NEW s \in Seq(Pos), Folded(g, k, p), HeldBy(g, s),
         ToSet(g.toks) \subseteq Pos
  PROVE  HeldBy(k, s)
<1> SUFFICES ASSUME NEW t \in Id
             PROVE  Held(k, t) = (IF t \in ToSet(k.toks) THEN 1 ELSE 0) + Count(s, t)
  BY DEF HeldBy
<1> DEFINE R == Between(g, g.par[p], g.par[g.nx[p]])
<1>1. /\ ToSet(k.toks) = ToSet(g.toks) \ R /\ R \subseteq ToSet(g.toks)
      /\ Held(k, t) = Held(g, t) - (IF t \in R THEN 1 ELSE 0)
  BY DEF Folded, Between
<1>2. Held(g, t) = (IF t \in ToSet(g.toks) THEN 1 ELSE 0) + Count(s, t)
  BY DEF HeldBy
<1>3. Count(s, t) \in Nat
  BY CountType
<1> HIDE DEF R
<1>4. QED
  BY <1>1, <1>2, <1>3

\* clang_stamp()
LEMMA StampHeld ==
  ASSUME NEW g, Parsed(g), NEW s \in Seq(Pos), NEW e \in Pos, HeldBy(g, s)
  PROVE  Parsed(Ref(g, e)) /\ HeldBy(Ref(g, e), Append(s, e))
<1> DEFINE k == Ref(g, e)
<1>1. g \in Heap /\ e \in Id /\ Core(g)
  BY NullOutside, CoreFacts DEF Parsed
<1>2. k \in Heap /\ SameLinks(g, k) /\ SameLists(g, k)
  BY <1>1, RefLemma
<1>3. k.flag = g.flag /\ \A t \in Id : k.refs[t] = g.refs[t] + (IF t = e THEN 1 ELSE 0)
  BY <1>1, RefFields
<1> HIDE DEF k
<1>4. k.kind = g.kind /\ k.pv = g.pv /\ k.nx = g.nx /\ k.par = g.par
      /\ k.pfx = g.pfx /\ k.toks = g.toks
  BY <1>2 DEF SameLinks, SameLists
<1>5. AllSettled(k)
  <2>1. \A t : HasBranch(k, t) <=> HasBranch(g, t)
    BY <1>2, <1>4, FoundAlike
  <2>2. QED
    BY <1>1, <1>3, <2>1 DEF Core, AllSettled, Settled
<1>6. InShape(k)
  <2>1. LinksInOrder(g) /\ BranchesLinked(g) /\ ParentsHoldIn(g)
    BY <1>1, CoreFacts
  <2>2. QED
    BY <1>4, <2>1 DEF InShape, LinksInOrder, BranchesLinked, ParentsHoldIn
<1>7. Core(k)
  BY <1>1, <1>2, <1>4, <1>5, <1>6 DEF Core, PrefixesApart, PrefixesListed, TokensOK
<1>8. Parsed(k)
  BY <1>4, <1>7 DEF Parsed, InFile, InOrder, Fresh, InTurn
<1>9. ASSUME NEW t \in Id
      PROVE  Held(k, t) = (IF t \in ToSet(k.toks) THEN 1 ELSE 0) + Count(Append(s, e), t)
  <2>1. Kids(k, t) = Kids(g, t) /\ Cardinality(Kids(g, t)) \in Nat
    BY <1>4, KidsCount DEF Kids
  <2>2. Held(k, t) = Held(g, t) + (IF t = e THEN 1 ELSE 0)
    <3>1. g.refs[t] \in Int
      BY <1>1, HeapFields
    <3>2. QED
      BY <1>3, <2>1, <3>1 DEF Held
  <2>3. Held(g, t) = (IF t \in ToSet(g.toks) THEN 1 ELSE 0) + Count(s, t)
    BY DEF HeldBy
  <2>4. Count(s, t) \in Nat /\ Count(Append(s, e), t) = Count(s, t) + (IF t = e THEN 1 ELSE 0)
    BY CountType, CountOfAppend
  <2>5. QED
    BY <1>4, <2>2, <2>3, <2>4
<1>10. QED
  BY <1>8, <1>9 DEF HeldBy, k


-----------------------------------------------------------------------------
(* lexer_free()                                                              *)

\* The prefixes of the first i tokens.
PrefixesOf(g, i) == UNION {ToSet(g.pfx[g.toks[j]]) : j \in 1..i}

LEMMA UnlinkEverything ==
  ASSUME NEW g, Core(g)
  PROVE  /\ Unlinked(g, FoldLeft(UnlinkPrefixes, g, g.toks), PrefixesOf(g, Len(g.toks)))
<1> DEFINE s == g.toks
           n == Len(s)
<1>1. s \in Seq(Id) /\ n \in Nat /\ g \in Heap
  BY CoreFacts, HeapFields
<1>2. PICK f : Folds(f, "free", g, s) /\ FoldLeft(UnlinkPrefixes, g, s) = f[n]
  BY <1>1, FoldFree
<1>3. \A i \in 1..n : f[i] = UnlinkPrefixes(f[i-1], s[i])
  BY <1>2 DEF Folds, Step
<1>4. \A i \in 0..n : PrefixesOf(g, i) \in SUBSET Id
  <2> SUFFICES ASSUME NEW i \in 0..n, NEW j \in 1..i
               PROVE  ToSet(g.pfx[g.toks[j]]) \subseteq Id
    BY DEF PrefixesOf
  <2>1. j \in DOMAIN s
    BY <1>1
  <2>2. g.pfx[g.toks[j]] \in Seq(Id)
    BY <1>1, <2>1, ElementsOf, HeapFields
  <2>3. QED
    BY <2>2, ToSetType
<1> DEFINE S == {i \in 0..n : Unlinked(g, f[i], PrefixesOf(g, i))}
<1>5. 0 \in S
  <2>1. PrefixesOf(g, 0) = {}
    BY DEF PrefixesOf
  <2>2. f[0] = g
    BY <1>2 DEF Folds
  <2>3. Unlinked(g, f[0], PrefixesOf(g, 0))
    BY <2>1, <2>2, UnlinkNone
  <2>4. 0 \in 0..n
    BY <1>1
  <2>5. QED
    BY <2>3, <2>4
<1>6. ASSUME NEW i \in 0..n-1, i \in S
      PROVE  i + 1 \in S
  <2> DEFINE t == s[i + 1]
             k == f[i]
  <2>1. i + 1 \in 1..n /\ i + 1 - 1 = i /\ i \in 0..n /\ i + 1 \in 0..n /\ i + 1 \in DOMAIN s
    BY <1>1
  <2>2. Unlinked(g, k, PrefixesOf(g, i))
    BY <1>6
  <2>3. Core(k) /\ k.pfx = g.pfx
    BY <2>2 DEF Unlinked, SameLists
  <2>4. t \in Id /\ g.pfx[t] \in Seq(Id)
    BY <1>1, <2>1, ElementsOf, HeapFields
  <2>5. f[i + 1] = UnlinkPrefixes(k, t)
    BY <1>3, <2>1
  <2> HIDE DEF k, t
  <2>6. Unlinked(k, f[i + 1], ToSet(g.pfx[t]))
    BY <2>3, <2>4, <2>5, UnlinkAll DEF UnlinkPrefixes
  <2>7. PrefixesOf(g, i + 1) = PrefixesOf(g, i) \cup ToSet(g.pfx[t])
    <3>1. 1..i+1 = (1..i) \cup {i + 1}
      BY <2>1
    <3>2. QED
      BY <3>1 DEF PrefixesOf, t
  <2>8. PrefixesOf(g, i) \in SUBSET Id /\ ToSet(g.pfx[t]) \in SUBSET Id
    BY <1>4, <2>1, <2>4, ToSetType
  <2>9. Unlinked(g, f[i + 1], PrefixesOf(g, i) \cup ToSet(g.pfx[t]))
    BY <2>2, <2>6, <2>8, UnlinkedThrough
  <2>10. QED
    BY <2>1, <2>7, <2>9
<1> HIDE DEF S
<1>7. 0..n \subseteq S
  BY <1>1, <1>5, <1>6, UpTo
<1>8. n \in S
  BY <1>1, <1>7
<1>9. QED
  BY <1>2, <1>8 DEF S

\* No branch is left.
LEMMA NothingLinked ==
  ASSUME NEW g, Core(g), NEW k, k = FoldLeft(UnlinkPrefixes, g, g.toks)
  PROVE  Core(k) /\ k.toks = g.toks /\ SameHeld(g, k) /\ \A p \in Id : k.par[p] = Null
<1>1. Unlinked(g, k, PrefixesOf(g, Len(g.toks)))
  BY UnlinkEverything
<1>2. /\ Core(k) /\ k.toks = g.toks /\ k.pfx = g.pfx /\ SameHeld(g, k)
      /\ \A p \in PrefixesOf(g, Len(g.toks)) : k.kind[p] \notin BranchKinds
  BY <1>1 DEF Unlinked, SameLists
<1>3. ASSUME NEW p \in Id, k.par[p] # Null
      PROVE  FALSE
  <2>1. k.par[p] \in ToSet(g.toks) /\ p \in ToSet(g.pfx[k.par[p]])
        /\ k.kind[p] \in BranchKinds
    BY <1>2, <1>3, CoreFacts DEF ParentsHoldIn
  <2>2. PICK j \in DOMAIN g.toks : g.toks[j] = k.par[p]
    BY <2>1 DEF ToSet
  <2>3. j \in 1..Len(g.toks)
    BY <2>2, ListFacts
  <2>4. p \in PrefixesOf(g, Len(g.toks))
    BY <2>1, <2>2, <2>3 DEF PrefixesOf
  <2>5. QED
    BY <1>2, <2>1, <2>4
<1>4. QED
  BY <1>2, <1>3

\* The stamps of s are released, and nothing else happens.
Released(g, k, s, i) ==
    /\ k \in Heap /\ SameLinks(g, k) /\ SameLists(g, k) /\ k.flag = g.flag
    /\ \A t \in Id : k.refs[t] = g.refs[t] - Cardinality({j \in 1..i : s[j] = t})

LEMMA ReleaseAll ==
  ASSUME NEW g \in Heap, NEW s \in Seq(Pos)
  PROVE  Released(g, FoldLeft(Rele, g, s), s, Len(s))
<1> DEFINE n == Len(s)
           C(t, i) == {j \in 1..i : s[j] = t}
<1>1. n \in Nat
  OBVIOUS
<1>2. PICK f : Folds(f, "rele", g, s) /\ FoldLeft(Rele, g, s) = f[n]
  BY FoldRele
<1>3. \A i \in 1..n : f[i] = Rele(f[i-1], s[i])
  BY <1>2 DEF Folds, Step
<1> DEFINE S == {i \in 0..n : Released(g, f[i], s, i)}
<1>4. 0 \in S
  <2>1. \A t : {j \in 1..0 : s[j] = t} = {}
    OBVIOUS
  <2>2. \A t \in Id : g.refs[t] = g.refs[t] - Cardinality({j \in 1..0 : s[j] = t})
    <3>1. \A t \in Id : g.refs[t] \in Int
      BY HeapFields
    <3>2. Cardinality({}) = 0
      BY FS_EmptySet
    <3>3. QED
      BY <2>1, <3>1, <3>2
  <2>3. f[0] = g
    BY <1>2 DEF Folds
  <2>4. QED
    BY <1>1, <2>2, <2>3 DEF Released, SameLinks, SameLists
<1>5. ASSUME NEW i \in 0..n-1, i \in S
      PROVE  i + 1 \in S
  <2> DEFINE e == s[i + 1]
             k == f[i]
             m == f[i + 1]
  <2>1. i + 1 \in 1..n /\ i + 1 - 1 = i /\ i \in 0..n /\ i + 1 \in 0..n /\ i + 1 \in DOMAIN s
        /\ i \in Nat
    BY <1>1
  <2>2. Released(g, k, s, i)
    BY <1>5
  <2>3. e \in Id
    BY <2>1, ElementsOf, NullOutside
  <2>4. m = Rele(k, e)
    BY <1>3, <2>1
  <2> HIDE DEF k, m
  <2>5. k \in Heap
    BY <2>2 DEF Released
  <2>6. /\ m \in Heap /\ SameLinks(k, m) /\ SameLists(k, m) /\ m.flag = k.flag
        /\ \A t \in Id : m.refs[t] = k.refs[t] - (IF t = e THEN 1 ELSE 0)
    BY <2>3, <2>4, <2>5, ReleLemma, RefFields
  <2>7. ASSUME NEW t \in Id
        PROVE  m.refs[t] = g.refs[t] - Cardinality(C(t, i + 1))
    <3>1. C(t, i + 1) = IF t = e THEN C(t, i) \cup {i + 1} ELSE C(t, i)
      <4>1. 1..i+1 = (1..i) \cup {i + 1}
        BY <2>1
      <4>2. QED
        BY <4>1
    <3>2. IsFiniteSet(C(t, i)) /\ i + 1 \notin C(t, i)
      <4>1. IsFiniteSet(1..i)
        BY <2>1, FS_Interval
      <4>2. i + 1 \notin 1..i
        BY <2>1
      <4>3. QED
        BY <4>1, <4>2, FS_Subset
    <3>3. /\ Cardinality(C(t, i) \cup {i + 1}) = Cardinality(C(t, i)) + 1
          /\ Cardinality(C(t, i)) \in Nat
      BY <3>2, FS_AddElement, FS_CardinalityType
    <3>4. k.refs[t] = g.refs[t] - Cardinality(C(t, i)) /\ g.refs[t] \in Int
      BY <2>2, HeapFields DEF Released
    <3>5. m.refs[t] = k.refs[t] - (IF t = e THEN 1 ELSE 0)
      BY <2>6
    <3> HIDE DEF C, e
    <3>6. QED
      BY <3>1, <3>3, <3>4, <3>5
  <2>8. Released(g, m, s, i + 1)
    BY <2>2, <2>6, <2>7 DEF Released, SameLinks, SameLists
  <2>9. QED
    BY <2>1, <2>8 DEF m
<1> HIDE DEF S
<1>6. 0..n \subseteq S
  BY <1>1, <1>4, <1>5, UpTo
<1>7. n \in S
  BY <1>1, <1>6
<1>8. QED
  BY <1>2, <1>7 DEF S

\* What is left once the lexer is freed.
FreedHeap(g) ==
    /\ g \in Heap /\ InShape(g) /\ AllSettled(g)
    /\ \A t \in Id : g.refs[t] = IF t \in ToSet(g.toks) THEN 1 ELSE 0

LEMMA FreeStep ==
  ASSUME NEW g, Core(g), NEW s \in Seq(Pos), HeldBy(g, s),
         NEW k, k = FoldLeft(Rele, FoldLeft(UnlinkPrefixes, g, g.toks), s)
  PROVE  FreedHeap(k)
<1> DEFINE u == FoldLeft(UnlinkPrefixes, g, g.toks)
<1>1. Core(u) /\ u.toks = g.toks /\ SameHeld(g, u) /\ \A p \in Id : u.par[p] = Null
  BY NothingLinked
<1> HIDE DEF u
<1>2. u \in Heap /\ LinksInOrder(u) /\ BranchesLinked(u) /\ ParentsHoldIn(u)
  BY <1>1, CoreFacts
<1>3. Released(u, k, s, Len(s))
  BY <1>2, ReleaseAll DEF u
<1>4. /\ k \in Heap /\ SameLinks(u, k) /\ SameLists(u, k) /\ k.flag = u.flag
      /\ \A t \in Id : k.refs[t] = u.refs[t] - Cardinality({j \in 1..Len(s) : s[j] = t})
  BY <1>3 DEF Released
<1>5. k.kind = u.kind /\ k.pv = u.pv /\ k.nx = u.nx /\ k.par = u.par
      /\ k.pfx = u.pfx /\ k.toks = u.toks
  BY <1>4 DEF SameLinks, SameLists
<1>6. InShape(k)
  BY <1>2, <1>5 DEF InShape, LinksInOrder, BranchesLinked, ParentsHoldIn
<1>7. AllSettled(k)
  <2>1. \A t : HasBranch(k, t) <=> HasBranch(u, t)
    BY <1>4, <1>5, FoundAlike
  <2>2. QED
    BY <1>1, <1>4, <2>1 DEF Core, AllSettled, Settled
<1>8. ASSUME NEW t \in Id
      PROVE  k.refs[t] = IF t \in ToSet(k.toks) THEN 1 ELSE 0
  <2>1. Held(u, t) = (IF t \in ToSet(g.toks) THEN 1 ELSE 0) + Count(s, t)
    BY <1>1 DEF SameHeld, HeldBy
  <2>2. Kids(u, t) = {}
    BY <1>1, NullOutside DEF Kids
  <2>3. Held(u, t) = u.refs[t] /\ u.refs[t] \in Int
    <3>1. u.refs[t] \in Int
      BY <1>2, HeapFields
    <3>2. Cardinality({}) = 0
      BY FS_EmptySet
    <3>3. QED
      BY <2>2, <3>1, <3>2 DEF Held
  <2>4. Count(s, t) = Cardinality({j \in 1..Len(s) : s[j] = t}) /\ Count(s, t) \in Nat
    <3>1. DOMAIN s = 1..Len(s)
      OBVIOUS
    <3>2. QED
      BY <3>1, CountType DEF Count
  <2>5. k.refs[t] = u.refs[t] - Count(s, t)
    BY <1>4, <2>4
  <2>6. QED
    BY <1>1, <1>5, <2>1, <2>3, <2>4, <2>5
<1>9. QED
  BY <1>4, <1>6, <1>7, <1>8 DEF FreedHeap


-----------------------------------------------------------------------------
(* Reading: the tokens and their prefixes get listed in the order of the file. *)

FileOrder(g) ==
    /\ Sorted(g.toks) /\ ToSet(g.toks) \subseteq Pos
    /\ \A t \in Id : ToSet(g.pfx[t]) \subseteq Pos
    /\ InOrder(g) /\ InTurn(g)

LEMMA SameOrder ==
  ASSUME NEW g, NEW k, FileOrder(g), SameLists(g, k)
  PROVE  FileOrder(k)
BY DEF FileOrder, SameLists, InOrder, InTurn

LEMMA EmptyOrder == FileOrder(EmptyHeap)
<1>1. EmptyHeap.toks = <<>> /\ \A t \in Id : EmptyHeap.pfx[t] = <<>>
  BY DEF EmptyHeap
<1>2. ToSet(<<>>) = {} /\ Sorted(<<>>) /\ Placed(<<>>)
  BY DEF ToSet, Sorted, Placed
<1>3. InOrder(EmptyHeap) /\ InTurn(EmptyHeap)
  BY <1>1, <1>2 DEF InOrder, InTurn
<1>4. \A t \in Id : ToSet(EmptyHeap.pfx[t]) \subseteq Pos
  BY <1>1, <1>2
<1>5. QED
  BY <1>1, <1>2, <1>3, <1>4 DEF FileOrder

\* The prefixes waiting for a token are those read since the last one.
LEMMA WaitingPrefixes ==
  ASSUME NEW a \in Nat \ {0}, NEW b \in Pos, a <= b,
         NEW w, w = [i \in 1..(b - a) |-> a + i - 1]
  PROVE  Placed(w) /\ \A e \in ToSet(w) : e \in Pos /\ a <= e /\ e < b
<1>1. b - a \in Nat /\ b \in Nat /\ b <= MaxLen
  BY MaxLenAssumption DEF Pos
<1>2. \A i \in 1..(b - a) : a + i - 1 \in Pos /\ a <= a + i - 1 /\ a + i - 1 < b
  BY <1>1, MaxLenAssumption DEF Pos
<1>3. DOMAIN w = 1..(b - a) /\ \A i \in 1..(b - a) : w[i] = a + i - 1
  OBVIOUS
<1>4. Placed(w)
  <2>1. \A i \in 1..(b - a) : Origin(w[i]) = a + i - 1
    BY <1>2, <1>3, NullOutside, OriginType
  <2>2. \A i, j \in 1..(b - a) : i < j => a + i - 1 < a + j - 1
    BY <1>1
  <2>3. QED
    BY <1>3, <2>1, <2>2 DEF Placed
<1>5. \A e \in ToSet(w) : e \in Pos /\ a <= e /\ e < b
  BY <1>2, <1>3 DEF ToSet
<1>6. QED
  BY <1>4, <1>5

LEMMA SortedAppend ==
  ASSUME NEW s \in Seq(Id), Sorted(s), NEW b \in Id, \A i \in DOMAIN s : s[i] < b
  PROVE  Sorted(Append(s, b)) /\ ToSet(Append(s, b)) = ToSet(s) \cup {b}
<1> DEFINE a == Append(s, b)
           n == Len(s) + 1
<1>1. /\ DOMAIN a = 1..n /\ n \in Nat /\ a[n] = b /\ DOMAIN s = 1..n-1
      /\ \A i \in 1..n-1 : a[i] = s[i]
  OBVIOUS
<1> HIDE DEF a, n
<1>2. Sorted(a)
  <2> SUFFICES ASSUME NEW i \in 1..n, NEW j \in 1..n, i < j
               PROVE  a[i] < a[j]
    BY <1>1 DEF Sorted
  <2>1. i \in 1..n-1 /\ (j = n \/ j \in 1..n-1)
    BY <1>1
  <2>2. QED
    BY <1>1, <2>1 DEF Sorted
<1>3. ToSet(a) = ToSet(s) \cup {b}
  <2>1. 1..n = (1..n-1) \cup {n}
    <3>1. n # 0
      BY <1>1 DEF n
    <3>2. QED
      BY <1>1, <3>1
  <2>2. QED
    BY <1>1, <2>1 DEF ToSet
<1>4. QED
  BY <1>2, <1>3 DEF a

LEMMA TokenOrder ==
  ASSUME RInv, FileOrder(h), NEW kind \in {"tok", "eof"}, ReadToken(kind)
  PROVE  FileOrder(h')
<1> DEFINE w == [i \in 1..(rd - lo) |-> lo + i - 1]
<1>1. /\ h \in Heap /\ lo \in Nat \ {0} /\ lo <= rd /\ lo = tk + 1 /\ tk \in Nat /\ rd \in Nat
      /\ \A i \in DOMAIN h.toks : h.toks[i] <= tk
  BY MaxLenAssumption DEF RInv, IInv, TypeOK, ReadOK, ListOK
<1>2. rd \in Pos /\ rd \in Id
  BY <1>1, MaxLenAssumption DEF ReadToken, Pos, Id
<1>3. h.toks \in Seq(Id) /\ h.pfx \in [Id -> Seq(Id)]
  BY <1>1, HeapFields
<1>4. h'.toks = Append(h.toks, rd) /\ h'.pfx = [h.pfx EXCEPT ![rd] = w]
  BY <1>1 DEF ReadToken, Heap
<1>5. /\ Placed(w) /\ \A e \in ToSet(w) : e \in Pos /\ lo <= e /\ e < rd
  BY <1>1, <1>2, WaitingPrefixes
<1> HIDE DEF w
<1>6. h'.pfx[rd] = w /\ \A t \in Id \ {rd} : h'.pfx[t] = h.pfx[t]
  BY <1>2, <1>3, <1>4
<1>7. \A u \in ToSet(h.toks) : u \in Pos /\ u <= tk /\ u < rd /\ u < lo
  <2> SUFFICES ASSUME NEW u \in ToSet(h.toks)
               PROVE  u <= tk /\ u \in Pos
    BY <1>1 DEF Pos
  <2>1. QED
    BY <1>1 DEF FileOrder, ToSet
<1>8. Sorted(h'.toks) /\ ToSet(h'.toks) = ToSet(h.toks) \cup {rd}
  <2>1. \A i \in DOMAIN h.toks : h.toks[i] < rd
    BY <1>7 DEF ToSet
  <2>2. Sorted(h.toks)
    BY DEF FileOrder
  <2>3. Sorted(Append(h.toks, rd)) /\ ToSet(Append(h.toks, rd)) = ToSet(h.toks) \cup {rd}
    BY <1>2, <1>3, <2>1, <2>2, SortedAppend
  <2>4. QED
    BY <1>4, <2>3
<1>9. ToSet(h'.toks) \subseteq Pos
  BY <1>2, <1>7, <1>8
<1>10. \A t \in Id : ToSet(h'.pfx[t]) \subseteq Pos /\ Placed(h'.pfx[t])
  <2> SUFFICES ASSUME NEW t \in Id
               PROVE  ToSet(h'.pfx[t]) \subseteq Pos /\ Placed(h'.pfx[t])
    OBVIOUS
  <2>1. CASE t = rd
    BY <1>5, <1>6, <2>1
  <2>2. CASE t # rd
    BY <1>6, <2>2 DEF FileOrder, InTurn
  <2>3. QED
    BY <2>1, <2>2
<1>11. InOrder(h')
  <2> SUFFICES ASSUME NEW t \in ToSet(h'.toks), NEW e \in ToSet(h'.pfx[t])
               PROVE  /\ Origin(e) < t
                      /\ \A u \in ToSet(h'.toks) : u < t => u < Origin(e)
    BY DEF InOrder
  <2>1. t \in Pos /\ t \in Id
    BY <1>9, NullOutside
  <2>2. e \in Pos /\ Origin(e) = e
    <3>1. e \in Pos
      BY <1>10, <2>1
    <3>2. QED
      BY <3>1, MaxLenAssumption DEF Origin, Pos
  <2>3. CASE t = rd
    <3>1. lo <= e /\ e < rd
      BY <1>5, <1>6, <2>3
    <3>2. ASSUME NEW u \in ToSet(h'.toks), u < t
          PROVE  u < e
      <4>1. u \in ToSet(h.toks)
        BY <1>1, <1>8, <2>3, <3>2
      <4>2. u \in Nat /\ u < lo /\ e \in Nat
        BY <1>7, <2>2, <4>1 DEF Pos
      <4>3. QED
        BY <1>1, <3>1, <4>2
    <3>3. QED
      BY <2>2, <2>3, <3>1, <3>2
  <2>4. CASE t # rd
    <3>1. t \in ToSet(h.toks) /\ e \in ToSet(h.pfx[t])
      BY <1>6, <1>8, <2>1, <2>4
    <3>2. Origin(e) < t /\ \A u \in ToSet(h.toks) : u < t => u < Origin(e)
      BY <3>1 DEF FileOrder, InOrder
    <3>3. ~(rd < t)
      BY <1>1, <1>7, <3>1 DEF Pos
    <3>4. QED
      BY <1>8, <3>2, <3>3
  <2>5. QED
    BY <2>3, <2>4
<1>12. QED
  BY <1>8, <1>9, <1>10, <1>11 DEF FileOrder, InTurn

\* Linking moves no token and no prefix.
LEMMA LinkLists ==
  ASSUME RInv, \/ BranchEnter \/ BranchLink \/ BranchLeave \/ SkipPrefix
               \/ EndOfFile \/ BranchPurge
  PROVE  SameLists(h, h')
<1>1. IInv /\ h \in Heap
  BY DEF RInv, IInv, TypeOK
<1>2. \A S \in SUBSET Id : SameLists(h, RevertAll(h, S))
  BY <1>1, RevertAllLemma
<1>3. CASE BranchEnter
  <2>1. lk \in Id /\ tk \in Id
    BY <1>1, <1>3, LinkingFacts DEF BranchEnter, Linking
  <2>2. QED
    BY <1>1, <1>3, <2>1, SetParentLemma DEF BranchEnter
<1>4. ASSUME phase = "read", lk < tk
      PROVE  {lk} \in SUBSET Id
  BY <1>1, <1>4, LinkingFacts
<1>5. CASE BranchLink
  <2>1. phase = "read" /\ lk < tk /\ h.kind[lk] \in {"else", "endif"}
    BY <1>5 DEF BranchLink, Linking
  <2>2. CASE stack = <<>>
    BY <1>2, <1>4, <1>5, <2>1, <2>2 DEF BranchLink
  <2>3. CASE stack # <<>>
    BY <1>1, <1>5, <2>1, <2>3, LinkToTopLemma DEF BranchLink
  <2>4. QED
    BY <2>2, <2>3
<1>6. CASE BranchLeave
  <2>1. phase = "read" /\ lk < tk /\ h.kind[lk] \in {"else", "endif"}
    BY <1>6 DEF BranchLeave, Linking
  <2>2. CASE stack = <<>>
    BY <1>2, <1>4, <1>6, <2>1, <2>2 DEF BranchLeave
  <2>3. CASE stack # <<>>
    <3> DEFINE g == LinkToTop(h)
    <3>1. g \in Heap /\ SameLists(h, g)
      BY <1>1, <2>1, <2>3, LinkToTopLemma
    <3>2. h' = UpdateFlagsOf(g, ParentsOf(g, Back(g, {lk})))
      BY <1>6, <2>3 DEF BranchLeave
    <3> HIDE DEF g
    <3>3. Back(g, {lk}) \in SUBSET Id
      BY NullOutside DEF Back
    <3>4. ParentsOf(g, Back(g, {lk})) \in SUBSET Id
      BY <3>1, <3>3, ParentsOfType
    <3>5. SameLists(g, h')
      BY <3>1, <3>2, <3>4, UpdateFlagsOfLemma
    <3>6. QED
      BY <3>1, <3>5 DEF SameLists
  <2>4. QED
    BY <2>2, <2>3
<1>7. CASE SkipPrefix \/ EndOfFile
  BY <1>7 DEF SkipPrefix, EndOfFile, SameLists
<1>8. CASE BranchPurge
  <2>1. Back(h, ToSet(stack)) \in SUBSET Id
    BY NullOutside DEF Back
  <2>2. QED
    BY <1>2, <1>8, <2>1 DEF BranchPurge
<1>9. QED
  BY <1>3, <1>5, <1>6, <1>7, <1>8


-----------------------------------------------------------------------------
(* The inductive invariant.                                                  *)

Item == Int \X Int

LInv ==
    /\ pc \in {"read", "loop", "unit", "done", "error", "freed"}
    /\ stamps \in Seq(Pos)
    /\ docs \in Seq(Seq(Item)) /\ cover \in [Id -> Int]
    /\ pc = "read" => RInv /\ FileOrder(h) /\ st = Null /\ stamps = <<>>
    /\ pc # "read" => phase = "parse"
    /\ pc \in {"loop", "unit", "done", "error"} => Parsed(h) /\ HeldBy(h, stamps)
    /\ CursorInList
    /\ pc = "unit" /\ st = Null => Last(docs) = <<>>
    /\ pc = "freed" => FreedHeap(h)

LEMMA ParsedFile ==
  RInv /\ FileOrder(h) /\ phase = "parse" => Parsed(h) /\ HeldBy(h, <<>>)
<1> SUFFICES ASSUME RInv, FileOrder(h), phase = "parse"
             PROVE  Parsed(h) /\ HeldBy(h, <<>>)
  OBVIOUS
<1>1. IInv /\ h \in Heap /\ AllSettled(h) /\ PrefixesApart(h) /\ PrefixesListed(h)
      /\ RefsExactIn(h)
  BY ClosedOpen DEF RInv, IInv, TypeOK, PrefixesOK
<1>2. InShape(h)
  BY <1>1 DEF IInv, ChainsWellFormed, InShape
<1>3. TokensOK(h)
  <2>1. AtEof
    BY <1>1 DEF IInv, ReadOK
  <2>2. tk # 0 /\ h.toks # <<>> /\ Last(h.toks) = tk /\ h.kind[tk] = "eof"
    BY <1>1, <2>1 DEF IInv, ListOK, AtEof
  <2>3. QED
    BY <2>2 DEF TokensOK, FileOrder
<1>4. InFile(h)
  BY <1>1, GroupFacts
<1>5. Fresh(h)
  <2> SUFFICES ASSUME NEW p \in Pos, NEW t \in Id, MaxLen + p \in ToSet(h.pfx[t])
               PROVE  FALSE
    BY DEF Fresh
  <2>1. MaxLen + p \in Pos
    BY DEF FileOrder
  <2>2. QED
    BY <2>1, MaxLenAssumption DEF Pos
<1>6. Parsed(h)
  BY <1>1, <1>2, <1>3, <1>4, <1>5 DEF Parsed, Core, FileOrder
<1>7. HeldBy(h, <<>>)
  <2>1. \A t \in Id : Held(h, t) = (IF t \in ToSet(h.toks) THEN 1 ELSE 0)
    BY <1>1 DEF RefsExactIn
  <2>2. QED
    BY <2>1, CountOfNone DEF HeldBy
<1>8. QED
  BY <1>6, <1>7

LEMMA ParsedFileNext ==
  (RInv /\ FileOrder(h) /\ phase = "parse")' => (Parsed(h) /\ HeldBy(h, <<>>))'
BY ParsedFile, PTL

LEMMA LoopInitInv == LoopInit => LInv
<1> SUFFICES ASSUME LoopInit
             PROVE  LInv
  OBVIOUS
<1>1. RInv
  BY InitRefs DEF LoopInit
<1>2. FileOrder(h)
  BY EmptyOrder DEF LoopInit, Init
<1>3. cover \in [Id -> Int]
  BY NullOutside DEF LoopInit
<1>4. QED
  BY <1>1, <1>2, <1>3 DEF LoopInit, LInv, CursorInList, Running

-----------------------------------------------------------------------------
(* Its steps.                                                                *)

LEMMA ReadFileStep ==
  ASSUME LInv, pc = "read", ReadFile
  PROVE  LInv'
<1>1. RInv /\ FileOrder(h)
  BY DEF LInv
<1>2. Read
  BY PrefixKindsAssumption DEF ReadFile, Read
<1>3. RInv'
  BY <1>1, <1>2, NextRefs DEF Next
<1>4. FileOrder(h')
  <2>1. CASE \E kind \in PrefixKinds : ReadPrefix(kind)
    <3>1. SameLists(h, h')
      <4>1. h \in Heap
        BY <1>1 DEF RInv, IInv, TypeOK
      <4>2. QED
        BY <2>1, <4>1 DEF ReadPrefix, SameLists, Heap
    <3>2. QED
      BY <1>1, <3>1, SameOrder
  <2>2. CASE \E kind \in {"tok", "eof"} : ReadToken(kind)
    BY <1>1, <2>2, TokenOrder
  <2>3. CASE BranchEnter \/ BranchLink \/ BranchLeave \/ SkipPrefix \/ EndOfFile
    <3>1. SameLists(h, h')
      BY <1>1, <2>3, LinkLists
    <3>2. QED
      BY <1>1, <3>1, SameOrder
  <2>4. QED
    BY <2>1, <2>2, <2>3 DEF ReadFile
<1>5. UNCHANGED parseVars
  BY DEF ReadFile
<1>6. QED
  BY <1>3, <1>4, <1>5 DEF LInv, parseVars, CursorInList, Running

LEMMA StartStep ==
  ASSUME LInv, pc = "read", StartParsing
  PROVE  LInv'
<1>1. RInv /\ FileOrder(h) /\ BranchPurge
  BY DEF LInv, StartParsing
<1>2. RInv'
  BY <1>1, PurgeRefs
<1>3. FileOrder(h')
  BY <1>1, LinkLists, SameOrder
<1>4. phase' = "parse"
  BY <1>1 DEF BranchPurge
<1>5. Parsed(h') /\ HeldBy(h', <<>>)
  BY <1>2, <1>3, <1>4, ParsedFileNext
<1>6. QED
  BY <1>4, <1>5 DEF LInv, StartParsing, CursorInList, Running

\* The cursor goes to a token of the list.
LEMMA CursorMoves ==
  ASSUME Parsed(h), st # Null => st \in ToSet(h.toks)
  PROVE  Upcoming \in ToSet(h.toks) /\ AfterHalt \in ToSet(h.toks) /\ Null \notin ToSet(h.toks)
<1>1. Core(h) /\ h.toks \in Seq(Id) /\ h.toks # <<>> /\ ToSet(h.toks) \subseteq Pos
      /\ h.kind[Last(h.toks)] = "eof"
  BY ListFacts DEF Parsed, Core, TokensOK
<1>2. Upcoming \in ToSet(h.toks)
  <2>1. CASE st = Null
    <3>1. 1 \in DOMAIN h.toks /\ Head(h.toks) = h.toks[1]
      BY <1>1
    <3>2. QED
      BY <2>1, <3>1 DEF Upcoming, ToSet
  <2>2. CASE st # Null /\ h.kind[st] = "eof"
    BY <2>2 DEF Upcoming
  <2>3. CASE st # Null /\ h.kind[st] # "eof"
    <3>1. st \in ToSet(h.toks) /\ st # Last(h.toks)
      BY <1>1, <2>3
    <3>2. TokenNext(h, st) \in ToSet(h.toks)
      BY <1>1, <3>1, NextToken
    <3>3. QED
      BY <2>3, <3>2 DEF Upcoming
  <2>4. QED
    BY <2>1, <2>2, <2>3
<1>3. QED
  BY <1>1, <1>2, NullOutside DEF AfterHalt, IsBranch


LEMMA DocTokenType ==
  ASSUME LInv, Parsed(h), NEW t \in Id
  PROVE  DocToken(t) \in Seq(Item)
<1> DEFINE text(p) == <<IF p > MaxLen THEN p - MaxLen ELSE p, cover[p]>>
           unmuted == IF t = unmute THEN <<Mute(-1)>> ELSE <<>>
           prefixes == [i \in DOMAIN h.pfx[t] |-> text(h.pfx[t][i])]
           nx == TokenNext(h, t)
           muted == IF nx # Null /\ nx \in h.flag THEN <<Mute(1)>> ELSE <<>>
<1>1. \A p \in Id : text(p) \in Item
  BY MaxLenAssumption DEF LInv, Id, Item
<1>2. Mute(-1) \in Item /\ Mute(1) \in Item
  BY DEF Mute, Item
<1>3. h.pfx[t] \in Seq(Id)
  <2>1. h \in Heap
    BY DEF Parsed, Core
  <2>2. QED
    BY <2>1, HeapFields
<1>4. DocToken(t) = unmuted \o prefixes \o <<text(t)>> \o muted
  BY DEF DocToken
<1> HIDE DEF text
<1>5. prefixes \in Seq(Item)
  <2>1. DOMAIN h.pfx[t] = 1..Len(h.pfx[t]) /\ Len(h.pfx[t]) \in Nat
    BY <1>3
  <2>2. \A i \in 1..Len(h.pfx[t]) : text(h.pfx[t][i]) \in Item
    BY <1>1, <1>3, <2>1, ElementsOf
  <2>3. QED
    BY <2>1, <2>2
<1>6. unmuted \in Seq(Item) /\ muted \in Seq(Item)
  <2> HIDE DEF Item, nx
  <2>1. <<Mute(-1)>> \in Seq(Item) /\ <<Mute(1)>> \in Seq(Item) /\ <<>> \in Seq(Item)
    BY <1>2
  <2>2. QED
    BY <2>1
<1>7. <<text(t)>> \in Seq(Item)
  BY <1>1
<1> HIDE DEF prefixes, unmuted, muted
<1>8. QED
  BY <1>4, <1>5, <1>6, <1>7

LEMMA EmitType ==
  ASSUME NEW S, NEW ds \in Seq(S), NEW n, NEW v \in S
  PROVE  [ds EXCEPT ![n] = v] \in Seq(S)
<1> DEFINE r == [ds EXCEPT ![n] = v]
<1>1. ds \in [1..Len(ds) -> S] /\ Len(ds) \in Nat
  OBVIOUS
<1>2. r \in [1..Len(ds) -> S]
  BY <1>1
<1> HIDE DEF r
<1>3. r \in Seq(S)
  BY <1>1, <1>2
<1>4. QED
  BY <1>3 DEF r

LEMMA EmitIntoType ==
  ASSUME LInv, Parsed(h), NEW t \in Id
  PROVE  EmitInto(docs, t) \in Seq(Seq(Item))
<1>1. docs \in Seq(Seq(Item)) /\ DocToken(t) \in Seq(Item)
  BY DocTokenType DEF LInv
<1> DEFINE n == Len(docs)
           v == docs[n] \o DocToken(t)
<1>2. EmitInto(docs, t) = [docs EXCEPT ![n] = v]
  BY DEF EmitInto
<1>3. CASE n \in DOMAIN docs
  <2>1. docs[n] \in Seq(Item)
    BY <1>1, <1>3, ElementsOf
  <2>2. v \in Seq(Item)
    BY <1>1, <2>1
  <2> DEFINE S == Seq(Item)
  <2>3. docs \in Seq(S) /\ v \in S
    BY <1>1, <2>2
  <2> HIDE DEF v, n, S
  <2>4. [docs EXCEPT ![n] = v] \in Seq(S)
    BY <2>3, EmitType
  <2>5. QED
    BY <1>2, <2>4 DEF S
<1>4. CASE n \notin DOMAIN docs
  <2>1. [docs EXCEPT ![n] = v] = docs
    BY <1>1, <1>4
  <2>2. QED
    BY <1>1, <1>2, <2>1
<1>5. QED
  BY <1>3, <1>4

\* What the loop keeps of the heap: nothing changes in it.
LEMMA LoopFacts ==
  ASSUME LInv, pc \in {"loop", "unit"}
  PROVE  /\ Parsed(h) /\ HeldBy(h, stamps)
         /\ st # Null => st \in ToSet(h.toks)
         /\ Upcoming \in ToSet(h.toks) /\ AfterHalt \in ToSet(h.toks)
         /\ Null \notin ToSet(h.toks) /\ ToSet(h.toks) \subseteq Id
<1>1. Parsed(h) /\ HeldBy(h, stamps) /\ (st # Null => st \in ToSet(h.toks))
  BY DEF LInv, CursorInList, Running, InList
<1>2. QED
  BY <1>1, CursorMoves, ListFacts, NullOutside DEF Parsed


\* The cursor moves and documents are emitted, but the heap stays.
LEMMA SameHeapStep ==
  ASSUME LInv, pc \in {"loop", "unit"}, UNCHANGED <<vars, stamps, cover>>,
         pc' \in {"loop", "unit", "done", "error"}, docs' \in Seq(Seq(Item)),
         st' # Null => st' \in ToSet(h.toks),
         pc' = "unit" /\ st' = Null => Last(docs') = <<>>
  PROVE  LInv'
<1>1. h' = h /\ phase' = phase /\ stamps' = stamps /\ cover' = cover
  BY DEF vars, readVars
<1>2. Parsed(h) /\ HeldBy(h, stamps)
  BY LoopFacts
<1>3. Parsed(h') /\ HeldBy(h', stamps')
  BY <1>1, <1>2
<1>4. CursorInList'
  BY <1>1 DEF CursorInList, InList
<1>5. QED
  BY <1>1, <1>3, <1>4 DEF LInv

LEMMA AppendDoc ==
  ASSUME NEW S, NEW ds \in Seq(S), NEW d \in S
  PROVE  Append(ds, d) \in Seq(S) /\ Last(Append(ds, d)) = d
BY DEF Last

LEMMA EmptyDoc == <<>> \in Seq(Item)
OBVIOUS

LEMMA ParseEofStep ==
  ASSUME LInv, ParseEof
  PROVE  LInv'
<1>1. pc = "loop" /\ pc' = "done" /\ st' = Upcoming /\ UNCHANGED <<vars, stamps, cover>>
  BY DEF ParseEof
<1>2. Parsed(h) /\ Upcoming \in ToSet(h.toks) /\ Upcoming \in Id
  BY <1>1, LoopFacts
<1>3. docs \in Seq(Seq(Item)) /\ DocToken(Upcoming) \in Seq(Item)
  BY <1>2, DocTokenType DEF LInv
<1>4. docs' = docs \/ docs' = Append(docs, DocToken(Upcoming))
  BY DEF ParseEof
<1>5. docs' \in Seq(Seq(Item))
  BY <1>3, <1>4, AppendDoc
<1>6. QED
  BY <1>1, <1>2, <1>5, SameHeapStep

LEMMA EnterUnitStep ==
  ASSUME LInv, EnterUnit
  PROVE  LInv'
<1>1. pc = "loop" /\ pc' = "unit" /\ UNCHANGED <<vars, stamps, cover>>
      /\ docs' = Append(docs, <<>>) /\ (st' = AfterHalt \/ st' = st)
  BY DEF EnterUnit
<1>2. (st # Null => st \in ToSet(h.toks)) /\ AfterHalt \in ToSet(h.toks)
  BY <1>1, LoopFacts
<1>3. docs' \in Seq(Seq(Item)) /\ Last(docs') = <<>>
  <2> DEFINE S == Seq(Item)
  <2>1. docs \in Seq(S) /\ <<>> \in S
    BY EmptyDoc DEF LInv
  <2> HIDE DEF S
  <2>2. Append(docs, <<>>) \in Seq(S) /\ Last(Append(docs, <<>>)) = <<>>
    BY <2>1, AppendDoc
  <2>3. QED
    BY <1>1, <2>2 DEF S
<1>4. st' # Null => st' \in ToSet(h.toks)
  BY <1>1, <1>2
<1>5. QED
  BY <1>1, <1>3, <1>4, SameHeapStep

LEMMA ConsumeStep ==
  ASSUME LInv, Consume
  PROVE  LInv'
<1>1. pc = "unit" /\ pc' = "unit" /\ UNCHANGED <<vars, stamps, cover>>
      /\ st' = Upcoming /\ docs' = EmitInto(docs, Upcoming)
  BY DEF Consume
<1>2. Parsed(h) /\ Upcoming \in ToSet(h.toks) /\ Upcoming \in Id /\ Upcoming # Null
  BY <1>1, LoopFacts
<1>3. docs' \in Seq(Seq(Item))
  BY <1>1, <1>2, EmitIntoType
<1>4. QED
  BY <1>1, <1>2, <1>3, SameHeapStep

LEMMA HaltStep ==
  ASSUME LInv, Halt
  PROVE  LInv'
<1>1. pc = "unit" /\ pc' = "unit" /\ UNCHANGED <<vars, stamps, cover>>
      /\ st' = AfterHalt /\ docs' = docs
  BY DEF Halt
<1>2. AfterHalt \in ToSet(h.toks) /\ AfterHalt # Null
  BY <1>1, LoopFacts
<1>3. docs' \in Seq(Seq(Item))
  BY <1>1 DEF LInv
<1>4. QED
  BY <1>1, <1>2, <1>3, SameHeapStep

LEMMA FailStep ==
  ASSUME LInv, Fail
  PROVE  LInv'
<1>1. pc = "unit" /\ pc' = "error" /\ UNCHANGED <<vars, stamps, cover>>
      /\ st' = st /\ docs' = docs
  BY DEF Fail
<1>2. st # Null => st \in ToSet(h.toks)
  BY <1>1, LoopFacts
<1>3. docs' \in Seq(Seq(Item))
  BY <1>1 DEF LInv
<1>4. QED
  BY <1>1, <1>2, <1>3, SameHeapStep

LEMMA GoodStep ==
  ASSUME LInv, Good
  PROVE  LInv'
<1>1. /\ pc = "unit" /\ pc' = "loop" /\ st' = st /\ docs' = docs /\ cover' = cover
      /\ stamps' = Append(stamps, st) /\ h' = Ref(h, st) /\ phase' = phase
      /\ Last(docs) # <<>>
  BY DEF Good, readVars
<1>2. st # Null
  BY <1>1 DEF LInv
<1>3. Parsed(h) /\ HeldBy(h, stamps) /\ st \in ToSet(h.toks) /\ stamps \in Seq(Pos)
  BY <1>1, <1>2, LoopFacts DEF LInv
<1>4. h \in Heap /\ st \in Pos /\ st \in Id
  BY <1>3, ListFacts, NullOutside DEF Parsed, Core
<1>5. Parsed(h') /\ HeldBy(h', stamps')
  BY <1>1, <1>3, <1>4, StampHeld
<1>6. h'.toks = h.toks
  BY <1>1, <1>4, RefLemma DEF SameLists
<1>7. stamps' \in Seq(Pos)
  BY <1>1, <1>3, <1>4, AppendDoc
<1>8. CursorInList'
  BY <1>1, <1>3, <1>6 DEF CursorInList, InList
<1>9. QED
  BY <1>1, <1>5, <1>7, <1>8 DEF LInv

\* The heap once more when some branch was removed or folded, and the lexer
\* sent back to a stamp.
LEMMA RewindStep ==
  ASSUME LInv, pc = "unit", pc' = "loop", stamps' = stamps, phase' = phase,
         docs' \in Seq(Seq(Item)), cover' \in [Id -> Int],
         NEW p, Folded(h, h', p), NEW limit, st' = LastStamp(h', limit)
  PROVE  LInv'
<1>1. Parsed(h) /\ HeldBy(h, stamps) /\ stamps \in Seq(Pos) /\ ToSet(h.toks) \subseteq Pos
  <2>1. Parsed(h) /\ HeldBy(h, stamps)
    BY LoopFacts
  <2>2. QED
    BY <2>1, ListFacts DEF LInv, Parsed
<1>2. Parsed(h') /\ HeldBy(h', stamps)
  BY <1>1, HeldAfter DEF Folded
<1>3. st' # Null => st' \in ToSet(h'.toks)
  BY <1>1, StampInList
<1>4. CursorInList'
  BY <1>3 DEF CursorInList, InList
<1>5. QED
  BY <1>1, <1>2, <1>4 DEF LInv

\* What clang_branch() removes.
LEMMA BranchFolds ==
  ASSUME LInv, Branch
  PROVE  /\ Folded(h, h', BranchFind(h, st)) /\ st' = LastStamp(h', NoLimit)
         /\ BranchFind(h, st) \in Id /\ h.nx[BranchFind(h, st)] # Null
<1> DEFINE c == BranchFind(h, st)
<1>1. /\ pc = "unit" /\ st \in h.flag
      /\ h' = RemoveRange(Unlink(h, c), h.par[c], h.par[h.nx[c]])
      /\ st' = LastStamp(h', NoLimit)
  BY DEF Branch, IsBranch
<1>2. Parsed(h)
  BY <1>1, LoopFacts
<1>3. /\ c \in Id /\ h.nx[c] # Null
      /\ Folded(h, RemoveRange(Unlink(h, c), h.par[c], h.par[h.nx[c]]), c)
  BY <1>1, <1>2, BranchStep
<1>4. QED
  BY <1>1, <1>3

LEMMA TakeBranchStep ==
  ASSUME LInv, Branch
  PROVE  LInv'
<1>1. pc = "unit" /\ pc' = "loop" /\ stamps' = stamps /\ phase' = phase
      /\ docs' = docs /\ cover' = cover
  BY DEF Branch, readVars
<1>2. docs' \in Seq(Seq(Item)) /\ cover' \in [Id -> Int]
  BY <1>1 DEF LInv
<1>3. Folded(h, h', BranchFind(h, st)) /\ st' = LastStamp(h', NoLimit)
  BY BranchFolds
<1>4. QED
  BY <1>1, <1>2, <1>3, RewindStep

\* What clang_recover() folds.
LEMMA RecoverFolds ==
  ASSUME LInv, Recover
  PROVE  /\ Folded(h, h', RecoverFindBranch) /\ st' = LastStamp(h', RecoverFindBranch)
         /\ RecoverFindBranch \in Id /\ h.nx[RecoverFindBranch] # Null
<1> DEFINE c == RecoverFindBranch
<1>1. pc = "unit" /\ c # Null /\ h' = BranchFold(c) /\ st' = LastStamp(h', c)
  BY DEF Recover
<1>2. Parsed(h) /\ stamps \in Seq(Pos) /\ (st # Null => st \in ToSet(h.toks))
  BY <1>1, LoopFacts DEF LInv
<1>3. c \in Id /\ h.nx[c] # Null /\ h.par[c] # h.par[h.nx[c]]
  BY <1>1, <1>2, RecoverFound
<1> HIDE DEF c
<1>4. Folded(h, BranchFold(c), c)
  BY <1>2, <1>3, FoldStep
<1>5. QED
  BY <1>1, <1>3, <1>4 DEF c

LEMMA RemoveTailType ==
  ASSUME LInv, NEW c
  PROVE  RemoveTail(RecoverDocs(c)) \in Seq(Seq(Item))
<1> DEFINE ok == {i \in DOMAIN stamps : InList(h, stamps[i]) /\ stamps[i] < c}
           n == RecoverDocs(c)
           m == IF ok = {} THEN 0 ELSE Max(ok)
<1>1. docs \in Seq(Seq(Item)) /\ stamps \in Seq(Pos)
  BY DEF LInv
<1>2. m \in 0..Len(stamps) /\ Len(stamps) \in Nat
  <2>1. ok \in SUBSET (1..Len(stamps)) /\ Len(stamps) \in Nat
    BY <1>1
  <2> HIDE DEF ok
  <2>2. ok # {} => Max(ok) \in 1..Len(stamps)
    BY <2>1, MaxOfUpTo
  <2>3. QED
    BY <2>1, <2>2
<1>3. n = 1 + Len(stamps) - m
  BY DEF RecoverDocs
<1> HIDE DEF ok, m, n
<1>4. n \in Nat \ {0}
  BY <1>2, <1>3
<1>5. SubSeq(docs, 1, Len(docs) - n) \in Seq(Seq(Item))
  <2> DEFINE S == Seq(Item)
  <2>1. docs \in Seq(S) /\ Len(docs) \in Nat
    BY <1>1
  <2> HIDE DEF S
  <2>2. SubSeq(docs, 1, Len(docs) - n) \in Seq(S)
    BY <1>4, <2>1
  <2>3. QED
    BY <2>2 DEF S
<1>6. QED
  BY <1>5 DEF RemoveTail, n

LEMMA RecoverStep ==
  ASSUME LInv, Recover
  PROVE  LInv'
<1> DEFINE c == RecoverFindBranch
<1>1. /\ pc = "unit" /\ pc' = "loop" /\ stamps' = stamps /\ phase' = phase
      /\ docs' = RemoveTail(RecoverDocs(c))
      /\ cover' = [cover EXCEPT ![MaxLen + c] = cover[h.nx[c]]]
  BY DEF Recover, readVars
<1>2. Folded(h, h', c) /\ st' = LastStamp(h', c) /\ c \in Id /\ h.nx[c] # Null
  BY RecoverFolds
<1> HIDE DEF c
<1>3. cover' \in [Id -> Int]
  <2>1. h.nx[c] \in Id
    <3>1. Parsed(h)
      BY <1>1, LoopFacts
    <3>2. QED
      BY <1>2, <3>1, LinkForward, NullOutside
  <2>2. cover \in [Id -> Int]
    BY DEF LInv
  <2>3. QED
    BY <1>1, <2>1, <2>2
<1>4. docs' \in Seq(Seq(Item))
  BY <1>1, RemoveTailType
<1>5. QED
  BY <1>1, <1>2, <1>3, <1>4, RewindStep

LEMMA FreeInv ==
  ASSUME LInv, Free
  PROVE  LInv'
<1>1. /\ pc \in {"done", "error"} /\ pc' = "freed" /\ stamps' = <<>> /\ phase' = phase
      /\ docs' = docs /\ cover' = cover
      /\ h' = FoldLeft(Rele, FoldLeft(UnlinkPrefixes, h, h.toks), stamps)
  BY DEF Free, readVars
<1>2. Core(h) /\ HeldBy(h, stamps) /\ stamps \in Seq(Pos)
  BY <1>1 DEF LInv, Parsed
<1>3. FreedHeap(h')
  BY <1>1, <1>2, FreeStep
<1>4. QED
  BY <1>1, <1>3 DEF LInv, CursorInList, Running

LEMMA LoopStutter ==
  ASSUME LInv, UNCHANGED loopVars
  PROVE  LInv'
<1>1. /\ h' = h /\ phase' = phase /\ pc' = pc /\ stamps' = stamps /\ docs' = docs
      /\ cover' = cover /\ st' = st /\ UNCHANGED vars
  BY DEF loopVars, vars, parseVars, readVars
<1>2. RInv => RInv'
  BY <1>1, NextRefs
<1>3. QED
  BY <1>1, <1>2 DEF LInv, CursorInList, Running


-----------------------------------------------------------------------------
(* The theorems.                                                             *)

LEMMA LoopNextInv == LInv /\ [LoopNext]_loopVars => LInv'
<1> SUFFICES ASSUME LInv, [LoopNext]_loopVars
             PROVE  LInv'
  OBVIOUS
<1>1. CASE ReadFile
  <2>1. phase = "read"
    BY <1>1 DEF ReadFile, ReadPrefix, ReadToken, Reading, BranchEnter, BranchLink,
                BranchLeave, SkipPrefix, Linking, EndOfFile
  <2>2. QED
    BY <1>1, <2>1, ReadFileStep DEF LInv
<1>2. CASE StartParsing
  <2>1. phase = "discard"
    BY <1>2 DEF StartParsing, BranchPurge
  <2>2. QED
    BY <1>2, <2>1, StartStep DEF LInv
<1>3. CASE ParseEof
  BY <1>3, ParseEofStep
<1>4. CASE EnterUnit
  BY <1>4, EnterUnitStep
<1>5. CASE Consume
  BY <1>5, ConsumeStep
<1>6. CASE Halt
  BY <1>6, HaltStep
<1>7. CASE Good
  BY <1>7, GoodStep
<1>8. CASE Branch
  BY <1>8, TakeBranchStep
<1>9. CASE Recover
  BY <1>9, RecoverStep
<1>10. CASE Fail
  BY <1>10, FailStep
<1>11. CASE Free
  BY <1>11, FreeInv
<1>12. CASE UNCHANGED loopVars
  BY <1>12, LoopStutter
<1>13. QED
  BY <1>1, <1>2, <1>3, <1>4, <1>5, <1>6, <1>7, <1>8, <1>9, <1>10, <1>11, <1>12
     DEF LoopNext

\* The strengthened invariant holds throughout.
LEMMA LoopInvHolds == LoopSpec => []LInv
BY LoopInitInv, LoopNextInv, PTL DEF LoopSpec

\* The links of the branches, their parents and TOKEN_FLAG_BRANCH are those of
\* well formed chains of tokens in the list through everything parser_exec()
\* does: reading, taking and folding alternatives in any order, rewinding, and
\* freeing the lexer.
THEOREM LinksAlwaysHold == LoopSpec => []LinksHold
<1>1. LInv => LinksHold
  <2> SUFFICES ASSUME LInv
               PROVE  LinksHold
    OBVIOUS
  <2>1. CASE pc = "read"
    <3>1. RInv /\ IInv
      BY <2>1 DEF LInv, RInv
    <3>2. ParentsHold
      BY <3>1 DEF IInv, ParentsHoldIn, ParentsHold, InList
    <3>3. FlagsExact
      BY <3>1, ClosedOpen DEF FlagsExact, AllSettled, Settled
    <3>4. QED
      BY <3>1, <3>2, <3>3 DEF LinksHold, IInv
  <2>2. CASE pc # "read"
    <3>1. InShape(h) /\ AllSettled(h)
      BY <2>2 DEF LInv, Parsed, Core, FreedHeap
    <3>2. ChainsWellFormed
      BY <3>1 DEF InShape, ChainsWellFormed
    <3>3. ParentsHold
      BY <3>1 DEF InShape, ParentsHoldIn, ParentsHold, InList
    <3>4. FlagsExact
      BY <3>1 DEF FlagsExact, AllSettled, Settled
    <3>5. QED
      BY <3>2, <3>3, <3>4 DEF LinksHold
  <2>3. QED
    BY <2>1, <2>2
<1>2. QED
  BY <1>1, LoopInvHolds, PTL

\* The lexer never stands on a token that clang_branch() or clang_recover()
\* removed, although both send it back to stamps taken long before.
THEOREM CursorAlwaysInList == LoopSpec => []CursorInList
<1>1. LInv => CursorInList
  BY DEF LInv
<1>2. QED
  BY <1>1, LoopInvHolds, PTL

\* lexer_free() gets back every reference: one is left for each token of the
\* list, none for those removed, whatever branches and stamps there were.
THEOREM AlwaysFreed == LoopSpec => []Freed
<1>1. LInv => Freed
  BY NullOutside DEF LInv, Freed, FreedHeap, InList
<1>2. QED
  BY <1>1, LoopInvHolds, PTL

\* Each clang_branch() and each clang_recover() takes some branch out of its
\* chain for good, and puts none back: parser_exec() starts over at most once
\* per branch of the file.
THEOREM RewindsAlwaysConsume == LoopSpec => RewindsConsumeBranches
<1>1. LInv /\ [LoopNext]_loopVars =>
        [Rewinding => LinkedPrefixes' \subseteq LinkedPrefixes
                      /\ LinkedPrefixes' # LinkedPrefixes]_loopVars
  <2> SUFFICES ASSUME LInv, LoopNext, Rewinding
               PROVE  /\ LinkedPrefixes' \subseteq LinkedPrefixes
                      /\ LinkedPrefixes' # LinkedPrefixes
    OBVIOUS
  <2>1. pc = "unit" /\ pc' = "loop" /\ stamps' = stamps
    BY DEF Rewinding
  <2>2. ASSUME NEW p \in Id, Folded(h, h', p), h.nx[p] # Null
        PROVE  /\ LinkedPrefixes' \subseteq LinkedPrefixes
               /\ LinkedPrefixes' # LinkedPrefixes
    <3>1. LinksInOrder(h)
      BY <2>1, LoopFacts, CoreFacts DEF Parsed
    <3>2. h.par[p] # Null
      BY <2>2, <3>1 DEF LinksInOrder
    <3>3. h'.par[p] = Null /\ \A q \in Id : h.par[q] = Null => h'.par[q] = Null
      BY <2>2 DEF Folded, NoNewBranch
    <3>4. QED
      BY <3>2, <3>3 DEF LinkedPrefixes
  <2>3. CASE Branch
    BY <2>2, <2>3, BranchFolds
  <2>4. CASE Recover
    BY <2>2, <2>4, RecoverFolds
  <2>5. CASE Good
    <3>1. stamps \in Seq(Pos) /\ stamps' = Append(stamps, st)
      BY <2>5 DEF LInv, Good
    <3>2. Len(stamps') = Len(stamps) + 1 /\ Len(stamps) \in Nat
      BY <3>1
    <3>3. QED
      BY <2>1, <3>2
  <2>6. ~(ReadFile \/ StartParsing \/ ParseEof \/ EnterUnit \/ Consume \/ Halt \/ Fail
          \/ Free \/ UNCHANGED loopVars)
    BY <2>1 DEF ReadFile, parseVars, StartParsing, BranchPurge, LInv, ParseEof, EnterUnit,
                Consume, Halt, Fail, Free, loopVars
  <2>7. QED
    BY <2>3, <2>4, <2>5, <2>6 DEF LoopNext
<1>2. QED
  BY <1>1, LoopInvHolds, PTL DEF LoopSpec, RewindsConsumeBranches

\* A branch hangs of the token its chain got to, or of a later one.
LEMMA ParentsForward ==
  ASSUME NEW g, Parsed(g), NEW p \in Id, NEW q \in Id, p <= q,
         g.par[p] # Null, g.par[q] # Null
  PROVE  g.par[p] \in Pos /\ g.par[q] \in Pos /\ g.par[p] <= g.par[q]
<1>1. Core(g) /\ ParentsHoldIn(g) /\ InFile(g) /\ InOrder(g)
  BY CoreFacts DEF Parsed
<1>2. p \in Pos /\ q \in Pos
  BY <1>1 DEF InFile
<1>3. /\ g.par[p] \in ToSet(g.toks) /\ p \in ToSet(g.pfx[g.par[p]])
      /\ g.par[q] \in ToSet(g.toks) /\ q \in ToSet(g.pfx[g.par[q]])
  BY <1>1 DEF ParentsHoldIn
<1>4. g.par[p] \in Pos /\ g.par[q] \in Pos
  BY <1>1, <1>3, ListFacts
<1>5. Origin(p) = p /\ Origin(q) = q
  BY <1>2, MaxLenAssumption DEF Origin, Pos
<1>6. q < g.par[q] /\ (g.par[q] < g.par[p] => g.par[q] < p)
  BY <1>1, <1>3, <1>5 DEF InOrder
<1>7. QED
  <2> DEFINE t == g.par[p]
             u == g.par[q]
  <2>1. p \in Nat /\ q \in Nat /\ t \in Nat /\ u \in Nat
    BY <1>2, <1>4 DEF Pos
  <2>2. q < u /\ (u < t => u < p) /\ p <= q
    BY <1>6
  <2> HIDE DEF t, u
  <2>3. t <= u
    BY <2>1, <2>2
  <2>4. QED
    BY <1>4, <2>3 DEF t, u

LEMMA IndexForward ==
  ASSUME NEW g, Core(g), NEW t \in ToSet(g.toks), NEW u \in ToSet(g.toks), t <= u
  PROVE  Index(g, t) <= Index(g, u)
<1>1. /\ Index(g, t) \in 1..Len(g.toks) /\ g.toks[Index(g, t)] = t
      /\ Index(g, u) \in 1..Len(g.toks) /\ g.toks[Index(g, u)] = u /\ t \in Pos /\ u \in Pos
  BY IndexFacts
<1>2. DOMAIN g.toks = 1..Len(g.toks) /\ Sorted(g.toks) /\ Len(g.toks) \in Nat
  BY ListFacts
<1>3. Index(g, u) < Index(g, t) => u < t
  BY <1>1, <1>2 DEF Sorted
<1>4. t \in Nat /\ u \in Nat /\ Index(g, t) \in Nat /\ Index(g, u) \in Nat
  BY <1>1, <1>2 DEF Pos
<1>5. QED
  BY <1>3, <1>4

\* lexer_pop() goes forward when it crosses the end of a branch while peeking:
\* clang_end_of_branch() finds an #endif, of the same token or of a later one.
THEOREM PeeksAlwaysForward == LoopSpec => []PeekForward
<1>1. LInv => PeekForward
  <2> SUFFICES ASSUME LInv, pc \in {"loop", "unit"}, NEW t \in h.flag
               PROVE  Index(h, t) <= Index(h, EndOfBranch(h, t))
    BY DEF PeekForward, Running
  <2> DEFINE c == BranchFind(h, t)
             e == CHOOSE p \in Pos : h.kind[p] = "endif" /\ c \in Back(h, {p})
  <2>1. Parsed(h) /\ Core(h)
    BY LoopFacts DEF Parsed
  <2>2. h \in Heap /\ LinksInOrder(h) /\ BranchesLinked(h) /\ ParentsHoldIn(h) /\ InFile(h)
    BY <2>1, CoreFacts DEF Parsed
  <2>3. t \in Id /\ HasBranch(h, t)
    <3>1. t \in Id
      BY <2>2, HeapFields
    <3>2. QED
      BY <2>1, <3>1 DEF Core, AllSettled, Settled
  <2>4. /\ c \in Id /\ h.nx[c] \in Id /\ h.nx[c] # Null /\ h.par[h.nx[c]] = t
    BY <2>1, <2>3, BranchFound
  <2>5. c \in Pos /\ h.kind[c] \in {"if", "else"} /\ h.par[c] # Null
    <3>1. h.par[c] # Null /\ h.kind[c] \in {"if", "else"}
      BY <2>2, <2>4 DEF LinksInOrder
    <3>2. QED
      BY <2>2, <2>4, <3>1 DEF InFile
  <2> HIDE DEF c
  <2>6. PICK f \in Ends(h) : c \in Back(h, {f})
    BY <2>2, <2>5, ChainEnds DEF BranchKinds
  <2>7. e \in Pos /\ h.kind[e] = "endif" /\ c \in Back(h, {e})
    BY <2>6 DEF Ends
  <2>8. EndOfBranch(h, t) = h.par[e]
    BY DEF EndOfBranch, c
  <2> HIDE DEF e
  <2>9. e \in Id /\ h.par[e] # Null
    <3>1. e \in Id
      BY <2>7, NullOutside
    <3>2. QED
      BY <2>2, <2>7, <3>1 DEF BranchesLinked, BranchKinds
  <2>10. c # e
    BY <2>5, <2>7
  <2>11. h.nx[c] \in Back(h, {e})
    BY <2>2, <2>7, <2>10, WalkLinked
  <2>12. h.nx[c] <= e
    BY <2>2, <2>7, <2>11, WalkBelow
  <2>13. t # Null
    BY <2>3, NullOutside
  <2>14. t <= h.par[e]
    BY <2>1, <2>4, <2>9, <2>12, <2>13, ParentsForward
  <2>15. t \in ToSet(h.toks) /\ h.par[e] \in ToSet(h.toks)
    BY <2>2, <2>4, <2>9, <2>13 DEF ParentsHoldIn
  <2>16. QED
    BY <2>1, <2>8, <2>14, <2>15, IndexForward
<1>2. QED
  BY <1>1, LoopInvHolds, PTL

-----------------------------------------------------------------------------
(* The token to unmute at.                                                   *)

\* Every stamp the lexer may be sent back to, and the cursor itself, are in
\* front of all the tokens the lexer halts at, where alternatives are taken, and
\* so in front of the token to unmute at.
Ahead ==
    /\ \A t \in h.flag, i \in DOMAIN stamps : InList(h, stamps[i]) => stamps[i] < t
    /\ st # Null => \A t \in h.flag : st <= t
    /\ unmute # Null =>
          /\ InList(h, unmute)
          /\ st # Null => st < unmute \/ (st = unmute /\ st \in h.flag)

UInv ==
    /\ pc = "read" => unmute = Null
    /\ pc \in {"loop", "unit"} => Ahead

LEMMA FlagsInList ==
  ASSUME NEW g, Core(g)
  PROVE  g.flag \subseteq ToSet(g.toks)
<1> SUFFICES ASSUME NEW t \in g.flag
             PROVE  t \in ToSet(g.toks)
  OBVIOUS
<1>1. t \in Id
  BY DEF Core, Heap
<1>2. HasBranch(g, t)
  BY <1>1 DEF Core, AllSettled, Settled
<1>3. g.pfx[t] # <<>>
  BY <1>2 DEF HasBranch, ToSet
<1>4. QED
  BY <1>1, <1>3 DEF Core, PrefixesListed

\* What lexer_pop() returns next is in front of anything behind the cursor.
LEMMA UpcomingFirst ==
  ASSUME Parsed(h), st # Null => st \in ToSet(h.toks),
         NEW u \in ToSet(h.toks), st # Null => st < u
  PROVE  Upcoming <= u
<1>1. Core(h) /\ h.toks \in Seq(Id) /\ h.toks # <<>> /\ Sorted(h.toks)
      /\ h.kind[Last(h.toks)] = "eof" /\ DOMAIN h.toks = 1..Len(h.toks) /\ Len(h.toks) \in Nat
  BY ListFacts DEF Parsed, Core, TokensOK
<1>2. PICK j \in 1..Len(h.toks) : u = h.toks[j]
  BY <1>1 DEF ToSet
<1>3. \A i \in 1..Len(h.toks) : h.toks[i] \in Nat
  BY <1>1, ItemOf
<1>4. \A i, l \in 1..Len(h.toks) : i < l => h.toks[i] < h.toks[l]
  BY <1>1 DEF Sorted
<1>5. ASSUME NEW i \in 1..Len(h.toks), i <= j
      PROVE  h.toks[i] <= u
  <2>1. i < j \/ i = j
    BY <1>1, <1>5
  <2>2. i < j => h.toks[i] < h.toks[j]
    BY <1>4
  <2>3. h.toks[i] \in Nat /\ h.toks[j] \in Nat
    BY <1>3
  <2>4. QED
    BY <1>2, <2>1, <2>2, <2>3
<1>6. CASE st = Null
  <2>1. Upcoming = h.toks[1] /\ 1 \in 1..Len(h.toks) /\ 1 <= j
    BY <1>1, <1>6 DEF Upcoming
  <2>2. QED
    BY <1>5, <2>1
<1>7. CASE st # Null /\ h.kind[st] = "eof"
  <2>1. Upcoming = st /\ st \in Pos /\ u \in Pos
    BY <1>1, <1>7, ListFacts DEF Upcoming
  <2>2. QED
    BY <1>7, <2>1 DEF Pos
<1>8. CASE st # Null /\ h.kind[st] # "eof"
  <2> DEFINE i == Index(h, st)
  <2>1. /\ i \in 1..Len(h.toks) - 1 /\ h.toks[i] = st /\ TokenNext(h, st) = h.toks[i + 1]
    BY <1>1, <1>8, NextToken
  <2> HIDE DEF i
  <2>2. i \in 1..Len(h.toks) /\ i + 1 \in 1..Len(h.toks)
    BY <1>1, <2>1
  <2>3. ~(j < i) /\ j # i
    <3>1. h.toks[i] < h.toks[j]
      BY <1>2, <1>8, <2>1
    <3>2. j < i => h.toks[j] < h.toks[i]
      BY <1>4, <2>2
    <3>3. h.toks[i] \in Nat /\ h.toks[j] \in Nat
      BY <1>3, <2>2
    <3>4. QED
      BY <3>1, <3>2, <3>3
  <2>4. i + 1 <= j
    BY <1>1, <2>2, <2>3
  <2>5. Upcoming = h.toks[i + 1]
    BY <1>8, <2>1 DEF Upcoming
  <2>6. QED
    BY <1>5, <2>2, <2>4, <2>5
<1>9. QED
  BY <1>6, <1>7, <1>8

\* The cursor stays, halts at the upcoming token or consumes it.
LEMMA AheadStep ==
  ASSUME LInv, pc \in {"loop", "unit"}, Ahead, UNCHANGED <<vars, stamps>>,
         \/ st' = st /\ unmute' = unmute
         \/ ~IsBranch /\ st' = Upcoming /\ Upcoming \in h.flag /\ unmute' = unmute
         \/ ~IsBranch /\ st' = Upcoming
            /\ unmute' = IF Upcoming = unmute THEN Null ELSE unmute
  PROVE  Ahead'
<1>1. h' = h /\ stamps' = stamps
  BY DEF vars
<1>2. CASE st' = st /\ unmute' = unmute
  BY <1>1, <1>2 DEF Ahead, InList
<1>3. CASE ~IsBranch /\ st' = Upcoming
  <2>1. Parsed(h) /\ Core(h) /\ (st # Null => st \in ToSet(h.toks))
        /\ Upcoming \in ToSet(h.toks) /\ Null \notin ToSet(h.toks)
    BY LoopFacts DEF Parsed
  <2>2. ToSet(h.toks) \subseteq Pos /\ h.flag \subseteq ToSet(h.toks)
    BY <2>1, ListFacts, FlagsInList
  <2>3. Upcoming \in Nat /\ \A t \in ToSet(h.toks) : t \in Nat
    BY <2>1, <2>2 DEF Pos
  <2>4. ASSUME NEW t \in h.flag
        PROVE  Upcoming <= t
    <3>1. st # Null => st <= t /\ st # t /\ st \in Nat /\ t \in Nat
      BY <1>3, <2>1, <2>2, <2>3 DEF Ahead, IsBranch
    <3>2. st # Null => st < t
      BY <3>1
    <3>3. QED
      BY <2>1, <2>2, <3>2, UpcomingFirst
  <2>5. ASSUME unmute # Null
        PROVE  InList(h, unmute) /\ Upcoming <= unmute
    <3>1. unmute \in ToSet(h.toks)
      BY <2>5 DEF Ahead, InList
    <3>2. st # Null => st < unmute
      BY <1>3, <2>5 DEF Ahead, IsBranch
    <3>3. QED
      BY <2>1, <3>1, <3>2, UpcomingFirst DEF InList
  <2>6. unmute' # Null => /\ InList(h, unmute')
                          /\ Upcoming < unmute' \/ (Upcoming = unmute' /\ Upcoming \in h.flag)
    <3>1. CASE Upcoming \in h.flag /\ unmute' = unmute
      BY <2>3, <2>5, <3>1 DEF InList
    <3>2. CASE unmute' = IF Upcoming = unmute THEN Null ELSE unmute
      BY <2>3, <2>5, <3>2 DEF InList
    <3>3. CASE st' = st /\ unmute' = unmute
      <4>1. st = Upcoming /\ st # Null
        BY <1>3, <2>1, <3>3
      <4>2. QED
        BY <3>3, <4>1 DEF Ahead
    <3>4. QED
      BY <3>1, <3>2, <3>3
  <2>7. \A t \in h.flag, i \in DOMAIN stamps : InList(h, stamps[i]) => stamps[i] < t
    BY DEF Ahead
  <2> HIDE DEF Upcoming
  <2>8. QED
    BY <1>1, <1>3, <2>4, <2>6, <2>7 DEF Ahead, InList
<1>4. QED
  BY <1>2, <1>3

\* An alternative is removed or folded, and the lexer sent back to a stamp in
\* front of the token that follows it.
LEMMA AheadRewind ==
  ASSUME LInv, pc \in {"loop", "unit"}, Ahead, stamps' = stamps,
         NEW c \in Id, h.nx[c] # Null, Folded(h, h', c), h.par[c] # h.par[h.nx[c]],
         NEW limit, st' = LastStamp(h', limit), unmute' = h.par[h.nx[c]],
         \A i \in DOMAIN stamps :
             InList(h, stamps[i]) /\ stamps[i] < limit => stamps[i] < unmute'
  PROVE  Ahead'
<1> DEFINE src == h.par[c]
           dst == h.par[h.nx[c]]
<1>1. Parsed(h) /\ stamps \in Seq(Pos)
  BY LoopFacts DEF LInv
<1>2. src \in ToSet(h.toks) /\ dst \in ToSet(h.toks) /\ src <= dst
  BY <1>1, LinkForward
<1>3. ToSet(h.toks) \subseteq Pos
  BY <1>1, ListFacts DEF Parsed
<1>4. /\ ToSet(h'.toks) = ToSet(h.toks) \ Between(h, src, dst)
      /\ \A t \in h'.flag : t \in h.flag \/ (t = dst /\ src \in h.flag)
  BY DEF Folded
<1>5. unmute' = dst
  OBVIOUS
<1> HIDE DEF src, dst
<1>6. src \in Nat /\ dst \in Nat
  BY <1>2, <1>3 DEF Pos
<1>7. dst \in ToSet(h'.toks)
  BY <1>2, <1>4, <1>6 DEF Between
<1>8. ASSUME NEW t \in h'.flag, NEW i \in DOMAIN stamps, InList(h', stamps[i])
      PROVE  stamps[i] < t
  <2>1. InList(h, stamps[i]) /\ stamps[i] \in Nat
    BY <1>3, <1>4, <1>8 DEF InList, Pos
  <2>2. CASE t \in h.flag
    BY <2>1, <2>2 DEF Ahead
  <2>3. CASE t = dst /\ src \in h.flag
    <3>1. stamps[i] < src
      BY <2>1, <2>3 DEF Ahead
    <3>2. QED
      BY <1>2, <1>6, <2>1, <2>3, <3>1
  <2>4. QED
    BY <1>4, <2>2, <2>3
<1>9. ASSUME st' # Null
      PROVE  \E i \in DOMAIN stamps : st' = stamps[i] /\ stamps[i] < limit
                                      /\ InList(h', stamps[i]) /\ InList(h, stamps[i])
                                      /\ stamps[i] \in Nat
  <2>1. /\ st' \in ToSet(h'.toks) /\ st' \in Pos
        /\ \E i \in DOMAIN stamps : st' = stamps[i] /\ stamps[i] < limit
    BY <1>1, <1>9, StampInList
  <2>2. QED
    BY <1>4, <2>1 DEF InList, Pos
<1>10. st' # Null => \A t \in h'.flag : st' <= t
  <2> SUFFICES ASSUME st' # Null, NEW t \in h'.flag
               PROVE  st' <= t
    OBVIOUS
  <2>1. PICK i \in DOMAIN stamps : st' = stamps[i] /\ InList(h', stamps[i]) /\ stamps[i] \in Nat
    BY <1>9
  <2>2. st' < t
    BY <1>8, <2>1
  <2>3. t \in Nat
    <3>1. Core(h')
      BY DEF Folded, Parsed
    <3>2. t \in ToSet(h'.toks)
      BY <3>1, FlagsInList
    <3>3. QED
      BY <1>3, <1>4, <3>2 DEF Pos
  <2>4. QED
    BY <2>1, <2>2, <2>3
<1>11. st' # Null => st' < unmute'
  BY <1>9
<1>12. \A t \in h'.flag, i \in DOMAIN stamps' : InList(h', stamps'[i]) => stamps'[i] < t
  BY <1>8
<1>13. QED
  BY <1>5, <1>7, <1>10, <1>11, <1>12 DEF Ahead, InList

LEMMA AheadGood ==
  ASSUME LInv, UInv, Good
  PROVE  UInv'
<1>1. /\ pc = "unit" /\ pc' = "loop" /\ st' = st /\ unmute' = unmute /\ ~IsBranch
      /\ stamps' = Append(stamps, st) /\ h' = Ref(h, st)
  BY DEF Good
<1>2. st # Null
  BY DEF LInv, Good
<1>3. Ahead /\ stamps \in Seq(Pos)
  BY <1>1 DEF UInv, LInv
<1>4. st \in ToSet(h.toks) /\ Core(h) /\ h \in Heap
  BY <1>1, <1>2, LoopFacts DEF Parsed, Core
<1>5. h'.toks = h.toks /\ h'.flag = h.flag
  BY <1>1, <1>4 DEF Ref, Heap
<1>6. \A t \in h.flag : st < t
  <2>1. h.flag \subseteq Pos /\ st \in Pos
    BY <1>4, FlagsInList, ListFacts
  <2>2. \A t \in h.flag : st <= t /\ st # t
    BY <1>1, <1>2, <1>3 DEF Ahead, IsBranch
  <2>3. QED
    BY <2>1, <2>2 DEF Pos
<1>7. \A i \in DOMAIN stamps' : stamps'[i] = st \/ (i \in DOMAIN stamps /\ stamps'[i] = stamps[i])
  BY <1>1, <1>3
<1>8. \A t \in h.flag, i \in DOMAIN stamps' : InList(h, stamps'[i]) => stamps'[i] < t
  BY <1>3, <1>6, <1>7 DEF Ahead
<1>9. Ahead'
  BY <1>1, <1>3, <1>5, <1>8 DEF Ahead, InList
<1>10. QED
  BY <1>1, <1>9 DEF UInv

LEMMA AheadBranch ==
  ASSUME LInv, UInv, Branch
  PROVE  UInv'
<1> DEFINE c == BranchFind(h, st)
<1>1. /\ pc = "unit" /\ pc' = "loop" /\ stamps' = stamps /\ st \in h.flag
      /\ unmute' = h.par[h.nx[c]]
  BY DEF Branch, IsBranch
<1>2. Folded(h, h', c) /\ st' = LastStamp(h', NoLimit) /\ c \in Id /\ h.nx[c] # Null
  BY BranchFolds
<1>3. Ahead /\ Core(h)
  BY <1>1, LoopFacts DEF UInv, Parsed
<1>4. h.par[h.nx[c]] = st /\ h.par[c] # st
  <2>1. st \in Id /\ HasBranch(h, st)
    <3>1. st \in Id
      BY <1>1, <1>3 DEF Core, Heap
    <3>2. QED
      BY <1>1, <1>3, <3>1 DEF Core, AllSettled, Settled
  <2>2. QED
    BY <1>3, <2>1, BranchFound
<1> HIDE DEF c
<1>5. \A i \in DOMAIN stamps :
          InList(h, stamps[i]) /\ stamps[i] < NoLimit => stamps[i] < unmute'
  BY <1>1, <1>3, <1>4 DEF Ahead
<1>6. Ahead'
  BY <1>1, <1>2, <1>3, <1>4, <1>5, AheadRewind
<1>7. QED
  BY <1>1, <1>6 DEF UInv

LEMMA AheadRecover ==
  ASSUME LInv, UInv, Recover
  PROVE  UInv'
<1> DEFINE c == RecoverFindBranch
<1>1. pc = "unit" /\ pc' = "loop" /\ stamps' = stamps /\ unmute' = h.par[h.nx[c]] /\ c # Null
  BY DEF Recover
<1>2. Folded(h, h', c) /\ st' = LastStamp(h', c) /\ c \in Id /\ h.nx[c] # Null
  BY RecoverFolds
<1>3. Ahead /\ Parsed(h) /\ stamps \in Seq(Pos) /\ (st # Null => st \in ToSet(h.toks))
  BY <1>1, LoopFacts DEF UInv, LInv
<1>4. h.par[c] # h.par[h.nx[c]]
  BY <1>1, <1>3, RecoverFound
<1> HIDE DEF c
<1>5. /\ c \in Pos /\ h.par[c] \in ToSet(h.toks) /\ c \in ToSet(h.pfx[h.par[c]])
      /\ h.par[h.nx[c]] \in ToSet(h.toks) /\ h.par[c] <= h.par[h.nx[c]]
  BY <1>2, <1>3, LinkForward
<1>6. c < unmute'
  <2>1. Origin(c) < h.par[c] /\ Origin(c) = c
    BY <1>2, <1>3, <1>5, OriginType DEF Parsed, InOrder
  <2>2. ToSet(h.toks) \subseteq Pos
    BY <1>3, ListFacts DEF Parsed
  <2>3. h.par[c] \in Nat /\ h.par[h.nx[c]] \in Nat /\ c \in Nat
    BY <1>5, <2>2 DEF Pos
  <2>4. QED
    BY <1>1, <1>5, <2>1, <2>3
<1>7. ASSUME NEW i \in DOMAIN stamps, stamps[i] < c
      PROVE  stamps[i] < unmute'
  <2>1. stamps[i] \in Nat /\ c \in Nat /\ unmute' \in Nat
    <3>1. unmute' \in Pos
      BY <1>1, <1>3, <1>5, ListFacts DEF Parsed
    <3>2. stamps[i] \in Pos
      BY <1>3
    <3>3. QED
      BY <1>5, <3>1, <3>2 DEF Pos
  <2>2. QED
    BY <1>6, <1>7, <2>1
<1>8. Ahead'
  BY <1>1, <1>2, <1>3, <1>4, <1>7, AheadRewind
<1>9. QED
  BY <1>1, <1>8 DEF UInv

LEMMA AheadNext == LInv /\ UInv /\ [LoopNext]_loopVars => UInv'
<1> SUFFICES ASSUME LInv, UInv, [LoopNext]_loopVars
             PROVE  UInv'
  OBVIOUS
<1>1. CASE ReadFile
  <2>1. phase = "read"
    BY <1>1 DEF ReadFile, ReadPrefix, ReadToken, Reading, BranchEnter, BranchLink,
                BranchLeave, SkipPrefix, Linking, EndOfFile
  <2>2. QED
    BY <1>1, <2>1 DEF ReadFile, parseVars, LInv, UInv
<1>2. CASE StartParsing
  <2>1. phase = "discard" /\ UNCHANGED <<st, unmute, stamps>> /\ pc' = "loop"
    BY <1>2 DEF StartParsing, BranchPurge
  <2>2. pc = "read"
    BY <2>1 DEF LInv
  <2>3. st' = Null /\ stamps' = <<>> /\ unmute' = Null
    BY <2>1, <2>2 DEF LInv, UInv
  <2>4. QED
    BY <2>1, <2>3 DEF UInv, Ahead
<1>3. CASE EnterUnit
  <2>1. pc = "loop" /\ pc' = "unit" /\ UNCHANGED <<vars, stamps>> /\ unmute' = unmute
    BY <1>3 DEF EnterUnit
  <2>2. st' = st \/ (~IsBranch /\ st' = Upcoming /\ Upcoming \in h.flag)
    BY <1>3 DEF EnterUnit, Halts, AfterHalt
  <2>3. Ahead
    BY <2>1 DEF UInv
  <2>4. Ahead'
    BY <2>1, <2>2, <2>3, AheadStep
  <2>5. QED
    BY <2>1, <2>4 DEF UInv
<1>4. CASE Consume
  <2>1. /\ pc = "unit" /\ pc' = "unit" /\ UNCHANGED <<vars, stamps>> /\ st' = Upcoming
        /\ unmute' = IF Upcoming = unmute THEN Null ELSE unmute
    BY <1>4 DEF Consume
  <2>2. ~IsBranch
    BY <1>4 DEF Consume, Halts, IsBranch, Upcoming
  <2>3. Ahead
    BY <2>1 DEF UInv
  <2>4. Ahead'
    BY <2>1, <2>2, <2>3, AheadStep
  <2>5. QED
    BY <2>1, <2>4 DEF UInv
<1>5. CASE Halt
  <2>1. pc = "unit" /\ pc' = "unit" /\ UNCHANGED <<vars, stamps>> /\ unmute' = unmute
    BY <1>5 DEF Halt
  <2>2. ~IsBranch /\ st' = Upcoming /\ Upcoming \in h.flag
    BY <1>5 DEF Halt, Halts, AfterHalt
  <2>3. Ahead
    BY <2>1 DEF UInv
  <2>4. Ahead'
    BY <2>1, <2>2, <2>3, AheadStep
  <2>5. QED
    BY <2>1, <2>4 DEF UInv
<1>6. CASE Good
  BY <1>6, AheadGood
<1>7. CASE Branch
  BY <1>7, AheadBranch
<1>8. CASE Recover
  BY <1>8, AheadRecover
<1>9. CASE ParseEof \/ Fail \/ Free
  BY <1>9 DEF ParseEof, Fail, Free, UInv
<1>10. CASE UNCHANGED loopVars
  <2>1. pc' = pc /\ st' = st /\ unmute' = unmute /\ stamps' = stamps /\ h' = h
    BY <1>10 DEF loopVars, parseVars, vars
  <2>2. QED
    BY <2>1 DEF UInv, Ahead, InList
<1>11. QED
  BY <1>1, <1>2, <1>3, <1>4, <1>5, <1>6, <1>7, <1>8, <1>9, <1>10 DEF LoopNext

LEMMA AheadHolds == LoopSpec => []UInv
<1>1. LoopInit => UInv
  BY DEF LoopInit, UInv
<1>2. QED
  BY <1>1, AheadNext, LoopInvHolds, PTL DEF LoopSpec

\* The token emission resumes at is in the list and not behind the cursor, from
\* the moment clang_branch() or clang_recover() chooses it until it is emitted:
\* the raw pointer parser_doc_token() compares is always met.
THEOREM UnmuteAlwaysAhead == LoopSpec => []UnmuteAhead
<1>1. LInv /\ UInv => UnmuteAhead
  <2> SUFFICES ASSUME LInv, UInv, unmute # Null, pc \in {"loop", "unit"}
               PROVE  /\ InList(h, unmute)
                      /\ st # Null => \/ Index(h, st) < Index(h, unmute)
                                      \/ IsBranch /\ st = unmute
    BY DEF UnmuteAhead, Running
  <2>1. Ahead /\ InList(h, unmute)
    BY DEF UInv, Ahead
  <2>2. Core(h) /\ (st # Null => st \in ToSet(h.toks))
    BY LoopFacts DEF Parsed
  <2>3. ASSUME st # Null, st < unmute
        PROVE  Index(h, st) < Index(h, unmute)
    <3>1. /\ Index(h, st) \in 1..Len(h.toks) /\ h.toks[Index(h, st)] = st /\ st \in Pos
          /\ Index(h, unmute) \in 1..Len(h.toks) /\ h.toks[Index(h, unmute)] = unmute
          /\ unmute \in Pos
      BY <2>1, <2>2, <2>3, IndexFacts DEF InList
    <3>2. st <= unmute /\ st # unmute
      BY <2>3, <3>1 DEF Pos
    <3>3. Index(h, st) <= Index(h, unmute)
      BY <2>1, <2>2, <2>3, <3>2, IndexForward DEF InList
    <3>4. Index(h, st) # Index(h, unmute)
      BY <3>1, <3>2
    <3>5. QED
      BY <3>1, <3>3, <3>4
  <2>4. QED
    BY <2>1, <2>3 DEF Ahead, IsBranch
<1>2. QED
  BY <1>1, AheadHolds, LoopInvHolds, PTL

\* f folds what fa and then fb fold.
Joined(op, g, S, a, b, s, f, fa, fb) ==
    /\ a \in Seq(S) /\ b \in Seq(S) /\ s = a \o b
    /\ Folds(f, op, g, s) /\ Folds(fa, op, g, a) /\ Folds(fb, op, fa[Len(a)], b)

LEMMA FoldsConcat ==
  ASSUME NEW op, NEW g, NEW S, NEW a, NEW b, NEW s, NEW f, NEW fa, NEW fb,
         Joined(op, g, S, a, b, s, f, fa, fb)
  PROVE  f[Len(s)] = fb[Len(b)]
<1> DEFINE n == Len(a)
           l == Len(b)
<1>1. /\ n \in Nat /\ l \in Nat /\ Len(s) = n + l
      /\ \A i \in 1..n : s[i] = a[i]
      /\ \A j \in 1..l : s[n + j] = b[j]
  BY DEF Joined
<1>2. /\ f[0] = g /\ \A i \in 1..n+l : f[i] = Step(op, f[i-1], s[i])
      /\ fa[0] = g /\ \A i \in 1..n : fa[i] = Step(op, fa[i-1], a[i])
      /\ fb[0] = fa[n] /\ \A j \in 1..l : fb[j] = Step(op, fb[j-1], b[j])
  BY <1>1 DEF Folds, Joined
<1> HIDE DEF n, l
<1> DEFINE A == {i \in 0..n : f[i] = fa[i]}
           B == {j \in 0..l : f[n + j] = fb[j]}
<1>3. n \in A
  <2>1. 0 \in A
    BY <1>1, <1>2
  <2>2. ASSUME NEW i \in 0..n-1, i \in A
        PROVE  i + 1 \in A
    <3>1. i + 1 \in 1..n /\ i + 1 \in 1..n+l /\ i + 1 - 1 = i /\ i + 1 \in 0..n
      BY <1>1
    <3>2. f[i + 1] = Step(op, f[i], s[i + 1]) /\ fa[i + 1] = Step(op, fa[i], a[i + 1])
      <4> DEFINE j == i + 1
      <4>1. j \in 1..n+l /\ j \in 1..n /\ j - 1 = i
        BY <1>1, <3>1
      <4> HIDE DEF j
      <4>2. f[j] = Step(op, f[j - 1], s[j]) /\ fa[j] = Step(op, fa[j - 1], a[j])
        BY <1>2, <4>1
      <4>3. f[j] = Step(op, f[i], s[j]) /\ fa[j] = Step(op, fa[i], a[j])
        BY <4>1, <4>2
      <4>4. QED
        BY <4>3 DEF j
    <3>3. f[i] = fa[i] /\ s[i + 1] = a[i + 1]
      BY <1>1, <2>2, <3>1
    <3>4. QED
      BY <3>1, <3>2, <3>3
  <2> HIDE DEF A
  <2>3. 0..n \subseteq A
    BY <1>1, <2>1, <2>2, UpTo
  <2>4. QED
    BY <1>1, <2>3
<1>4. l \in B
  <2>1. 0 \in B
    BY <1>1, <1>2, <1>3
  <2>2. ASSUME NEW j \in 0..l-1, j \in B
        PROVE  j + 1 \in B
    <3>1. /\ j + 1 \in 1..l /\ n + (j + 1) \in 1..n+l /\ n + (j + 1) - 1 = n + j
          /\ j + 1 - 1 = j /\ j + 1 \in 0..l
      BY <1>1
    <3>2. f[n + (j + 1)] = Step(op, f[n + j], s[n + (j + 1)])
      <4> DEFINE i == n + (j + 1)
      <4>1. i \in 1..n+l /\ i - 1 = n + j
        BY <1>1, <3>1
      <4> HIDE DEF i
      <4>2. f[i] = Step(op, f[i - 1], s[i])
        BY <1>2, <4>1
      <4>3. f[i] = Step(op, f[n + j], s[i])
        BY <4>1, <4>2
      <4>4. QED
        BY <4>3 DEF i
    <3>5. fb[j + 1] = Step(op, fb[j], b[j + 1])
      <4> DEFINE i == j + 1
      <4>1. fb[i] = Step(op, fb[i - 1], b[i])
        BY <1>2, <3>1
      <4>2. QED
        BY <3>1, <4>1
    <3>3. f[n + j] = fb[j] /\ s[n + (j + 1)] = b[j + 1]
      BY <1>1, <2>2, <3>1
    <3>4. QED
      BY <3>1, <3>2, <3>3, <3>5
  <2> HIDE DEF B
  <2>3. 0..l \subseteq B
    BY <1>1, <2>1, <2>2, UpTo
  <2>4. QED
    BY <1>1, <2>3
<1>5. f[n + l] = fb[l]
  BY <1>4
<1>6. QED
  BY <1>1, <1>5 DEF n, l

LEMMA ExecConcat ==
  ASSUME NEW g, NEW S, NEW a \in Seq(S), NEW b \in Seq(S)
  PROVE  ExecDoc(g, a \o b) = ExecDoc(ExecDoc(g, a), b)
<1>1. PICK fa : Folds(fa, "item", g, a) /\ FoldLeft(ExecItem, g, a) = fa[Len(a)]
  BY FoldItem
<1>2. PICK fb : Folds(fb, "item", fa[Len(a)], b)
                /\ FoldLeft(ExecItem, fa[Len(a)], b) = fb[Len(b)]
  BY FoldItem
<1> DEFINE s == a \o b
<1>3. s \in Seq(S) /\ s = a \o b
  OBVIOUS
<1> HIDE DEF s
<1>4. PICK f : Folds(f, "item", g, s) /\ FoldLeft(ExecItem, g, s) = f[Len(s)]
  BY <1>3, FoldItem
<1>5. f[Len(s)] = fb[Len(b)]
  <2>1. Joined("item", g, S, a, b, s, f, fa, fb)
    BY <1>1, <1>2, <1>3, <1>4 DEF Joined
  <2>2. QED
    BY <2>1, FoldsConcat
<1>6. QED
  BY <1>1, <1>2, <1>3, <1>4, <1>5 DEF ExecDoc

LEMMA ExecNone ==
  ASSUME NEW g
  PROVE  ExecDoc(g, <<>>) = g
<1>1. <<>> \in Seq({}) /\ Len(<<>>) = 0
  OBVIOUS
<1>2. PICK f : Folds(f, "item", g, <<>>) /\ FoldLeft(ExecItem, g, <<>>) = f[0]
  BY <1>1, FoldItem
<1>3. QED
  BY <1>2 DEF Folds, ExecDoc

LEMMA ExecOne ==
  ASSUME NEW g, NEW x
  PROVE  ExecDoc(g, <<x>>) = ExecItem(g, x)
<1>1. <<x>> \in Seq({x}) /\ Len(<<x>>) = 1 /\ <<x>>[1] = x
  OBVIOUS
<1>2. PICK f : Folds(f, "item", g, <<x>>) /\ FoldLeft(ExecItem, g, <<x>>) = f[1]
  BY <1>1, FoldItem
<1>3. f[0] = g /\ f[1] = Step("item", f[1-1], <<x>>[1])
  BY <1>1, <1>2 DEF Folds
<1>4. f[1] = ExecItem(g, x)
  BY <1>1, <1>3 DEF Step
<1>5. QED
  BY <1>2, <1>4 DEF ExecDoc

Unmuted == [mute |-> 0, out |-> <<>>]

\* What doc_exec() makes of the documents ds.
ExecOf(ds) == FoldLeft(ExecDoc, Unmuted, ds)

LEMMA ExecOfNone == ExecOf(<<>>) = Unmuted
<1>1. <<>> \in Seq({}) /\ Len(<<>>) = 0
  OBVIOUS
<1>2. PICK f : Folds(f, "doc", Unmuted, <<>>) /\ FoldLeft(ExecDoc, Unmuted, <<>>) = f[0]
  BY <1>1, FoldDoc
<1>3. QED
  BY <1>2 DEF Folds, ExecOf

LEMMA ExecOfAppend ==
  ASSUME NEW S, NEW ds \in Seq(S), NEW d \in S
  PROVE  ExecOf(Append(ds, d)) = ExecDoc(ExecOf(ds), d)
<1> DEFINE b == <<d>>
           s == ds \o b
<1>1. b \in Seq(S) /\ Len(b) = 1 /\ b[1] = d /\ Append(ds, d) = s
      /\ s \in Seq(S) /\ s = ds \o b
  OBVIOUS
<1> HIDE DEF b, s
<1>2. PICK fa : Folds(fa, "doc", Unmuted, ds) /\ FoldLeft(ExecDoc, Unmuted, ds) = fa[Len(ds)]
  BY FoldDoc
<1>3. PICK fb : Folds(fb, "doc", fa[Len(ds)], b)
                /\ FoldLeft(ExecDoc, fa[Len(ds)], b) = fb[Len(b)]
  BY <1>1, FoldDoc
<1>4. PICK f : Folds(f, "doc", Unmuted, s)
               /\ FoldLeft(ExecDoc, Unmuted, s) = f[Len(s)]
  BY <1>1, FoldDoc
<1>5. f[Len(s)] = fb[Len(b)]
  <2>1. Joined("doc", Unmuted, S, ds, b, s, f, fa, fb)
    BY <1>1, <1>2, <1>3, <1>4 DEF Joined
  <2>2. QED
    BY <2>1, FoldsConcat
<1>6. fb[1] = Step("doc", fb[1-1], b[1]) /\ fb[0] = fa[Len(ds)]
  BY <1>1, <1>3 DEF Folds
<1>7. fb[1] = ExecDoc(fa[Len(ds)], d)
  BY <1>1, <1>6 DEF Step
<1>8. QED
  BY <1>1, <1>2, <1>4, <1>5, <1>7 DEF ExecOf

-----------------------------------------------------------------------------
(* The text of a token and of its prefixes.                                  *)

\* All of the file up to n is emitted, and no more.
Emitted(m, n) == [mute |-> m, out |-> [i \in 1..n |-> i]]

\* Where the text behind the first i prefixes of t starts, and the text of t.
After(g, t, i) == IF i = Len(g.pfx[t]) THEN t ELSE Origin(g.pfx[t][i + 1])
Starts(g, t) == After(g, t, 0)

\* The prefixes of t cover the file up to t.
Covered(g, c, t) ==
    \A i \in DOMAIN g.pfx[t] : c[g.pfx[t][i]] + 1 = After(g, t, i)

LEMMA OriginPos ==
  ASSUME NEW p \in Id
  PROVE  Origin(p) \in Pos
BY MaxLenAssumption DEF Origin, Id, Pos

LEMMA AfterForward ==
  ASSUME NEW g, Parsed(g), NEW t \in ToSet(g.toks)
  PROVE  /\ g.pfx[t] \in Seq(Id) /\ Len(g.pfx[t]) \in Nat
         /\ \A i \in 0..Len(g.pfx[t]) :
                /\ After(g, t, i) \in Pos /\ After(g, t, i) <= t
                /\ \A u \in ToSet(g.toks) : u < t => u < After(g, t, i)
         /\ \A i \in 1..Len(g.pfx[t]) : After(g, t, i - 1) < After(g, t, i)
         /\ Starts(g, t) \in Pos /\ Starts(g, t) <= t
         /\ \A u \in ToSet(g.toks) : u < t => u < Starts(g, t)
<1> DEFINE s == g.pfx[t]
           n == Len(s)
<1>1. Core(g) /\ g \in Heap /\ InOrder(g) /\ Placed(s) /\ t \in Pos /\ t \in Id
  <2>1. Core(g) /\ g \in Heap /\ InOrder(g)
    BY DEF Parsed, Core
  <2>2. t \in Pos /\ t \in Id
    BY <2>1, ListFacts, NullOutside
  <2>3. QED
    BY <2>1, <2>2 DEF Parsed, InTurn
<1>2. s \in Seq(Id) /\ n \in Nat /\ DOMAIN s = 1..n
  <2>1. s \in Seq(Id)
    BY <1>1, HeapFields
  <2>2. QED
    BY <2>1
<1>3. ASSUME NEW i \in 1..n
      PROVE  s[i] \in Id /\ s[i] \in ToSet(s) /\ Origin(s[i]) \in Pos
  <2>1. s[i] \in Id /\ s[i] \in ToSet(s)
    BY <1>2, ElementsOf DEF ToSet
  <2>2. QED
    BY <2>1, OriginPos
<1> HIDE DEF n
<1>4. ASSUME NEW i \in 0..n
      PROVE  /\ After(g, t, i) \in Pos /\ After(g, t, i) <= t
             /\ \A u \in ToSet(g.toks) : u < t => u < After(g, t, i)
  <2>1. CASE i = n
    <3>1. After(g, t, i) = t
      BY <2>1 DEF After, n
    <3>2. QED
      BY <1>1, <3>1 DEF Pos
  <2>2. CASE i # n
    <3>1. i + 1 \in 1..n
      BY <1>2, <2>2
    <3>2. After(g, t, i) = Origin(s[i + 1])
      BY <2>2 DEF After, n
    <3>3. s[i + 1] \in ToSet(s) /\ Origin(s[i + 1]) \in Pos
      BY <1>3, <3>1
    <3>4. /\ Origin(s[i + 1]) < t
          /\ \A u \in ToSet(g.toks) : u < t => u < Origin(s[i + 1])
      BY <1>1, <3>3 DEF InOrder
    <3>5. Origin(s[i + 1]) <= t
      BY <1>1, <3>3, <3>4 DEF Pos
    <3>6. QED
      BY <3>2, <3>3, <3>4, <3>5
  <2>3. QED
    BY <2>1, <2>2
<1>5. ASSUME NEW i \in 1..n
      PROVE  After(g, t, i - 1) < After(g, t, i)
  <2>1. i - 1 \in 0..n /\ i - 1 # n /\ i - 1 + 1 = i
    BY <1>2
  <2>2. After(g, t, i - 1) = Origin(s[i])
    BY <2>1 DEF After, n
  <2>3. CASE i = n
    <3>1. After(g, t, i) = t /\ Origin(s[i]) < t
      BY <1>1, <1>3, <2>3 DEF After, InOrder, n
    <3>2. QED
      BY <2>2, <3>1
  <2>4. CASE i # n
    <3>1. i + 1 \in 1..n /\ i < i + 1
      BY <1>2, <2>4
    <3>2. After(g, t, i) = Origin(s[i + 1])
      BY <2>4 DEF After, n
    <3>3. Origin(s[i]) < Origin(s[i + 1])
      BY <1>1, <1>2, <3>1 DEF Placed
    <3>4. QED
      BY <2>2, <3>2, <3>3
  <2>5. QED
    BY <2>3, <2>4
<1>6. 0 \in 0..n
  BY <1>2
<1>7. QED
  BY <1>2, <1>4, <1>5, <1>6 DEF Starts, n

LEMMA ExecText ==
  ASSUME NEW n \in Nat, NEW hi \in Nat, n <= hi
  PROVE  ExecItem(Emitted(0, n), <<n + 1, hi>>) = Emitted(0, hi)
<1> DEFINE a == [i \in 1..n |-> i]
           b == [i \in 1..(hi - (n + 1) + 1) |-> n + 1 + i - 1]
           c == [i \in 1..hi |-> i]
<1>1. a \o b = c
  <2>1. /\ a \in Seq(Int) /\ Len(a) = n /\ DOMAIN a = 1..n /\ \A i \in 1..n : a[i] = i
    OBVIOUS
  <2>2. hi - (n + 1) + 1 = hi - n /\ hi - n \in Nat
    OBVIOUS
  <2>3. /\ b \in Seq(Int) /\ Len(b) = hi - n /\ DOMAIN b = 1..(hi - n)
        /\ \A i \in 1..(hi - n) : b[i] = n + i
    BY <2>2
  <2>4. /\ c \in Seq(Int) /\ Len(c) = hi /\ \A i \in 1..hi : c[i] = i
    OBVIOUS
  <2> HIDE DEF a, b, c
  <2>5. a \o b \in Seq(Int) /\ Len(a \o b) = hi
    BY <2>1, <2>2, <2>3
  <2>6. \A i \in 1..hi : (a \o b)[i] = i
    <3> SUFFICES ASSUME NEW i \in 1..hi
                 PROVE  (a \o b)[i] = i
      OBVIOUS
    <3>1. CASE i <= n
      BY <2>1, <2>2, <2>3, <3>1
    <3>2. CASE n < i
      <4>1. i - n \in 1..(hi - n) /\ n + (i - n) = i
        BY <3>2
      <4>2. (a \o b)[i] = b[i - n]
        BY <2>1, <2>2, <2>3, <3>2
      <4>3. QED
        BY <2>3, <4>1, <4>2
    <3>3. i <= n \/ n < i
      OBVIOUS
    <3> HIDE DEF a, b
    <3>4. QED
      BY <3>1, <3>2, <3>3
  <2> DEFINE r == a \o b
  <2>7. r \in [1..hi -> Int] /\ c \in [1..hi -> Int]
    <3>1. r \in Seq(Int) /\ Len(r) = hi
      BY <2>5
    <3> HIDE DEF r
    <3>2. r \in [1..hi -> Int]
      BY <3>1
    <3>3. QED
      BY <2>4, <3>2
  <2>8. \A i \in 1..hi : r[i] = c[i]
    BY <2>4, <2>6
  <2> HIDE DEF r
  <2>9. r = c
    BY <2>7, <2>8
  <2>10. QED
    BY <2>9 DEF r
<1> DEFINE x == <<n + 1, hi>>
           e == Emitted(0, n)
<1>2. x[1] = n + 1 /\ x[2] = hi /\ n + 1 # 0
  OBVIOUS
<1>3. e.mute = 0 /\ e.out = a /\ e = [mute |-> 0, out |-> a]
  BY DEF Emitted
<1>4. ExecItem(e, x) = [e EXCEPT !.out = e.out \o b]
  BY <1>2, <1>3 DEF ExecItem
<1> HIDE DEF a, b, c
<1> HIDE DEF x
<1>5. [e EXCEPT !.out = e.out \o b] = [mute |-> 0, out |-> c]
  <2>1. e.out \o b = c
    BY <1>1, <1>3
  <2>2. [e EXCEPT !.out = c] = [mute |-> 0, out |-> c]
    <3> HIDE DEF e
    <3>1. QED
      BY <1>3
  <2>3. QED
    BY <2>1, <2>2
<1>6. QED
  BY <1>4, <1>5 DEF Emitted, c, x

\* Nothing is emitted while muted.
LEMMA ExecTextMuted ==
  ASSUME NEW n, NEW first, NEW last, first # 0
  PROVE  ExecItem(Emitted(1, n), <<first, last>>) = Emitted(1, n)
<1>1. Emitted(1, n).mute # 0
  BY DEF Emitted
<1>2. QED
  BY <1>1 DEF ExecItem

LEMMA ExecMute ==
  ASSUME NEW n
  PROVE  /\ ExecItem(Emitted(0, n), Mute(1)) = Emitted(1, n)
         /\ ExecItem(Emitted(1, n), Mute(-1)) = Emitted(0, n)
         /\ ExecItem(Emitted(0, n), Mute(-1)) = Emitted(0, n)
<1>1. /\ Mute(1)[1] = 0 /\ Mute(1)[2] = 1 /\ Mute(-1)[1] = 0 /\ Mute(-1)[2] = -1
  BY DEF Mute
<1>2. Emitted(0, n).mute = 0 /\ Emitted(1, n).mute = 1
  BY DEF Emitted
<1>3. ExecItem(Emitted(0, n), Mute(1)) = [Emitted(0, n) EXCEPT !.mute = 0 + 1]
  BY <1>1, <1>2 DEF ExecItem
<1>4. ExecItem(Emitted(1, n), Mute(-1)) = [Emitted(1, n) EXCEPT !.mute = 1 + (-1)]
  BY <1>1, <1>2 DEF ExecItem
<1>5. ExecItem(Emitted(0, n), Mute(-1)) = Emitted(0, n)
  BY <1>1, <1>2 DEF ExecItem
<1>6. QED
  BY <1>3, <1>4, <1>5 DEF Emitted

Text(p) == <<Origin(p), cover[p]>>
PrefixItems(t) == [i \in DOMAIN h.pfx[t] |-> Text(h.pfx[t][i])]

LEMMA PrefixItemsAre ==
  ASSUME Parsed(h), cover \in [Id -> Int], NEW t \in ToSet(h.toks)
  PROVE  /\ PrefixItems(t) \in Seq(Item) /\ Len(PrefixItems(t)) = Len(h.pfx[t])
         /\ Len(h.pfx[t]) \in Nat
         /\ \A i \in 1..Len(h.pfx[t]) : PrefixItems(t)[i] = Text(h.pfx[t][i])
                                        /\ h.pfx[t][i] \in Id
<1> DEFINE s == h.pfx[t]
<1>1. s \in Seq(Id)
  BY AfterForward
<1>2. DOMAIN s = 1..Len(s) /\ Len(s) \in Nat /\ \A i \in 1..Len(s) : s[i] \in Id
  BY <1>1, ElementsOf
<1>3. \A i \in 1..Len(s) : Text(s[i]) \in Item
  <2> SUFFICES ASSUME NEW i \in 1..Len(s)
               PROVE  Text(s[i]) \in Item
    OBVIOUS
  <2>1. Origin(s[i]) \in Int /\ cover[s[i]] \in Int
    BY <1>2, OriginType
  <2>2. QED
    BY <2>1 DEF Text, Item
<1> HIDE DEF s
<1>4. PrefixItems(t) = [i \in 1..Len(s) |-> Text(s[i])]
  BY <1>2 DEF PrefixItems, s
<1> HIDE DEF Item
<1>5. [i \in 1..Len(s) |-> Text(s[i])] \in Seq(Item)
  BY <1>2, <1>3
<1>6. QED
  BY <1>2, <1>4, <1>5 DEF s

\* The prefixes of a token and nothing else, if emission is not muted.
LEMMA PrefixesShown ==
  ASSUME Parsed(h), cover \in [Id -> Int], NEW t \in ToSet(h.toks), Covered(h, cover, t)
  PROVE  ExecDoc(Emitted(0, Starts(h, t) - 1), PrefixItems(t)) = Emitted(0, t - 1)
<1> DEFINE n == Len(h.pfx[t])
           s == PrefixItems(t)
           g == Emitted(0, Starts(h, t) - 1)
<1>1. /\ s \in Seq(Item) /\ Len(s) = n /\ n \in Nat
      /\ \A i \in 1..n : s[i] = <<Origin(h.pfx[t][i]), cover[h.pfx[t][i]]>>
                         /\ h.pfx[t][i] \in Id
  BY PrefixItemsAre DEF Text
<1>2. /\ \A i \in 0..n : After(h, t, i) \in Pos
      /\ \A i \in 1..n : After(h, t, i - 1) < After(h, t, i)
      /\ h.pfx[t] \in Seq(Id)
  BY AfterForward
<1>3. PICK f : Folds(f, "item", g, s) /\ FoldLeft(ExecItem, g, s) = f[Len(s)]
  BY <1>1, FoldItem
<1>4. f[0] = g /\ \A i \in 1..n : f[i] = ExecItem(f[i-1], s[i])
  BY <1>1, <1>3 DEF Folds, Step
<1> HIDE DEF n
<1> DEFINE I == {i \in 0..n : f[i] = Emitted(0, After(h, t, i) - 1)}
<1>5. 0 \in I
  BY <1>1, <1>4 DEF Starts
<1>6. ASSUME NEW i \in 0..n-1, i \in I
      PROVE  i + 1 \in I
  <2> DEFINE j == i + 1
             a == After(h, t, i) - 1
             b == After(h, t, j) - 1
  <2>1. j \in 1..n /\ j - 1 = i /\ j \in 0..n /\ i \in 0..n /\ i # n
    BY <1>1
  <2>2. a \in Nat /\ b \in Nat /\ a <= b
    <3> HIDE DEF j
    <3>1. After(h, t, i) \in Pos /\ After(h, t, j) \in Pos /\ After(h, t, j - 1) < After(h, t, j)
      BY <1>2, <2>1
    <3>2. After(h, t, i) < After(h, t, j)
      BY <2>1, <3>1
    <3>3. QED
      BY <3>1, <3>2 DEF Pos
  <2>3. s[j] = <<a + 1, b>>
    <3>1. After(h, t, i) = Origin(h.pfx[t][j])
      BY <2>1 DEF After, n
    <3>2. cover[h.pfx[t][j]] + 1 = After(h, t, j)
      <4>1. j \in DOMAIN h.pfx[t]
        <5>1. DOMAIN h.pfx[t] = 1..n
          BY <1>2 DEF n
        <5>2. QED
          BY <2>1, <5>1
      <4>2. QED
        BY <4>1 DEF Covered
    <3> HIDE DEF j
    <3>3. /\ s[j] = <<Origin(h.pfx[t][j]), cover[h.pfx[t][j]]>> /\ h.pfx[t][j] \in Id
      BY <1>1, <2>1
    <3>4. cover[h.pfx[t][j]] \in Int /\ After(h, t, j) \in Int /\ After(h, t, i) \in Int
      BY <1>2, <2>1, <3>3 DEF Pos
    <3>5. cover[h.pfx[t][j]] = b /\ Origin(h.pfx[t][j]) = a + 1
      BY <3>1, <3>2, <3>4
    <3>6. QED
      BY <3>3, <3>5
  <2>4. f[j] = ExecItem(Emitted(0, a), s[j])
    <3>1. f[i] = Emitted(0, a)
      BY <1>6
    <3> HIDE DEF j, a
    <3>2. f[j] = ExecItem(f[j - 1], s[j])
      BY <1>4, <2>1
    <3>3. QED
      BY <2>1, <3>1, <3>2
  <2>5. f[j] = Emitted(0, b)
    <3> HIDE DEF a, b, j
    <3>1. QED
      BY <2>2, <2>3, <2>4, ExecText
  <2>6. QED
    BY <2>1, <2>5
<1> HIDE DEF I
<1>7. 0..n \subseteq I
  BY <1>1, <1>5, <1>6, UpTo
<1>8. n \in I
  BY <1>1, <1>7
<1>9. After(h, t, n) = t
  BY DEF After, n
<1>10. QED
  BY <1>1, <1>3, <1>8, <1>9 DEF I, ExecDoc

LEMMA PrefixesHidden ==
  ASSUME Parsed(h), cover \in [Id -> Int], NEW t \in ToSet(h.toks), NEW m
  PROVE  ExecDoc(Emitted(1, m), PrefixItems(t)) = Emitted(1, m)
<1> DEFINE n == Len(h.pfx[t])
           s == PrefixItems(t)
           g == Emitted(1, m)
<1>1. /\ s \in Seq(Item) /\ Len(s) = n /\ n \in Nat
      /\ \A i \in 1..n : s[i] = <<Origin(h.pfx[t][i]), cover[h.pfx[t][i]]>>
                         /\ h.pfx[t][i] \in Id
  BY PrefixItemsAre DEF Text
<1>2. PICK f : Folds(f, "item", g, s) /\ FoldLeft(ExecItem, g, s) = f[Len(s)]
  BY <1>1, FoldItem
<1>3. f[0] = g /\ \A i \in 1..n : f[i] = ExecItem(f[i-1], s[i])
  BY <1>1, <1>2 DEF Folds, Step
<1> HIDE DEF n, g, s
<1> DEFINE I == {i \in 0..n : f[i] = g}
<1>4. 0 \in I
  BY <1>1, <1>3
<1>5. ASSUME NEW i \in 0..n-1, i \in I
      PROVE  i + 1 \in I
  <2> DEFINE j == i + 1
  <2>1. j \in 1..n /\ j - 1 = i /\ j \in 0..n
    BY <1>1
  <2> HIDE DEF j
  <2>2. f[j] = ExecItem(f[j - 1], s[j]) /\ h.pfx[t][j] \in Id
        /\ s[j] = <<Origin(h.pfx[t][j]), cover[h.pfx[t][j]]>>
    BY <1>1, <1>3, <2>1
  <2>3. Origin(h.pfx[t][j]) # 0
    BY <2>2, OriginPos DEF Pos
  <2>4. f[j] = ExecItem(g, s[j])
    BY <1>5, <2>1, <2>2
  <2>5. f[j] = g
    BY <2>2, <2>3, <2>4, ExecTextMuted DEF g
  <2>6. QED
    BY <2>1, <2>5 DEF j
<1> HIDE DEF I
<1>6. 0..n \subseteq I
  BY <1>1, <1>4, <1>5, UpTo
<1>7. n \in I
  BY <1>1, <1>6
<1>8. QED
  BY <1>1, <1>2, <1>7 DEF I, ExecDoc, s, g

UnmuteItems(t) == IF t = unmute THEN <<Mute(-1)>> ELSE <<>>
MuteItems(t) == IF TokenNext(h, t) \in h.flag THEN <<Mute(1)>> ELSE <<>>

LEMMA DocTokenItems ==
  ASSUME Parsed(h), cover \in [Id -> Int], NEW t \in ToSet(h.toks), NEW g
  PROVE  ExecDoc(g, DocToken(t)) =
             ExecDoc(ExecItem(ExecDoc(ExecDoc(g, UnmuteItems(t)), PrefixItems(t)), Text(t)),
                     MuteItems(t))
<1> DEFINE a == UnmuteItems(t)
           b == PrefixItems(t)
           c == <<Text(t)>>
           d == MuteItems(t)
<1>1. b \in Seq(Item)
  BY PrefixItemsAre
<1>2. a \in Seq(Item) /\ d \in Seq(Item)
  <2>1. Mute(-1) \in Item /\ Mute(1) \in Item
    BY DEF Mute, Item
  <2> HIDE DEF Item
  <2>2. <<Mute(-1)>> \in Seq(Item) /\ <<Mute(1)>> \in Seq(Item) /\ <<>> \in Seq(Item)
    BY <2>1
  <2>3. QED
    BY <2>2 DEF UnmuteItems, MuteItems
<1>3. c \in Seq(Item)
  <2>1. t \in Id
    BY ListFacts, NullOutside DEF Parsed
  <2>2. Origin(t) \in Int /\ cover[t] \in Int
    BY <2>1, OriginType
  <2>3. Text(t) \in Item
    BY <2>2 DEF Text, Item
  <2> HIDE DEF Item
  <2>4. QED
    BY <2>3
<1>4. DocToken(t) = ((a \o b) \o c) \o d
  <2>1. Null \notin h.flag
    BY NullOutside DEF Parsed, Core, Heap
  <2>2. QED
    BY <2>1 DEF DocToken, UnmuteItems, PrefixItems, MuteItems, Text, Origin
<1>5. ExecDoc(g, <<Text(t)>>) = ExecItem(g, Text(t))
  BY ExecOne
<1> HIDE DEF a, b, c, d
<1>6. a \o b \in Seq(Item) /\ (a \o b) \o c \in Seq(Item)
  BY <1>1, <1>2, <1>3
<1>7. ExecDoc(g, a \o b) = ExecDoc(ExecDoc(g, a), b)
  BY <1>1, <1>2, ExecConcat
<1> DEFINE ab == a \o b
           abc == ab \o c
<1>13. ab \in Seq(Item) /\ abc \in Seq(Item)
  BY <1>6
<1> HIDE DEF ab
<1>8. ExecDoc(g, abc) = ExecDoc(ExecDoc(g, ab), c)
  BY <1>3, <1>13, ExecConcat
<1> HIDE DEF abc
<1>9. ExecDoc(g, abc \o d) = ExecDoc(ExecDoc(g, abc), d)
  BY <1>2, <1>13, ExecConcat
<1>10. ExecDoc(ExecDoc(g, ab), c) = ExecItem(ExecDoc(g, ab), Text(t))
  BY ExecOne DEF c
<1>11. ExecDoc(g, DocToken(t)) =
           ExecDoc(ExecItem(ExecDoc(ExecDoc(g, a), b), Text(t)), d)
  BY <1>4, <1>7, <1>8, <1>9, <1>10 DEF ab, abc
<1>12. QED
  BY <1>11 DEF a, b, d

LEMMA TokenShown ==
  ASSUME Parsed(h), cover \in [Id -> Int], NEW t \in ToSet(h.toks),
         Covered(h, cover, t), cover[t] = t,
         NEW m, m = 0 \/ (m = 1 /\ t = unmute)
  PROVE  ExecDoc(Emitted(m, Starts(h, t) - 1), DocToken(t)) =
             Emitted(IF TokenNext(h, t) \in h.flag THEN 1 ELSE 0, t)
<1> DEFINE n == Starts(h, t) - 1
<1>1. t \in Pos /\ t - 1 \in Nat /\ t \in Nat /\ Origin(t) = t /\ t - 1 + 1 = t /\ t - 1 <= t
  <2>1. t \in Pos /\ t \in Id
    BY ListFacts, NullOutside DEF Parsed
  <2>2. QED
    BY <2>1, OriginType DEF Pos
<1>2. ExecDoc(Emitted(m, n), UnmuteItems(t)) = Emitted(0, n)
  <2>1. CASE t = unmute
    <3>1. UnmuteItems(t) = <<Mute(-1)>>
      BY <2>1 DEF UnmuteItems
    <3>2. ExecItem(Emitted(m, n), Mute(-1)) = Emitted(0, n)
      BY ExecMute
    <3>3. QED
      BY <3>1, <3>2, ExecOne
  <2>2. CASE t # unmute
    BY <2>2, ExecNone DEF UnmuteItems
  <2>3. QED
    BY <2>1, <2>2
<1>3. ExecDoc(Emitted(0, n), PrefixItems(t)) = Emitted(0, t - 1)
  BY PrefixesShown
<1>4. ExecItem(Emitted(0, t - 1), Text(t)) = Emitted(0, t)
  <2>1. Text(t) = <<t - 1 + 1, t>>
    BY <1>1 DEF Text
  <2>2. QED
    BY <1>1, <2>1, ExecText
<1>5. ExecDoc(Emitted(0, t), MuteItems(t)) =
          Emitted(IF TokenNext(h, t) \in h.flag THEN 1 ELSE 0, t)
  <2>1. CASE TokenNext(h, t) \in h.flag
    <3>1. MuteItems(t) = <<Mute(1)>>
      BY <2>1 DEF MuteItems
    <3>2. QED
      BY <2>1, <3>1, ExecOne, ExecMute
  <2>2. CASE TokenNext(h, t) \notin h.flag
    BY <2>2, ExecNone DEF MuteItems
  <2>3. QED
    BY <2>1, <2>2
<1> HIDE DEF n
<1>6. QED
  BY <1>2, <1>3, <1>4, <1>5, DocTokenItems DEF n

LEMMA TokenHidden ==
  ASSUME Parsed(h), cover \in [Id -> Int], NEW t \in ToSet(h.toks),
         t # unmute, TokenNext(h, t) \notin h.flag, NEW n
  PROVE  ExecDoc(Emitted(1, n), DocToken(t)) = Emitted(1, n)
<1>1. t \in Id
  BY ListFacts, NullOutside DEF Parsed
<1>2. ExecDoc(Emitted(1, n), UnmuteItems(t)) = Emitted(1, n)
  BY ExecNone DEF UnmuteItems
<1>3. ExecDoc(Emitted(1, n), PrefixItems(t)) = Emitted(1, n)
  BY PrefixesHidden
<1>4. ExecItem(Emitted(1, n), Text(t)) = Emitted(1, n)
  <2>1. Origin(t) # 0
    BY <1>1, OriginPos DEF Pos
  <2>2. QED
    BY <2>1, ExecTextMuted DEF Text
<1>5. ExecDoc(Emitted(1, n), MuteItems(t)) = Emitted(1, n)
  BY ExecNone DEF MuteItems
<1>6. QED
  BY <1>2, <1>3, <1>4, <1>5, DocTokenItems

LEMMA SameItems ==
  ASSUME NEW S, NEW r \in Seq(S), NEW s \in Seq(S), Len(r) = Len(s),
         \A i \in 1..Len(s) : r[i] = s[i]
  PROVE  r = s
<1>1. r \in [1..Len(s) -> S] /\ s \in [1..Len(s) -> S]
  OBVIOUS
<1>2. QED
  BY <1>1

\* The last document grows by what a token adds to it.
LEMMA ExecEmit ==
  ASSUME LInv, docs # <<>>, Parsed(h), NEW t \in Id
  PROVE  /\ Exec = ExecOf(docs)
         /\ ExecOf(EmitInto(docs, t)) = ExecDoc(Exec, DocToken(t))
         /\ Len(EmitInto(docs, t)) = Len(docs)
         /\ \A k \in 0..Len(docs)-1 : SubSeq(EmitInto(docs, t), 1, k) = SubSeq(docs, 1, k)
<1> DEFINE S == Seq(Item)
           n == Len(docs)
           d == docs[n]
           e == d \o DocToken(t)
           front == SubSeq(docs, 1, n - 1)
           ds == EmitInto(docs, t)
<1>1. docs \in Seq(S) /\ DocToken(t) \in S /\ n \in Nat \ {0} /\ DOMAIN docs = 1..n
  BY DocTokenType DEF LInv
<1>2. d \in S /\ e \in S
  BY <1>1, ElementsOf
<1>3. front \in Seq(S) /\ Len(front) = n - 1 /\ \A i \in 1..n-1 : front[i] = docs[i]
  BY <1>1
<1>4. ds = [docs EXCEPT ![n] = e]
  BY DEF EmitInto
<1> HIDE DEF S, e, ds, front
<1>5. ds \in Seq(S) /\ Len(ds) = n /\ ds[n] = e /\ \A i \in 1..n-1 : ds[i] = docs[i]
  <2>1. ds \in Seq(S)
    BY <1>1, <1>2, <1>4, EmitType
  <2>2. docs \in [1..n -> S] /\ n \in 1..n
    BY <1>1
  <2>3. /\ ds \in [1..n -> S] /\ ds[n] = e /\ \A i \in 1..n-1 : ds[i] = docs[i]
    <3> HIDE DEF n
    <3>1. \A i \in 1..n-1 : i \in 1..n /\ i # n
      BY <1>1
    <3>2. QED
      BY <1>2, <1>4, <2>2, <3>1
  <2>4. Len(ds) = n
    <3>1. DOMAIN ds = 1..n
      BY <2>3
    <3> HIDE DEF n
    <3>2. QED
      BY <1>1, <2>1, <3>1
  <2>5. QED
    BY <2>1, <2>3, <2>4
<1> HIDE DEF n, d
<1>6. Append(front, d) = docs
  <2>1. Append(front, d) \in Seq(S) /\ Len(Append(front, d)) = n
    BY <1>1, <1>2, <1>3
  <2>2. \A i \in 1..n : Append(front, d)[i] = docs[i]
    BY <1>1, <1>3 DEF d
  <2>3. QED
    BY <1>1, <2>1, <2>2, SameItems DEF n
<1>7. Append(front, e) = ds
  <2>1. Append(front, e) \in Seq(S) /\ Len(Append(front, e)) = n
    BY <1>1, <1>2, <1>3
  <2>2. \A i \in 1..n : Append(front, e)[i] = ds[i]
    BY <1>1, <1>3, <1>5
  <2>3. QED
    BY <1>5, <2>1, <2>2, SameItems
<1>8. ExecOf(docs) = ExecDoc(ExecOf(front), d) /\ ExecOf(ds) = ExecDoc(ExecOf(front), e)
  BY <1>2, <1>3, <1>6, <1>7, ExecOfAppend
<1>9. ExecDoc(ExecOf(front), e) = ExecDoc(ExecDoc(ExecOf(front), d), DocToken(t))
  BY <1>1, <1>2, ExecConcat DEF S, e
<1>10. Exec = ExecOf(docs)
  BY DEF Exec, ExecOf, Unmuted
<1>11. ASSUME NEW k \in 0..n-1
       PROVE  SubSeq(ds, 1, k) = SubSeq(docs, 1, k)
  <2> DEFINE a == SubSeq(ds, 1, k)
             b == SubSeq(docs, 1, k)
  <2>1. k <= n /\ k \in Nat /\ \A i \in 1..k : i \in 1..n-1
    BY <1>1
  <2>2. /\ a \in Seq(S) /\ Len(a) = k /\ \A i \in 1..k : a[i] = ds[i]
        /\ b \in Seq(S) /\ Len(b) = k /\ \A i \in 1..k : b[i] = docs[i]
    BY <1>1, <1>5, <2>1 DEF n
  <2>3. \A i \in 1..k : ds[i] = docs[i]
    BY <1>5, <2>1
  <2> HIDE DEF a, b
  <2>4. a = b
    BY <2>2, <2>3, SameItems
  <2>5. QED
    BY <2>4 DEF a, b
<1>12. QED
  BY <1>5, <1>8, <1>9, <1>10, <1>11 DEF ds, n

-----------------------------------------------------------------------------
(* Where the text of a token starts, next to the token before it.            *)

Follows(g, t) == Starts(g, t) - 1 \in ToSet(g.toks) \cup {Null}

LEMMA TokenFacts ==
  ASSUME NEW g, Parsed(g)
  PROVE  /\ Core(g) /\ g \in Heap /\ ToSet(g.toks) \subseteq Pos /\ ToSet(g.toks) \subseteq Id
         /\ Null \notin ToSet(g.toks) /\ ToSet(g.toks) \subseteq Nat
         /\ g.flag \subseteq ToSet(g.toks) /\ Null \notin g.flag
<1>1. Core(g) /\ g \in Heap /\ ToSet(g.toks) \subseteq Pos
  BY ListFacts DEF Parsed, Core
<1>2. g.flag \subseteq ToSet(g.toks)
  BY <1>1, FlagsInList
<1>3. ToSet(g.toks) \subseteq Nat /\ Null \notin ToSet(g.toks)
  BY <1>1 DEF Pos, Null
<1>4. ToSet(g.toks) \subseteq Id
  BY <1>1, NullOutside
<1>5. QED
  BY <1>1, <1>2, <1>3, <1>4

LEMMA HeadFirst ==
  ASSUME NEW g, Parsed(g)
  PROVE  /\ Head(g.toks) \in ToSet(g.toks)
         /\ \A v \in ToSet(g.toks) : Head(g.toks) <= v
<1>1. g.toks \in Seq(Id) /\ g.toks # <<>> /\ Sorted(g.toks)
  BY ListFacts DEF Parsed
<1>2. /\ 1 \in DOMAIN g.toks /\ Head(g.toks) = g.toks[1]
      /\ \A j \in DOMAIN g.toks : j = 1 \/ 1 < j
  BY <1>1
<1>3. \A j \in DOMAIN g.toks : g.toks[j] \in Nat
  BY TokenFacts DEF ToSet
<1>4. \A j \in DOMAIN g.toks : g.toks[1] <= g.toks[j]
  BY <1>1, <1>2, <1>3 DEF Sorted
<1>5. QED
  BY <1>2, <1>4 DEF ToSet

LEMMA NextFirst ==
  ASSUME NEW g, Parsed(g), NEW t \in ToSet(g.toks), g.kind[t] # "eof"
  PROVE  /\ TokenNext(g, t) \in ToSet(g.toks) /\ t < TokenNext(g, t)
         /\ \A v \in ToSet(g.toks) : t < v => TokenNext(g, t) <= v
<1>1. Core(g) /\ t # Last(g.toks)
  BY DEF Parsed, Core, TokensOK
<1>2. /\ g.toks \in Seq(Id) /\ Sorted(g.toks) /\ DOMAIN g.toks = 1..Len(g.toks)
      /\ Len(g.toks) \in Nat
  BY <1>1, ListFacts
<1> DEFINE i == Index(g, t)
<1>3. /\ i \in 1..Len(g.toks) - 1 /\ g.toks[i] = t /\ TokenNext(g, t) = g.toks[i + 1]
      /\ TokenNext(g, t) \in ToSet(g.toks)
  BY <1>1, NextToken
<1> HIDE DEF i
<1>4. \A j \in DOMAIN g.toks : g.toks[j] \in Nat
  BY TokenFacts DEF ToSet
<1>5. i \in DOMAIN g.toks /\ i + 1 \in DOMAIN g.toks /\ i < i + 1
  BY <1>2, <1>3
<1>6. t < g.toks[i + 1]
  BY <1>2, <1>3, <1>5 DEF Sorted
<1>7. ASSUME NEW j \in DOMAIN g.toks, t < g.toks[j]
      PROVE  g.toks[i + 1] <= g.toks[j]
  <2>1. ~(j < i) /\ j # i
    <3>1. j < i => g.toks[j] < g.toks[i]
      BY <1>2, <1>5 DEF Sorted
    <3>2. g.toks[j] \in Nat /\ g.toks[i] \in Nat
      BY <1>4, <1>5
    <3>3. QED
      BY <1>3, <1>7, <3>1, <3>2
  <2>2. i + 1 = j \/ i + 1 < j
    BY <1>2, <1>5, <2>1
  <2>3. i + 1 < j => g.toks[i + 1] < g.toks[j]
    BY <1>2, <1>5 DEF Sorted
  <2>4. g.toks[i + 1] \in Nat /\ g.toks[j] \in Nat
    BY <1>4, <1>5
  <2>5. QED
    BY <2>2, <2>3, <2>4
<1>8. QED
  BY <1>3, <1>6, <1>7 DEF ToSet

LEMMA NextStarts ==
  ASSUME NEW g, Parsed(g), NEW t \in ToSet(g.toks), g.kind[t] # "eof",
         Follows(g, TokenNext(g, t))
  PROVE  Starts(g, TokenNext(g, t)) = t + 1
<1> DEFINE u == TokenNext(g, t)
           v == Starts(g, u) - 1
<1>1. u \in ToSet(g.toks) /\ t < u /\ \A w \in ToSet(g.toks) : t < w => u <= w
  BY NextFirst
<1> HIDE DEF u
<1>2. /\ Starts(g, u) \in Pos /\ Starts(g, u) <= u /\ t < Starts(g, u)
      /\ t \in Pos /\ u \in Pos
  BY <1>1, TokenFacts, AfterForward
<1>3. v \in Nat /\ t <= v /\ v < u /\ t \in Nat /\ t # 0 /\ u \in Nat
  BY <1>2 DEF Pos
<1>4. v \in ToSet(g.toks)
  <2>1. v # 0
    BY <1>3
  <2>2. QED
    BY <2>1 DEF Follows, Null, u
<1>5. ~(t < v)
  <2>1. t < v => u <= v
    BY <1>1, <1>4
  <2> HIDE DEF v
  <2>2. QED
    BY <1>3, <2>1
<1>6. v = t
  <2> HIDE DEF v
  <2>1. QED
    BY <1>3, <1>5
<1>7. QED
  BY <1>2, <1>6 DEF u, Pos

LEMMA HeadStarts ==
  ASSUME NEW g, Parsed(g), Follows(g, Head(g.toks))
  PROVE  Starts(g, Head(g.toks)) = 1
<1> DEFINE u == Head(g.toks)
           v == Starts(g, u) - 1
<1>1. u \in ToSet(g.toks) /\ \A w \in ToSet(g.toks) : u <= w
  BY HeadFirst
<1> HIDE DEF u
<1>2. Starts(g, u) \in Pos /\ Starts(g, u) <= u /\ u \in Pos
  BY <1>1, TokenFacts, AfterForward
<1>3. v \in Nat /\ v < u /\ u \in Nat
  BY <1>2 DEF Pos
<1>4. v \notin ToSet(g.toks)
  <2>1. v \in ToSet(g.toks) => u <= v
    BY <1>1
  <2> HIDE DEF v
  <2>2. QED
    BY <1>3, <2>1
<1>5. v = 0
  BY <1>4 DEF Follows, Null, u
<1>6. QED
  BY <1>2, <1>5 DEF u, Pos

\* The lexer never halts at the first token.
LEMMA HeadUnflagged ==
  ASSUME NEW g, Parsed(g)
  PROVE  Head(g.toks) \notin g.flag
<1> DEFINE t == Head(g.toks)
<1> SUFFICES ASSUME t \in g.flag
             PROVE  FALSE
  OBVIOUS
<1>1. t \in ToSet(g.toks) /\ \A w \in ToSet(g.toks) : t <= w
  BY HeadFirst
<1> HIDE DEF t
<1>2. t \in Id /\ HasBranch(g, t) /\ Core(g)
  <2>1. t \in Id /\ Core(g)
    BY <1>1, TokenFacts
  <2>2. QED
    BY <2>1 DEF Core, AllSettled, Settled
<1> DEFINE c == BranchFind(g, t)
<1>3. c \in Id /\ g.nx[c] # Null /\ g.par[g.nx[c]] = t /\ g.par[c] # t
  BY <1>2, BranchFound
<1> HIDE DEF c
<1>4. g.par[c] \in ToSet(g.toks) /\ g.par[c] <= t
  BY <1>3, LinkForward
<1>5. t <= g.par[c] /\ t \in Nat /\ g.par[c] \in Nat
  BY <1>1, <1>4, TokenFacts
<1>6. QED
  BY <1>3, <1>4, <1>5

-----------------------------------------------------------------------------
(* The alternatives left once the one emitted is removed.                    *)

Single(g) ==
    \A p, q \in Id : IsAlternative(g, p) /\ IsAlternative(g, q) /\ g.par[p] = g.par[q]
                     => p = q

\* No alternative starts in R, and those starting at dst come from R.
From(g, R, dst) ==
    /\ Core(g) /\ Single(g)
    /\ \A t \in R : t \notin g.flag
    /\ \A q \in Id : IsAlternative(g, q) /\ g.par[q] = dst => g.par[g.pv[q]] \in R

\* The alternatives of k are alternatives of g.
FewerAlternatives(g, k) ==
    \A q \in Id : IsAlternative(k, q) =>
        IsAlternative(g, q) /\ k.par[q] = g.par[q] /\ k.par[k.pv[q]] = g.par[g.pv[q]]

LEMMA FromFewer ==
  ASSUME NEW g, NEW k, NEW R, NEW dst, From(g, R, dst), FewerAlternatives(g, k),
         Core(k), k.flag \subseteq g.flag
  PROVE  From(k, R, dst)
<1>1. Single(k)
  BY DEF From, Single, FewerAlternatives
<1>2. QED
  BY <1>1 DEF From, FewerAlternatives

LEMMA AlternativeFlagged ==
  ASSUME NEW g, Core(g), NEW p \in Id, IsAlternative(g, p)
  PROVE  /\ g.par[p] \in g.flag /\ g.par[p] \in Id /\ p \in ToSet(g.pfx[g.par[p]])
         /\ g.pv[p] \in Id /\ g.nx[g.pv[p]] = p /\ g.pv[p] < p
         /\ g.par[g.pv[p]] # Null /\ g.par[p] # Null
<1>1. /\ g \in Heap /\ LinksInOrder(g) /\ ParentsHoldIn(g)
      /\ \A q \in Id : g.kind[q] \in BranchKinds <=> g.par[q] # Null
      /\ AllSettled(g)
  BY CoreFacts DEF Core
<1>2. g.kind[p] = "else" /\ g.pv[p] # Null
  BY DEF IsAlternative
<1>3. g.par[p] # Null
  BY <1>1, <1>2 DEF BranchKinds
<1>4. g.par[p] \in Id /\ p \in ToSet(g.pfx[g.par[p]]) /\ g.pv[p] \in Id
  BY <1>1, <1>2, <1>3, HeapFields DEF ParentsHoldIn
<1>5. g.par[p] \in g.flag
  BY <1>1, <1>4 DEF AllSettled, Settled, HasBranch
<1>6. g.nx[g.pv[p]] = p /\ g.pv[p] < p
  BY <1>1, <1>2 DEF LinksInOrder
<1>7. g.par[g.pv[p]] # Null
  <2>1. p # Null
    BY NullOutside
  <2>2. QED
    BY <1>1, <1>4, <1>6, <2>1 DEF LinksInOrder
<1>8. QED
  BY <1>3, <1>4, <1>5, <1>6, <1>7

LEMMA UnlinkWithin ==
  ASSUME NEW g, NEW R, NEW dst, From(g, R, dst), NEW p \in Id,
         g.par[p] # Null => g.par[p] \in R, NEW k, k = Unlink(g, p)
  PROVE  From(k, R, dst) /\ \A q \in Id : k.par[q] # Null => k.par[q] = g.par[q]
<1>1. Core(g) /\ g \in Heap /\ InShape(g)
  BY DEF From, Core
<1>2. Core(k) /\ k.flag \subseteq g.flag
  BY <1>1, UnlinkOne DEF Unlinked
<1>3. /\ \A q \in Id : k.par[q] # Null => k.par[q] = g.par[q]
      /\ \A q \in Id : k.kind[q] = "else" => g.kind[q] = "else"
      /\ \A q \in Id : k.pv[q] # Null =>
                \/ k.pv[q] = g.pv[q]
                \/ g.kind[p] = "else" /\ q = g.nx[p] /\ k.pv[q] = g.pv[p]
  BY <1>1, UnlinkNear
<1>4. ASSUME NEW q \in Id, IsAlternative(k, q)
      PROVE  /\ IsAlternative(g, q) /\ k.par[q] = g.par[q]
             /\ k.par[k.pv[q]] = g.par[g.pv[q]]
  <2>1. /\ k.pv[q] \in Id /\ k.par[q] # Null /\ k.par[k.pv[q]] # Null
        /\ k.kind[q] = "else" /\ k.pv[q] # Null /\ k.par[q] # k.par[k.pv[q]]
    BY <1>2, <1>4, AlternativeFlagged, NullOutside DEF IsAlternative
  <2>2. /\ g.kind[q] = "else" /\ k.par[q] = g.par[q] /\ k.par[k.pv[q]] = g.par[k.pv[q]]
    BY <1>3, <2>1
  <2>3. CASE k.pv[q] = g.pv[q]
    BY <2>1, <2>2, <2>3 DEF IsAlternative
  <2>4. CASE g.kind[p] = "else" /\ q = g.nx[p] /\ k.pv[q] = g.pv[p]
    <3>1. g.par[p] # Null /\ LinksInOrder(g)
      BY <1>1, <2>4, CoreFacts DEF BranchKinds
    <3>2. g.par[p] \notin g.flag
      BY <3>1 DEF From
    <3>3. ~IsAlternative(g, p)
      BY <1>1, <3>2, AlternativeFlagged
    <3>4. g.par[p] = g.par[g.pv[p]]
      BY <2>1, <2>4, <3>3 DEF IsAlternative
    <3>5. g.pv[q] = p
      <4>1. q # Null
        BY NullOutside
      <4>2. QED
        BY <2>4, <3>1, <4>1 DEF LinksInOrder
    <3>6. p # Null
      BY NullOutside
    <3>7. QED
      BY <2>1, <2>2, <2>4, <3>4, <3>5, <3>6 DEF IsAlternative
  <2>5. QED
    BY <1>3, <2>1, <2>3, <2>4
<1>5. FewerAlternatives(g, k)
  BY <1>4 DEF FewerAlternatives
<1>6. From(k, R, dst)
  BY <1>2, <1>5, FromFewer
<1>7. QED
  BY <1>3, <1>6

LEMMA UnlinkAllWithin ==
  ASSUME NEW g, NEW R, NEW dst, From(g, R, dst), NEW s \in Seq(Id),
         \A p \in ToSet(s) : g.par[p] # Null => g.par[p] \in R
  PROVE  From(FoldLeft(Unlink, g, s), R, dst)
<1>1. PICK f : Folds(f, "unlink", g, s) /\ FoldLeft(Unlink, g, s) = f[Len(s)]
  BY FoldUnlink
<1>2. Len(s) \in Nat /\ \A i \in 1..Len(s) : s[i] \in Id /\ s[i] \in ToSet(s)
  <2>1. Len(s) \in Nat /\ DOMAIN s = 1..Len(s) /\ \A i \in 1..Len(s) : s[i] \in Id
    OBVIOUS
  <2>2. QED
    BY <2>1 DEF ToSet
<1>3. f[0] = g /\ \A i \in 1..Len(s) : f[i] = Unlink(f[i-1], s[i])
  BY <1>1 DEF Folds, Step
<1> DEFINE kept(k) == \A q \in Id : k.par[q] # Null => k.par[q] = g.par[q]
           S == {i \in 0..Len(s) : From(f[i], R, dst) /\ kept(f[i])}
<1>4. 0 \in S
  BY <1>2, <1>3
<1>5. ASSUME NEW i \in 0..Len(s)-1, i \in S
      PROVE  i + 1 \in S
  <2> DEFINE j == i + 1
  <2>1. j \in 1..Len(s) /\ j \in 0..Len(s) /\ j - 1 = i
    BY <1>2
  <2> HIDE DEF j
  <2>2. f[j] = Unlink(f[i], s[j]) /\ s[j] \in Id /\ s[j] \in ToSet(s)
    BY <1>2, <1>3, <2>1
  <2>3. From(f[i], R, dst) /\ kept(f[i])
    BY <1>5
  <2>4. f[i].par[s[j]] # Null => f[i].par[s[j]] \in R
    BY <2>2, <2>3
  <2>5. From(f[j], R, dst) /\ \A q \in Id : f[j].par[q] # Null => f[j].par[q] = f[i].par[q]
    BY <2>2, <2>3, <2>4, UnlinkWithin
  <2>6. kept(f[j])
    BY <2>3, <2>5
  <2>7. QED
    BY <2>1, <2>5, <2>6 DEF j
<1> HIDE DEF S
<1>6. Len(s) \in S
  <2>1. 0..Len(s) \subseteq S
    BY <1>2, <1>4, <1>5, UpTo
  <2>2. QED
    BY <1>2, <2>1
<1>7. QED
  BY <1>1, <1>6 DEF S

LEMMA RemoveOneWithin ==
  ASSUME NEW g, NEW R, NEW dst, From(g, R, dst), NEW t \in Id, t \in R,
         t \in ToSet(g.toks), t # Last(g.toks)
  PROVE  From(RemoveWithPrefixes(g, t), R, dst)
<1> DEFINE free == FoldLeft(Unlink, g, g.pfx[t])
           bare == [free EXCEPT !.pfx[t] = <<>>]
           k == LexerRemove(bare, t)
<1>1. Core(g) /\ g \in Heap /\ g.pfx[t] \in Seq(Id)
  BY HeapFields DEF Core, From
<1>2. Unlinked(g, free, ToSet(g.pfx[t]))
  BY <1>1, UnlinkAll
<1>3. From(free, R, dst)
  <2>1. ParentExact(g)
    BY <1>1, CoreFacts
  <2>2. \A p \in ToSet(g.pfx[t]) : g.par[p] # Null => g.par[p] \in R
    BY <1>1, <2>1, ToSetType DEF ParentExact
  <2>3. QED
    BY <1>1, <2>2, UnlinkAllWithin
<1>4. RemoveWithPrefixes(g, t) = k
  BY DEF RemoveWithPrefixes, UnlinkPrefixes
<1> HIDE DEF free
<1>5. /\ Core(free) /\ free \in Heap /\ free.pfx = g.pfx /\ free.toks = g.toks
      /\ \A p \in ToSet(g.pfx[t]) : free.kind[p] \notin BranchKinds
  BY <1>2 DEF Unlinked, Core, SameLists
<1>6. ToSet(<<>>) = {} /\ <<>> \in Seq(Id)
  BY DEF ToSet
<1>7. /\ bare \in Heap /\ bare.kind = free.kind /\ bare.pv = free.pv /\ bare.nx = free.nx
      /\ bare.par = free.par /\ bare.refs = free.refs /\ bare.flag = free.flag
      /\ bare.toks = free.toks
      /\ bare.pfx[t] = <<>> /\ \A u \in Id \ {t} : bare.pfx[u] = free.pfx[u]
  BY <1>5, <1>6 DEF Heap
<1> HIDE DEF bare
<1>8. Core(bare)
  <2>1. Respelled(free, bare, t, Null)
    <3>1. ToSet(bare.pfx[t]) = {} /\ Null \notin Pos
      BY <1>6, <1>7, NullOutside
    <3>2. QED
      BY <1>5, <1>7, <3>1, NullOutside DEF Respelled
  <2>2. QED
    BY <1>5, <2>1, Respell
<1>9. /\ k.kind = bare.kind /\ k.pv = bare.pv /\ k.flag = bare.flag
      /\ \A v \in Id : k.par[v] = bare.par[v]
  BY <1>5, <1>7, <1>8, BareFields
<1>10. Core(k)
  BY <1>5, <1>7, <1>8, RemoveBare DEF RangeRemoved
<1> HIDE DEF k
<1>11. FewerAlternatives(free, k)
  <2> SUFFICES ASSUME NEW q \in Id, IsAlternative(k, q)
               PROVE  /\ IsAlternative(free, q) /\ k.par[q] = free.par[q]
                      /\ k.par[k.pv[q]] = free.par[free.pv[q]]
    BY DEF FewerAlternatives
  <2>1. k.pv[q] \in Id
    BY <1>10, AlternativeFlagged
  <2>2. QED
    BY <1>7, <1>9, <2>1 DEF IsAlternative
<1>12. From(k, R, dst)
  BY <1>3, <1>7, <1>9, <1>10, <1>11, FromFewer
<1>13. QED
  BY <1>4, <1>12

LEMMA RemoveAllWithin ==
  ASSUME NEW g, NEW dst, NEW s \in Seq(Id), From(g, ToSet(s), dst),
         Distinct(s), ToSet(s) \subseteq ToSet(g.toks), Last(g.toks) \notin ToSet(s)
  PROVE  From(FoldLeft(RemoveWithPrefixes, g, s), ToSet(s), dst)
<1>1. PICK f : /\ Folds(f, "remove", g, s)
               /\ FoldLeft(RemoveWithPrefixes, g, s) = f[Len(s)]
  BY FoldRemove
<1>2. /\ Len(s) \in Nat /\ \A i \in 1..Len(s) : s[i] \in Id
      /\ DOMAIN s = 1..Len(s)
  OBVIOUS
<1>3. f[0] = g /\ \A i \in 1..Len(s) : f[i] = RemoveWithPrefixes(f[i-1], s[i])
  BY <1>1 DEF Folds, Step
<1> DEFINE S == {i \in 0..Len(s) : /\ From(f[i], ToSet(s), dst)
                                   /\ Last(f[i].toks) = Last(g.toks)
                                   /\ ToSet(f[i].toks) = ToSet(g.toks) \ FirstOf(s, i)}
<1>4. 0 \in S
  BY <1>2, <1>3, FirstOfNext
<1>5. ASSUME NEW i \in 0..Len(s)-1, i \in S
      PROVE  i + 1 \in S
  <2>1. /\ i \in Nat /\ i + 1 \in 1..Len(s) /\ i + 1 \in 0..Len(s)
        /\ i + 1 - 1 = i
    BY <1>2
  <2>2. f[i + 1] = RemoveWithPrefixes(f[i], s[i + 1])
    BY <1>3, <2>1
  <2>3. /\ From(f[i], ToSet(s), dst) /\ Core(f[i]) /\ Last(f[i].toks) = Last(g.toks)
        /\ ToSet(f[i].toks) = ToSet(g.toks) \ FirstOf(s, i)
    BY <1>5 DEF From
  <2>4. s[i + 1] \in ToSet(s) /\ s[i + 1] \in Id /\ s[i + 1] \notin FirstOf(s, i)
    <3>1. s[i + 1] \in ToSet(s)
      BY <1>2, <2>1 DEF ToSet
    <3>2. \A j \in 1..i : j \in 1..Len(s) /\ j # i + 1
      BY <2>1
    <3>3. \A j \in 1..i : s[j] # s[i + 1]
      BY <1>2, <2>1, <3>2 DEF Distinct
    <3>4. QED
      BY <1>2, <2>1, <3>1, <3>3 DEF FirstOf
  <2>5. s[i + 1] \in ToSet(f[i].toks) /\ s[i + 1] # Last(f[i].toks)
    BY <2>3, <2>4
  <2>6. From(f[i + 1], ToSet(s), dst)
    BY <2>2, <2>3, <2>4, <2>5, RemoveOneWithin
  <2>7. /\ ToSet(f[i + 1].toks) = ToSet(f[i].toks) \ {s[i + 1]}
        /\ Last(f[i + 1].toks) = Last(f[i].toks)
    <3>1. RangeRemoved(f[i], f[i + 1], {s[i + 1]})
      BY <2>2, <2>3, <2>4, <2>5, RemoveOne
    <3>2. QED
      BY <3>1 DEF RangeRemoved
  <2>8. ToSet(f[i + 1].toks) = ToSet(g.toks) \ FirstOf(s, i + 1)
    BY <2>1, <2>3, <2>7, FirstOfNext
  <2>9. QED
    BY <2>1, <2>3, <2>6, <2>7, <2>8
<1> HIDE DEF S
<1>6. Len(s) \in S
  <2>1. 0..Len(s) \subseteq S
    BY <1>2, <1>4, <1>5, UpTo
  <2>2. QED
    BY <1>2, <2>1
<1>7. QED
  BY <1>1, <1>6 DEF S

\* What is left of g once the tokens of R are removed by clang_branch(): as it
\* was, emission being to resume at a token the lexer no longer halts at.
Taken(g, k, R, t) ==
    /\ Core(k) /\ Single(k) /\ OnlyBranches(g, k)
    /\ k.flag \subseteq g.flag /\ t \notin k.flag
    /\ ToSet(k.toks) = ToSet(g.toks) \ R
    /\ \A v \in Id : k.pfx[v] = IF v \in R THEN <<>> ELSE g.pfx[v]

LEMMA BranchTaken ==
  ASSUME NEW g, Parsed(g), Single(g), NEW t \in g.flag, \A u \in g.flag : t <= u,
         NEW c, c = BranchFind(g, t)
  PROVE  /\ g.par[c] \in ToSet(g.toks) /\ g.par[c] < t
         /\ Taken(g, RemoveRange(Unlink(g, c), g.par[c], t), Between(g, g.par[c], t), t)
<1> DEFINE src == g.par[c]
           R == Between(g, src, t)
           u == Unlink(g, c)
           k == RemoveRange(u, src, t)
<1>1. Core(g) /\ t \in ToSet(g.toks) /\ ToSet(g.toks) \subseteq Nat /\ ToSet(g.toks) \subseteq Id
  BY TokenFacts
<1>2. HasBranch(g, t) /\ t \in Id
  BY <1>1 DEF Core, AllSettled, Settled
<1>3. c \in Id /\ g.nx[c] \in Id /\ g.nx[c] # Null /\ g.par[g.nx[c]] = t /\ g.par[c] # t
  BY <1>1, <1>2, BranchFound
<1>4. PICK a \in Id : IsAlternative(g, a) /\ g.pv[a] = c /\ g.par[a] = t
  BY <1>1, <1>2, <1>3, BranchFound
<1>5. src \in ToSet(g.toks) /\ src < t
  <2>1. src \in ToSet(g.toks) /\ src <= t
    BY <1>3, LinkForward
  <2>2. QED
    BY <1>1, <1>3, <2>1
<1>6. src \in R /\ t \notin R /\ R \subseteq ToSet(g.toks)
  <2>1. src <= src /\ ~(t < t)
    BY <1>1, <1>5
  <2>2. QED
    BY <1>5, <2>1 DEF Between
<1>7. From(g, R, t)
  <2>1. \A v \in R : v \notin g.flag
    <3> SUFFICES ASSUME NEW v \in R, v \in g.flag
                 PROVE  FALSE
      OBVIOUS
    <3>1. v < t /\ t <= v /\ v \in Nat /\ t \in Nat
      BY <1>1, <1>6 DEF Between
    <3>2. QED
      BY <3>1
  <2>2. ASSUME NEW q \in Id, IsAlternative(g, q), g.par[q] = t
        PROVE  g.par[g.pv[q]] \in R
    <3>1. q = a
      BY <1>4, <2>2 DEF Single
    <3>2. QED
      BY <1>4, <1>6, <3>1
  <2>3. QED
    BY <1>1, <2>1, <2>2 DEF From
<1> HIDE DEF R
<1>8. From(u, R, t)
  BY <1>3, <1>6, <1>7, UnlinkWithin
<1>9. Unlinked(g, u, {c})
  BY <1>1, <1>3, UnlinkOne
<1>10. Core(u) /\ u.toks = g.toks /\ u.pfx = g.pfx /\ OnlyBranches(g, u) /\ u.flag \subseteq g.flag
  BY <1>9 DEF Unlinked, SameLists
<1> HIDE DEF u, src
<1>11. R = Between(u, src, t)
  BY <1>10 DEF Between, R
<1>12. PICK s \in Seq(Id) :
             /\ Distinct(s) /\ ToSet(s) = R
             /\ ToSet(s) \subseteq ToSet(u.toks) /\ Last(u.toks) \notin ToSet(s)
             /\ k = FoldLeft(RemoveWithPrefixes, u, s)
  <2>1. src \in ToSet(u.toks) /\ t \in ToSet(u.toks) /\ Core(u)
    BY <1>1, <1>5, <1>10
  <2>2. \E s \in Seq(Id) :
             /\ Distinct(s) /\ ToSet(s) = Between(u, src, t)
             /\ ToSet(s) \subseteq ToSet(u.toks) /\ Last(u.toks) \notin ToSet(s)
             /\ RemoveRange(u, src, t) = FoldLeft(RemoveWithPrefixes, u, s)
    BY <2>1, BetweenItems
  <2>3. QED
    BY <1>11, <2>2
<1>13. From(k, R, t)
  BY <1>8, <1>12, RemoveAllWithin
<1>14. RangeRemoved(u, k, R)
  BY <1>10, <1>12, RemoveAll
<1> HIDE DEF k
<1>15. t \notin k.flag
  <2> SUFFICES ASSUME HasBranch(k, t)
               PROVE  FALSE
    BY <1>2, <1>13 DEF From, Core, AllSettled, Settled
  <2>1. PICK p \in ToSet(k.pfx[t]) : IsAlternative(k, p)
    BY DEF HasBranch
  <2>2. Core(k)
    BY <1>13 DEF From
  <2>3. p \in Id
    <3>1. k.pfx[t] \in Seq(Id)
      BY <1>2, <2>2, HeapFields DEF Core
    <3>2. QED
      BY <3>1, ToSetType
  <2>4. k.par[p] = t
    BY <1>2, <2>1, <2>2, <2>3, AlternativeFlagged, CoreFacts DEF ParentExact
  <2>5. k.par[k.pv[p]] \in R
    BY <1>13, <2>1, <2>3, <2>4 DEF From
  <2>6. k.pv[p] \in Id /\ k.par[k.pv[p]] # Null
    BY <2>1, <2>2, <2>3, AlternativeFlagged
  <2>7. k.par[k.pv[p]] \in ToSet(k.toks)
    BY <2>2, <2>6, CoreFacts DEF ParentsHoldIn
  <2>8. QED
    BY <1>14, <2>5, <2>7 DEF RangeRemoved
<1>16. Taken(g, k, R, t)
  <2>1. OnlyBranches(g, k)
    BY <1>10, <1>14 DEF RangeRemoved, OnlyBranches
  <2>2. QED
    BY <1>10, <1>13, <1>14, <1>15, <2>1 DEF Taken, From, RangeRemoved
<1>17. QED
  BY <1>5, <1>16 DEF k, u, R, src

-----------------------------------------------------------------------------
(* The text of a folded branch.                                              *)

\* From f on, the tokens and their prefixes are all of the file.
Tiled(g, c, f) ==
    \A t \in ToSet(g.toks) : /\ f <= t => Covered(g, c, t)
                             /\ f < t => Follows(g, t)

LEMMA Spliced ==
  ASSUME NEW a \in Seq(Id), NEW x \in Id, NEW b \in Seq(Id), NEW s, s = a \o (<<x>> \o b)
  PROVE  /\ s \in Seq(Id) /\ Len(s) = Len(a) + 1 + Len(b) /\ Len(a) \in Nat /\ Len(b) \in Nat
         /\ \A i \in 1..Len(a) : s[i] = a[i]
         /\ s[Len(a) + 1] = x
         /\ \A i \in 1..Len(b) : s[Len(a) + 1 + i] = b[i]
<1> DEFINE e == <<x>> \o b
<1>1. /\ e \in Seq(Id) /\ Len(e) = 1 + Len(b) /\ e[1] = x /\ Len(b) \in Nat
      /\ \A i \in 1..Len(b) : e[1 + i] = b[i]
  <2>1. <<x>> \in Seq(Id) /\ Len(<<x>>) = 1 /\ <<x>>[1] = x
    OBVIOUS
  <2>2. e \in Seq(Id) /\ Len(e) = 1 + Len(b) /\ e[1] = x /\ Len(b) \in Nat
    BY <2>1
  <2>3. ASSUME NEW i \in 1..Len(b)
        PROVE  e[1 + i] = b[i]
    BY <2>1
  <2>4. QED
    BY <2>2, <2>3
<1> HIDE DEF e
<1>2. s = a \o e
  BY DEF e
<1>3. s \in Seq(Id) /\ Len(s) = Len(a) + Len(e) /\ Len(a) \in Nat
  BY <1>1, <1>2
<1>4. \A i \in 1..Len(a) : s[i] = a[i]
  BY <1>1, <1>2
<1>5. ASSUME NEW i \in 1..Len(e)
      PROVE  s[Len(a) + i] = e[i]
  BY <1>1, <1>2
<1>6. s[Len(a) + 1] = x
  <2>1. 1 \in 1..Len(e)
    BY <1>1
  <2>2. QED
    BY <1>1, <1>5, <2>1
<1>7. ASSUME NEW i \in 1..Len(b)
      PROVE  s[Len(a) + 1 + i] = b[i]
  <2>1. 1 + i \in 1..Len(e) /\ Len(a) + 1 + i = Len(a) + (1 + i)
    BY <1>1, <1>3
  <2>2. s[Len(a) + (1 + i)] = e[1 + i]
    BY <1>5, <2>1
  <2>3. QED
    BY <1>1, <2>1, <2>2
<1>8. Len(s) = Len(a) + 1 + Len(b)
  <2> DEFINE k == Len(a)
             l == Len(b)
             m == Len(e)
  <2>1. Len(s) = k + m /\ m = 1 + l /\ k \in Nat /\ l \in Nat
    BY <1>1, <1>3
  <2> HIDE DEF k, l, m
  <2>2. Len(s) = k + 1 + l
    BY <2>1
  <2>3. QED
    BY <2>2 DEF k, l
<1>9. s \in Seq(Id) /\ Len(a) \in Nat /\ Len(b) \in Nat
  BY <1>1, <1>3
<1>10. QED
  BY <1>4, <1>6, <1>7, <1>8, <1>9

\* What FoldTiled is about.
Refolded(g, k, p) ==
    /\ Parsed(g) /\ p \in Id /\ g.nx[p] # Null /\ g.par[p] # g.par[g.nx[p]]
    /\ Folded(g, k, p) /\ Respelt(g, k, p)

\* The prefixes of dst, P and Q being those of src and dst before.
RefoldedAt(g, k, p, P, Q, s, m, n) ==
    /\ P \in Seq(Id) /\ Q \in Seq(Id) /\ s \in Seq(Id)
    /\ P = g.pfx[g.par[p]] /\ Q = g.pfx[g.par[g.nx[p]]] /\ s = k.pfx[g.par[g.nx[p]]]
    /\ m \in 1..Len(P) /\ P[m] = p /\ n \in 1..Len(Q) /\ Q[n] = g.nx[p]
    /\ Len(s) = m + (Len(Q) - n)
    /\ \A i \in 1..m-1 : s[i] = P[i]
    /\ s[m] = MaxLen + p
    /\ \A i \in 1..(Len(Q) - n) : s[m + i] = Q[n + i]

LEMMA RefoldedPrefixes ==
  ASSUME NEW g, NEW k, NEW p, Refolded(g, k, p)
  PROVE  \E P, Q, s, m, n : RefoldedAt(g, k, p, P, Q, s, m, n)
<1> DEFINE src == g.par[p]
           q == g.nx[p]
           dst == g.par[q]
           P == g.pfx[src]
           Q == g.pfx[dst]
           s == k.pfx[dst]
           m == IndexOf(P, p)
           n == IndexOf(Q, q)
           a == SubSeq(P, 1, m - 1)
           b == SubSeq(Q, n + 1, Len(Q))
<1>1. /\ src \in ToSet(g.toks) /\ p \in ToSet(P) /\ dst \in ToSet(g.toks) /\ q \in ToSet(Q)
      /\ p \in Pos
  BY LinkForward DEF Refolded
<1>2. P \in Seq(Id) /\ Q \in Seq(Id)
  BY <1>1, AfterForward DEF Refolded
<1>3. s = a \o (<<MaxLen + p>> \o b)
  BY DEF Refolded, Respelt
<1> HIDE DEF src, dst, q, P, Q, s
<1>4. /\ m \in 1..Len(P) /\ P[m] = p /\ n \in 1..Len(Q) /\ Q[n] = q
      /\ Len(P) \in Nat /\ Len(Q) \in Nat
  <2>1. m \in DOMAIN P /\ P[m] = p /\ n \in DOMAIN Q /\ Q[n] = q
    BY <1>1, IndexOfLemma
  <2>2. QED
    BY <1>2, <2>1
<1> HIDE DEF m, n
<1>5. /\ a \in Seq(Id) /\ Len(a) = m - 1 /\ \A i \in 1..m-1 : a[i] = P[i]
  <2>1. 1..m-1 \subseteq 1..Len(P) /\ m - 1 \in Nat /\ m - 1 <= Len(P)
    BY <1>4
  <2>2. QED
    BY <1>2, <2>1
<1>6. /\ b \in Seq(Id) /\ Len(b) = Len(Q) - n /\ \A i \in 1..(Len(Q) - n) : b[i] = Q[n + i]
  <2>1. n + 1 \in Nat /\ n + 1 <= Len(Q) + 1 /\ n + 1 \in 1..Len(Q)+1
    BY <1>4
  <2>2. b \in Seq(Id) /\ Len(b) = Len(Q) - n
    BY <1>2, <1>4, <2>1
  <2>3. ASSUME NEW i \in 1..(Len(Q) - n)
        PROVE  b[i] = Q[n + i]
    <3>1. b[i] = Q[n + 1 + i - 1]
      BY <1>2, <1>4, <2>1
    <3>2. n + 1 + i - 1 = n + i
      BY <1>4
    <3>3. QED
      BY <3>1, <3>2
  <2>4. QED
    BY <2>2, <2>3
<1> HIDE DEF a, b
<1>7. MaxLen + p \in Id
  BY <1>1, MaxLenAssumption DEF Pos, Id
<1>8. /\ s \in Seq(Id) /\ Len(s) = Len(a) + 1 + Len(b)
      /\ \A i \in 1..Len(a) : s[i] = a[i]
      /\ s[Len(a) + 1] = MaxLen + p
      /\ \A i \in 1..Len(b) : s[Len(a) + 1 + i] = b[i]
  <2> DEFINE x == MaxLen + p
  <2>1. x \in Id /\ s = a \o (<<x>> \o b) /\ a \in Seq(Id) /\ b \in Seq(Id)
    BY <1>3, <1>5, <1>6, <1>7
  <2> HIDE DEF x
  <2>2. /\ s \in Seq(Id) /\ Len(s) = Len(a) + 1 + Len(b)
        /\ \A i \in 1..Len(a) : s[i] = a[i]
        /\ s[Len(a) + 1] = x
        /\ \A i \in 1..Len(b) : s[Len(a) + 1 + i] = b[i]
    BY <2>1, Spliced
  <2>3. QED
    BY <2>2 DEF x
<1>9. Len(a) + 1 = m
  BY <1>4, <1>5
<1>10. RefoldedAt(g, k, p, P, Q, s, m, n)
  <2>1. Len(s) = m + (Len(Q) - n) /\ s[m] = MaxLen + p
    BY <1>6, <1>8, <1>9
  <2>2. \A i \in 1..m-1 : s[i] = P[i]
    BY <1>5, <1>8
  <2>3. \A i \in 1..(Len(Q) - n) : s[m + i] = Q[n + i]
    BY <1>6, <1>8, <1>9
  <2>4. P = g.pfx[g.par[p]] /\ Q = g.pfx[g.par[g.nx[p]]] /\ s = k.pfx[g.par[g.nx[p]]]
        /\ q = g.nx[p]
    BY DEF P, Q, s, src, dst, q
  <2>5. QED
    BY <1>2, <1>4, <1>8, <2>1, <2>2, <2>3, <2>4 DEF RefoldedAt
<1>11. QED
  BY <1>10

\* The text of dst starts where that of src did, and ends as it did.
LEMMA RefoldedText ==
  ASSUME NEW g, NEW k, NEW p, Refolded(g, k, p), NEW c \in [Id -> Int],
         Covered(g, c, g.par[p]), Covered(g, c, g.par[g.nx[p]]),
         NEW d, d = [c EXCEPT ![MaxLen + p] = c[g.nx[p]]]
  PROVE  /\ Covered(k, d, g.par[g.nx[p]])
         /\ Starts(k, g.par[g.nx[p]]) = Starts(g, g.par[p])
<1> DEFINE src == g.par[p]
           q == g.nx[p]
           dst == g.par[q]
           x == MaxLen + p
<1>1. PICK P, Q, s, m, n : RefoldedAt(g, k, p, P, Q, s, m, n)
  BY RefoldedPrefixes
<1>2. /\ P \in Seq(Id) /\ Q \in Seq(Id) /\ s \in Seq(Id)
      /\ P = g.pfx[src] /\ Q = g.pfx[dst] /\ s = k.pfx[dst]
      /\ m \in 1..Len(P) /\ P[m] = p /\ n \in 1..Len(Q) /\ Q[n] = q
      /\ Len(s) = m + (Len(Q) - n)
      /\ \A i \in 1..m-1 : s[i] = P[i]
      /\ s[m] = x
      /\ \A i \in 1..(Len(Q) - n) : s[m + i] = Q[n + i]
  BY <1>1 DEF RefoldedAt
<1>3. /\ src \in ToSet(g.toks) /\ p \in ToSet(P) /\ dst \in ToSet(g.toks) /\ q \in ToSet(Q)
      /\ p \in Pos /\ src \in Id /\ dst \in Id /\ x \in Id /\ Origin(x) = p /\ Origin(p) = p
      /\ q \in Id
  <2>1. /\ src \in ToSet(g.toks) /\ p \in ToSet(P) /\ dst \in ToSet(g.toks) /\ q \in ToSet(Q)
        /\ p \in Pos
    BY <1>2, LinkForward DEF Refolded
  <2>2. src \in Id /\ dst \in Id
    BY <2>1, TokenFacts DEF Refolded
  <2>3. x \in Id /\ Origin(x) = p /\ Origin(p) = p
    BY <2>1, MaxLenAssumption DEF Pos, Id, Origin
  <2>4. q \in Id
    BY <1>2, <2>1, ToSetType
  <2>5. QED
    BY <2>1, <2>2, <2>3, <2>4
<1>4. x \notin ToSet(P) /\ x \notin ToSet(Q)
  BY <1>2, <1>3 DEF Refolded, Parsed, Fresh
<1>5. /\ \A i \in 1..Len(P) : c[P[i]] + 1 = After(g, src, i)
      /\ \A i \in 1..Len(Q) : c[Q[i]] + 1 = After(g, dst, i)
      /\ DOMAIN s = 1..Len(s) /\ Len(s) \in Nat /\ Len(P) \in Nat /\ Len(Q) \in Nat
  <2>1. DOMAIN P = 1..Len(P) /\ DOMAIN Q = 1..Len(Q) /\ DOMAIN s = 1..Len(s)
        /\ Len(s) \in Nat /\ Len(P) \in Nat /\ Len(Q) \in Nat
    <3>1. P \in Seq(Id) /\ Q \in Seq(Id) /\ s \in Seq(Id)
      BY <1>2
    <3>2. QED
      BY <3>1
  <2>2. QED
    BY <1>2, <2>1 DEF Covered
<1>13. /\ m \in 1..Len(P) /\ n \in 1..Len(Q) /\ Len(s) = m + (Len(Q) - n)
       /\ Len(s) \in Nat /\ Len(P) \in Nat /\ Len(Q) \in Nat
  BY <1>2, <1>5
<1>14. /\ \A i \in 1..Len(P) : P[i] \in Id /\ P[i] \in ToSet(P)
       /\ \A i \in 1..Len(Q) : Q[i] \in Id /\ Q[i] \in ToSet(Q)
  <2>1. P \in Seq(Id) /\ Q \in Seq(Id)
    BY <1>2
  <2>2. QED
    BY <2>1 DEF ToSet
<1>6. d[x] = c[q] /\ \A e \in Id : e # x => d[e] = c[e]
  BY <1>3
<1> HIDE DEF x, src, dst, q
\* In front of the folded prefix.
<1>7. ASSUME NEW i \in 0..m-1
      PROVE  After(k, dst, i) = After(g, src, i)
  <2> DEFINE j == i + 1
  <2>1. j \in 1..m /\ i # Len(s) /\ i # Len(P) /\ (j = m \/ j \in 1..m-1)
    BY <1>13
  <2> HIDE DEF j
  <2>2. After(k, dst, i) = Origin(s[j]) /\ After(g, src, i) = Origin(P[j])
    BY <1>2, <2>1 DEF After, j
  <2>3. Origin(s[j]) = Origin(P[j])
    BY <1>2, <1>3, <2>1
  <2>4. QED
    BY <2>2, <2>3
\* Behind it.
<1>8. ASSUME NEW i \in 0..(Len(Q) - n)
      PROVE  After(k, dst, m + i) = After(g, dst, n + i)
  <2>1. CASE i = Len(Q) - n
    <3>1. m + i = Len(s) /\ n + i = Len(Q)
      BY <1>2, <1>5, <2>1
    <3>2. QED
      BY <1>2, <3>1 DEF After
  <2>2. CASE i # Len(Q) - n
    <3> DEFINE j == i + 1
    <3>1. /\ j \in 1..(Len(Q) - n) /\ m + i # Len(s) /\ n + i # Len(Q)
          /\ m + i + 1 = m + j /\ n + i + 1 = n + j
      BY <1>13, <2>2
    <3> HIDE DEF j
    <3>2. After(k, dst, m + i) = Origin(s[m + j]) /\ After(g, dst, n + i) = Origin(Q[n + j])
      BY <1>2, <3>1 DEF After
    <3>3. s[m + j] = Q[n + j]
      BY <1>2, <3>1
    <3>4. QED
      BY <3>2, <3>3
  <2>3. QED
    BY <2>1, <2>2
<1>9. ASSUME NEW i \in 1..Len(s)
      PROVE  d[s[i]] + 1 = After(k, dst, i)
  <2>1. CASE i \in 1..m-1
    <3>1. i \in 1..Len(P) /\ i \in 0..m-1 /\ s[i] = P[i]
      <4>1. i \in 1..Len(P) /\ i \in 0..m-1
        BY <1>13, <2>1
      <4>2. QED
        BY <1>2, <2>1, <4>1
    <3>2. P[i] \in ToSet(P) /\ P[i] \in Id
      BY <1>14, <3>1
    <3>3. d[P[i]] = c[P[i]]
      BY <1>4, <1>6, <3>2
    <3>4. After(k, dst, i) = After(g, src, i)
      BY <1>7, <3>1
    <3>5. QED
      BY <1>5, <3>1, <3>3, <3>4
  <2>2. CASE i = m
    <3>1. d[s[i]] = c[Q[n]] /\ n \in 1..Len(Q)
      BY <1>2, <1>6, <2>2
    <3>2. 0 \in 0..(Len(Q) - n) /\ m + 0 = m /\ n + 0 = n
      BY <1>2, <1>5
    <3>3. After(k, dst, m) = After(g, dst, n)
      BY <1>8, <3>2
    <3>4. QED
      BY <1>5, <2>2, <3>1, <3>3
  <2>3. CASE m < i
    <3> DEFINE j == i - m
    <3>1. j \in 1..(Len(Q) - n) /\ j \in 0..(Len(Q) - n) /\ m + j = i /\ n + j \in 1..Len(Q)
      BY <1>2, <1>5, <2>3
    <3> HIDE DEF j
    <3>2. s[i] = Q[n + j]
      BY <1>2, <3>1
    <3>3. Q[n + j] \in ToSet(Q) /\ Q[n + j] \in Id
      BY <1>14, <3>1
    <3>4. d[s[i]] = c[Q[n + j]]
      BY <1>4, <1>6, <3>2, <3>3
    <3>5. After(k, dst, i) = After(g, dst, n + j)
      BY <1>8, <3>1
    <3>6. QED
      BY <1>5, <3>1, <3>4, <3>5
  <2>4. i \in 1..m-1 \/ i = m \/ m < i
    BY <1>2, <1>5
  <2>5. QED
    BY <2>1, <2>2, <2>3, <2>4
<1>10. Starts(k, dst) = Starts(g, src)
  <2>1. 0 \in 0..m-1
    BY <1>2
  <2>2. QED
    BY <1>7, <2>1 DEF Starts
<1>11. Covered(k, d, dst)
  BY <1>2, <1>5, <1>9 DEF Covered
<1>12. QED
  BY <1>10, <1>11 DEF src, dst, q

\* What precedes a token is not among the tokens removed in front of dst.
LEMMA FollowsStill ==
  ASSUME NEW g, Parsed(g), NEW src \in ToSet(g.toks), NEW dst \in ToSet(g.toks),
         NEW t \in ToSet(g.toks), Follows(g, t), t <= src \/ dst < t,
         NEW k, ToSet(k.toks) = ToSet(g.toks) \ Between(g, src, dst),
         NEW u, Starts(k, u) = Starts(g, t)
  PROVE  Follows(k, u)
<1> DEFINE v == Starts(g, t) - 1
<1>1. /\ Starts(g, t) \in Pos /\ Starts(g, t) <= t
      /\ dst < t => dst < Starts(g, t)
  BY AfterForward
<1>2. src \in Nat /\ dst \in Nat /\ t \in Nat
  BY TokenFacts
<1>3. Starts(g, t) \in Nat /\ v \in Int
  BY <1>1 DEF Pos
<1>4. v < src \/ dst <= v
  BY <1>1, <1>2, <1>3
<1>5. v \notin Between(g, src, dst)
  <2> HIDE DEF v
  <2>1. ~(src <= v /\ v < dst)
    BY <1>2, <1>3, <1>4
  <2>2. QED
    BY <2>1 DEF Between
<1>6. QED
  BY <1>5 DEF Follows

LEMMA FoldTiled ==
  ASSUME NEW g, NEW k, NEW p, Refolded(g, k, p), NEW c \in [Id -> Int], Tiled(g, c, 0),
         NEW d, d = [c EXCEPT ![MaxLen + p] = c[g.nx[p]]]
  PROVE  Tiled(k, d, 0)
<1> DEFINE src == g.par[p]
           dst == g.par[g.nx[p]]
           R == Between(g, src, dst)
<1>1. Parsed(g) /\ ToSet(g.toks) \subseteq Nat /\ ToSet(g.toks) \subseteq Id /\ Null \notin ToSet(g.toks)
  BY TokenFacts DEF Refolded
<1>2. \A t \in ToSet(g.toks) : Covered(g, c, t) /\ Follows(g, t)
  <2>1. \A t \in ToSet(g.toks) : 0 < t /\ 0 <= t
    BY <1>1 DEF Null
  <2>2. QED
    BY <2>1 DEF Tiled
<1>3. src \in ToSet(g.toks) /\ dst \in ToSet(g.toks) /\ p \in ToSet(g.pfx[src]) /\ p \in Pos
      /\ g.nx[p] \in Id
  <2>1. src \in ToSet(g.toks) /\ dst \in ToSet(g.toks) /\ p \in ToSet(g.pfx[src]) /\ p \in Pos
        /\ g.nx[p] \in Pos
    BY LinkForward DEF Refolded
  <2>2. QED
    BY <2>1, NullOutside
<1>4. ToSet(k.toks) = ToSet(g.toks) \ R /\ \A t \in Id : t \notin R /\ t # dst => k.pfx[t] = g.pfx[t]
  BY DEF Refolded, Folded, Respelt
<1>5. Covered(k, d, dst) /\ Starts(k, dst) = Starts(g, src)
  BY <1>2, <1>3, RefoldedText
<1> SUFFICES ASSUME NEW t \in ToSet(k.toks)
             PROVE  Covered(k, d, t) /\ Follows(k, t)
  BY DEF Tiled
<1>6. t \in ToSet(g.toks) /\ t \in Id /\ t \notin R
  BY <1>1, <1>4
<1> HIDE DEF src, dst
<1>7. CASE t = dst
  <2>1. src <= src
    BY <1>1, <1>3
  <2>2. Follows(k, dst)
    BY <1>1, <1>2, <1>3, <1>4, <1>5, <2>1, FollowsStill
  <2>3. QED
    BY <1>5, <1>7, <2>2
<1>8. CASE t # dst
  <2>1. k.pfx[t] = g.pfx[t]
    BY <1>4, <1>6, <1>8
  <2>2. Starts(k, t) = Starts(g, t)
    BY <2>1 DEF Starts, After
  <2>3. t <= src \/ dst < t
    <3>1. ~(src <= t /\ t < dst)
      BY <1>6 DEF Between
    <3>2. src \in Nat /\ dst \in Nat /\ t \in Nat
      BY <1>1, <1>3, <1>6
    <3> HIDE DEF R
    <3>3. QED
      BY <1>8, <3>1, <3>2
  <2>4. Follows(k, t)
    BY <1>1, <1>2, <1>3, <1>4, <1>6, <2>2, <2>3, FollowsStill
  <2>5. Covered(k, d, t)
    <3>1. ASSUME NEW i \in DOMAIN g.pfx[t]
          PROVE  d[g.pfx[t][i]] = c[g.pfx[t][i]]
      <4>1. g.pfx[t] \in Seq(Id)
        BY <1>1, <1>6, AfterForward
      <4>2. g.pfx[t][i] \in Id /\ g.pfx[t][i] \in ToSet(g.pfx[t])
        BY <4>1, ElementsOf DEF ToSet
      <4>3. src \in Id
        BY <1>1, <1>3
      <4>4. MaxLen + p \notin ToSet(g.pfx[t])
        BY <1>1, <1>3, <1>6, <4>3 DEF Parsed, Fresh
      <4> DEFINE e == g.pfx[t][i]
                 x == MaxLen + p
      <4>5. e # x
        BY <4>2, <4>4
      <4> HIDE DEF e, x
      <4>6. d = [c EXCEPT ![x] = c[g.nx[p]]]
        BY DEF x
      <4>7. d[e] = c[e]
        BY <4>2, <4>5, <4>6 DEF e
      <4>8. QED
        BY <4>7 DEF e
    <3>2. Covered(g, c, t)
      BY <1>2, <1>6
    <3>3. \A i \in DOMAIN g.pfx[t] : After(k, t, i) = After(g, t, i)
      BY <2>1 DEF After
    <3>4. QED
      BY <2>1, <3>1, <3>2, <3>3 DEF Covered
  <2>6. QED
    BY <2>4, <2>5
<1>9. QED
  BY <1>7, <1>8

-----------------------------------------------------------------------------
(* What is emitted, in every state.                                          *)

\* The token lexer_pop() returns when the last one it returned is s.
NextOf(g, s) ==
    IF s = Null THEN Head(g.toks)
    ELSE IF g.kind[s] = "eof" THEN s
    ELSE TokenNext(g, s)

\* The token to be parsed next, the lexer halting in front of it or not.
Facing(g, s) == IF s \in g.flag THEN s ELSE NextOf(g, s)

\* The token up to which the file is emitted.
Goal == IF unmute # Null THEN unmute ELSE Facing(h, st)

FileKinds(g) == \A t \in ToSet(g.toks) : g.kind[t] \in {"tok", "eof"}

\* While reading: the prefixes tile the file between the tokens.
ReadTiled ==
    /\ FileKinds(h) /\ \A t \in ToSet(h.toks) : h.kind[t] = "eof" => t = tk
    /\ Tiled(h, cover, 0)
    /\ cover = [i \in Id |-> i]
    /\ docs = <<>> /\ unmute = Null /\ branched = 0 /\ recovered = 0

\* The only end of file is the last token, which is never stamped and only
\* under the cursor when an alternative starts there.
LastOnly ==
    /\ FileKinds(h) /\ tk \in ToSet(h.toks)
    /\ \A t \in ToSet(h.toks) : t <= tk /\ (h.kind[t] = "eof" => t = tk) /\ cover[t] = t
    /\ h.kind[tk] = "eof"
    /\ st = tk => pc = "unit" /\ st \in h.flag
    /\ \A i \in DOMAIN stamps : stamps[i] # tk
    /\ pc = "unit" => docs # <<>>

\* Valid source: the file is emitted up to the next token to be parsed, or up to
\* the token emission is to be unmuted at.
ValidSource ==
    /\ Single(h) /\ Tiled(h, cover, Goal)
    /\ unmute # Null => \A t \in h.flag : unmute < t
    /\ ExecOf(docs) = Emitted(IF unmute # Null \/ Goal \in h.flag THEN 1 ELSE 0,
                              Starts(h, Goal) - 1)

\* As long as no branch was taken nor folded, each document ends at a stamp.
Untouched ==
    /\ unmute = Null /\ Tiled(h, cover, 0)
    /\ \A i \in DOMAIN stamps : stamps[i] \in ToSet(h.toks)
    /\ pc = "loop" => st = IF stamps = <<>> THEN Null ELSE Last(stamps)
    /\ \A i \in DOMAIN stamps :
           (IF pc = "unit" THEN st \notin h.flag ELSE i < Len(stamps))
           => TokenNext(h, stamps[i]) \notin h.flag
    /\ Len(docs) = Len(stamps) + (IF pc = "unit" THEN 1 ELSE 0)
    /\ \A k \in DOMAIN stamps :
           ExecOf(SubSeq(docs, 1, k)) =
               Emitted(IF TokenNext(h, stamps[k]) \in h.flag THEN 1 ELSE 0, stamps[k])

\* One alternative was folded: its text is that of a prefix.
FoldedOnce ==
    /\ Tiled(h, cover, 0)
    /\ \E m \in {0, 1} :
           /\ ExecOf(docs) = Emitted(m, Starts(h, Facing(h, st)) - 1)
           /\ Facing(h, st) \notin h.flag => m = 0

OInv ==
    /\ branched \in 0..Many /\ recovered \in 0..Many
    /\ pc = "read" => ReadTiled
    /\ Running => LastOnly
    /\ Running /\ ~shared /\ recovered = 0 => ValidSource
    /\ Running /\ ~shared /\ recovered = 0 /\ branched = 0 => Untouched
    /\ Running /\ ~shared /\ recovered = 1 /\ branched = 0 => FoldedOnce
    /\ pc = "done" /\ ~shared /\ (recovered = 0 \/ (branched = 0 /\ recovered = 1)) =>
          tk \in Pos /\ \E m \in {0, 1}, n \in {tk - 1, tk} : ExecOf(docs) = Emitted(m, n)

-----------------------------------------------------------------------------
(* Reading: the prefixes tile the file.                                      *)

LEMMA TiledSame ==
  ASSUME NEW g, NEW k, SameLists(g, k), NEW c, NEW f, Tiled(g, c, f)
  PROVE  Tiled(k, c, f)
BY DEF Tiled, Covered, Follows, Starts, After, SameLists

\* Linking changes the kind of branches only.
LEMMA LinkKinds ==
  ASSUME RInv, \/ BranchEnter \/ BranchLink \/ BranchLeave \/ SkipPrefix
               \/ EndOfFile \/ BranchPurge,
         NEW e \in Id, h.kind[e] \notin BranchKinds
  PROVE  h'.kind[e] = h.kind[e]
<1>1. IInv /\ h \in Heap
  BY DEF RInv, IInv, TypeOK
<1>2. ASSUME NEW S \in SUBSET Id, \A p \in S : h.kind[p] \in BranchKinds
      PROVE  RevertAll(h, S).kind[e] = h.kind[e]
  <2>1. CutFrom(h, RevertAll(h, S), S)
    BY <1>1, RevertAllLemma
  <2>2. e \in Id \ S
    BY <1>2
  <2>3. QED
    BY <2>1, <2>2 DEF CutFrom
<1>3. CASE BranchEnter
  <2>1. lk \in Id /\ tk \in Id
    BY <1>1, <1>3, LinkingFacts DEF BranchEnter, Linking
  <2>2. QED
    BY <1>1, <1>3, <2>1, SetParentLemma DEF BranchEnter
<1>4. CASE BranchLink
  <2>1. phase = "read" /\ lk < tk /\ h.kind[lk] = "else" /\ lk \in Id
    BY <1>1, <1>4, LinkingFacts DEF BranchLink, Linking
  <2>2. CASE stack = <<>>
    BY <1>2, <1>4, <2>1, <2>2 DEF BranchLink, BranchKinds
  <2>3. CASE stack # <<>>
    BY <1>1, <1>4, <2>1, <2>3, LinkToTopLemma DEF BranchLink
  <2>4. QED
    BY <2>2, <2>3
<1>5. CASE BranchLeave
  <2>1. phase = "read" /\ lk < tk /\ h.kind[lk] = "endif" /\ lk \in Id
    BY <1>1, <1>5, LinkingFacts DEF BranchLeave, Linking
  <2>2. CASE stack = <<>>
    BY <1>2, <1>5, <2>1, <2>2 DEF BranchLeave, BranchKinds
  <2>3. CASE stack # <<>>
    <3> DEFINE g == LinkToTop(h)
    <3>1. g \in Heap /\ g.kind = h.kind
      BY <1>1, <2>1, <2>3, LinkToTopLemma
    <3>2. h' = UpdateFlagsOf(g, ParentsOf(g, Back(g, {lk})))
      BY <1>5, <2>3 DEF BranchLeave
    <3> HIDE DEF g
    <3>3. Back(g, {lk}) \in SUBSET Id
      BY NullOutside DEF Back
    <3>4. ParentsOf(g, Back(g, {lk})) \in SUBSET Id
      BY <3>1, <3>3, ParentsOfType
    <3>5. SameLinks(g, h')
      BY <3>1, <3>2, <3>4, UpdateFlagsOfLemma
    <3>6. QED
      BY <3>1, <3>5 DEF SameLinks
  <2>4. QED
    BY <2>2, <2>3
<1>6. CASE SkipPrefix \/ EndOfFile
  BY <1>6 DEF SkipPrefix, EndOfFile
<1>7. CASE BranchPurge
  BY <1>1, <1>2, <1>7, OpenFacts DEF BranchPurge, Open
<1>8. QED
  BY <1>3, <1>4, <1>5, <1>6, <1>7

\* What a token read covers: the positions since the token before it.
LEMMA WaitingCovered ==
  ASSUME NEW g, NEW a \in Nat \ {0}, NEW b \in Pos, a <= b,
         g.pfx[b] = [i \in 1..(b - a) |-> a + i - 1]
  PROVE  Covered(g, [i \in Id |-> i], b) /\ Starts(g, b) = a
<1> DEFINE w == [i \in 1..(b - a) |-> a + i - 1]
           n == b - a
<1>1. n \in Nat /\ b \in Nat /\ b <= MaxLen /\ a + n = b
  BY MaxLenAssumption DEF Pos
<1>2. w \in Seq(Int) /\ Len(w) = n /\ DOMAIN w = 1..n /\ \A i \in 1..n : w[i] = a + i - 1
  BY <1>1
<1>3. g.pfx[b] = w
  OBVIOUS
<1>4. \A i \in 1..n : a + i - 1 \in Pos
  BY <1>1, MaxLenAssumption DEF Pos
<1>5. \A i \in 1..n : w[i] \in Id /\ Origin(w[i]) = a + i - 1
  BY <1>2, <1>4, NullOutside, OriginType
<1> HIDE DEF w, n
<1>6. ASSUME NEW i \in 0..n
      PROVE  After(g, b, i) = a + i
  <2>1. CASE i = n
    BY <1>1, <1>2, <1>3, <2>1 DEF After
  <2>2. CASE i # n
    <3> DEFINE j == i + 1
    <3>1. j \in 1..n /\ a + j - 1 = a + i
      BY <1>1, <2>2
    <3> HIDE DEF j
    <3>2. Origin(w[j]) = a + i
      BY <1>5, <3>1
    <3>3. After(g, b, i) = Origin(w[j])
      BY <1>2, <1>3, <2>2 DEF After, j
    <3>4. QED
      BY <3>2, <3>3
  <2>3. QED
    BY <2>1, <2>2
<1>7. ASSUME NEW i \in DOMAIN g.pfx[b]
      PROVE  [l \in Id |-> l][g.pfx[b][i]] + 1 = After(g, b, i)
  <2>0. i \in 1..n /\ g.pfx[b][i] = w[i]
    BY <1>2, <1>3
  <2>1. i \in 1..n /\ i \in 0..n /\ w[i] \in Id /\ w[i] = a + i - 1 /\ g.pfx[b][i] = w[i]
    BY <1>1, <1>2, <1>5, <2>0
  <2>2. [l \in Id |-> l][g.pfx[b][i]] = a + i - 1
    BY <2>1
  <2>3. a + i - 1 + 1 = a + i
    BY <1>1, <2>1
  <2>4. QED
    BY <1>6, <2>1, <2>2, <2>3
<1>8. Starts(g, b) = a
  BY <1>1, <1>6 DEF Starts
<1>9. QED
  BY <1>7, <1>8 DEF Covered

LEMMA ReadTokenTiled ==
  ASSUME RInv, FileOrder(h), ReadTiled, NEW kind \in {"tok", "eof"}, ReadToken(kind)
  PROVE  /\ FileKinds(h') /\ \A t \in ToSet(h'.toks) : h'.kind[t] = "eof" => t = tk'
         /\ Tiled(h', cover, 0)
<1> DEFINE w == [i \in 1..(rd - lo) |-> lo + i - 1]
<1>1. /\ h \in Heap /\ lo \in Nat \ {0} /\ lo <= rd /\ lo = tk + 1 /\ tk \in Nat /\ rd \in Nat
      /\ tk # 0 => h.toks # <<>> /\ Last(h.toks) = tk
      /\ \A i \in DOMAIN h.toks : h.toks[i] <= tk
  BY MaxLenAssumption DEF RInv, IInv, TypeOK, ReadOK, ListOK
<1>2. rd \in Pos /\ rd \in Id /\ ~AtEof /\ tk' = rd
  BY <1>1, MaxLenAssumption DEF ReadToken, Reading, Pos, Id
<1>3. h.toks \in Seq(Id) /\ h.pfx \in [Id -> Seq(Id)] /\ h.kind \in [Id -> Kinds]
  BY <1>1, HeapFields
<1>4. /\ h'.toks = Append(h.toks, rd) /\ h'.pfx = [h.pfx EXCEPT ![rd] = w]
      /\ h'.kind = [h.kind EXCEPT ![rd] = kind]
  BY <1>1 DEF ReadToken, Heap
<1> HIDE DEF w
<1>5. /\ h'.pfx[rd] = w /\ h'.kind[rd] = kind
      /\ \A t \in Id \ {rd} : h'.pfx[t] = h.pfx[t] /\ h'.kind[t] = h.kind[t]
  BY <1>2, <1>3, <1>4
<1>6. ToSet(h.toks) \subseteq Id \ {rd}
  <2>1. \A i \in DOMAIN h.toks : h.toks[i] <= tk /\ h.toks[i] \in Id /\ h.toks[i] \in Nat
    BY <1>1, <1>3, ElementsOf, NullOutside
  <2>2. QED
    BY <1>1, <2>1 DEF ToSet
<1>7. ToSet(h'.toks) = ToSet(h.toks) \cup {rd}
  <2>1. Sorted(h.toks) /\ \A i \in DOMAIN h.toks : h.toks[i] < rd
    <3>1. \A i \in DOMAIN h.toks : h.toks[i] <= tk /\ h.toks[i] \in Nat
      BY <1>1, <1>3, ElementsOf, NullOutside
    <3>2. QED
      BY <1>1, <3>1 DEF FileOrder
  <2>2. QED
    BY <1>2, <1>3, <1>4, <2>1, SortedAppend
<1>8. FileKinds(h')
  BY <1>5, <1>6, <1>7 DEF FileKinds, ReadTiled
<1>9. ASSUME NEW t \in ToSet(h'.toks), h'.kind[t] = "eof"
      PROVE  t = tk'
  <2>1. CASE t = rd
    BY <1>2, <2>1
  <2>2. CASE t \in ToSet(h.toks)
    <3>1. h.kind[t] = "eof" /\ t \in Id /\ t \in Nat /\ t # 0
      BY <1>5, <1>6, <1>9, <2>2, NullOutside DEF Null
    <3>2. t = tk
      BY <2>2, <3>1 DEF ReadTiled
    <3>3. FALSE
      BY <1>2, <3>1, <3>2 DEF AtEof
    <3>4. QED
      BY <3>3
  <2>3. QED
    BY <1>7, <2>1, <2>2
<1>10. Covered(h', cover, rd) /\ Starts(h', rd) = lo
  <2>1. h'.pfx[rd] = [i \in 1..(rd - lo) |-> lo + i - 1]
    BY <1>5 DEF w
  <2>2. cover = [i \in Id |-> i]
    BY DEF ReadTiled
  <2>3. QED
    BY <1>1, <1>2, <2>1, <2>2, WaitingCovered
<1>11. Follows(h', rd)
  <2>1. Starts(h', rd) - 1 = tk
    BY <1>1, <1>10
  <2>2. tk \in ToSet(h'.toks) \cup {Null}
    <3>1. CASE tk = 0
      BY <3>1 DEF Null
    <3>2. CASE tk # 0
      <4>1. Len(h.toks) \in DOMAIN h.toks /\ h.toks[Len(h.toks)] = tk
        BY <1>1, <1>3, <3>2 DEF Last
      <4>2. tk \in ToSet(h.toks)
        BY <4>1 DEF ToSet
      <4>3. QED
        BY <1>7, <4>2
    <3>3. QED
      BY <3>1, <3>2
  <2>3. QED
    BY <2>1, <2>2 DEF Follows
<1>12. ASSUME NEW t \in ToSet(h.toks)
       PROVE  Covered(h', cover, t) /\ Follows(h', t)
  <2>1. t \in Id /\ t # rd /\ h'.pfx[t] = h.pfx[t] /\ 0 < t /\ 0 <= t
    BY <1>5, <1>6, NullOutside DEF Null
  <2>2. Covered(h, cover, t) /\ Follows(h, t)
    BY <2>1 DEF ReadTiled, Tiled
  <2>3. QED
    BY <1>7, <2>1, <2>2 DEF Covered, Follows, Starts, After
<1>13. QED
  BY <1>7, <1>8, <1>9, <1>10, <1>11, <1>12 DEF Tiled

LEMMA ReadFileTiled ==
  ASSUME LInv, pc = "read", ReadTiled, ReadFile
  PROVE  ReadTiled'
<1>1. RInv /\ FileOrder(h) /\ h \in Heap /\ Tiled(h, cover, 0)
  BY DEF LInv, RInv, IInv, TypeOK, ReadTiled
<1>2. UNCHANGED parseVars
  BY DEF ReadFile
<1>3. UNCHANGED <<cover, docs, unmute, branched, recovered>>
  BY <1>2 DEF parseVars
<1>4. ToSet(h.toks) \subseteq Id
  BY <1>1 DEF RInv, IInv, TypeOK, Heap, ToSet
<1>5. /\ FileKinds(h') /\ \A t \in ToSet(h'.toks) : h'.kind[t] = "eof" => t = tk'
      /\ Tiled(h', cover, 0)
  <2>1. CASE \E kind \in PrefixKinds : ReadPrefix(kind)
    <3>1. PICK kind \in PrefixKinds : ReadPrefix(kind)
      BY <2>1
    <3>2. h' = [h EXCEPT !.kind[rd] = kind] /\ tk' = tk
      BY <3>1 DEF ReadPrefix
    <3>3. SameLists(h, h') /\ \A e \in Id \ {rd} : h'.kind[e] = h.kind[e]
      BY <1>1, <3>2 DEF SameLists, Heap
    <3>4. Tiled(h', cover, 0)
      BY <1>1, <3>3, TiledSame
    <3>5. rd \notin ToSet(h.toks)
      <4>1. \A i \in DOMAIN h.toks : h.toks[i] <= tk /\ h.toks[i] \in Nat
        BY <1>1, HeapFields, ElementsOf, NullOutside DEF RInv, IInv, ListOK
      <4>2. tk < rd /\ tk \in Nat /\ rd \in Nat
        BY <1>1, MaxLenAssumption DEF RInv, IInv, TypeOK
      <4>3. QED
        BY <4>1, <4>2 DEF ToSet
    <3>6. \A t \in ToSet(h.toks) : h'.kind[t] = h.kind[t]
      BY <1>4, <3>3, <3>5
    <3>7. QED
      BY <3>2, <3>3, <3>4, <3>6 DEF FileKinds, SameLists, ReadTiled
  <2>2. CASE \E kind \in {"tok", "eof"} : ReadToken(kind)
    BY <1>1, <2>2, ReadTokenTiled
  <2>3. CASE BranchEnter \/ BranchLink \/ BranchLeave \/ SkipPrefix \/ EndOfFile
    <3>1. SameLists(h, h')
      BY <1>1, <2>3, LinkLists
    <3>2. Tiled(h', cover, 0)
      BY <1>1, <3>1, TiledSame
    <3>3. \A t \in ToSet(h.toks) : h.kind[t] \in {"tok", "eof"}
      BY DEF ReadTiled, FileKinds
    <3>4. \A t \in ToSet(h.toks) : h'.kind[t] = h.kind[t]
      BY <1>1, <1>4, <2>3, <3>3, LinkKinds DEF BranchKinds
    <3>5. tk' = tk
      BY <2>3 DEF BranchEnter, BranchLink, BranchLeave, SkipPrefix, EndOfFile
    <3>6. QED
      BY <3>1, <3>2, <3>3, <3>4, <3>5 DEF FileKinds, SameLists, ReadTiled
  <2>4. QED
    BY <2>1, <2>2, <2>3 DEF ReadFile
<1>6. QED
  BY <1>3, <1>5 DEF ReadTiled

-----------------------------------------------------------------------------
(* The token parsed next.                                                    *)

LEMMA NextOfFacts ==
  ASSUME NEW g, Parsed(g), NEW s, s = Null \/ (s \in ToSet(g.toks) /\ g.kind[s] # "eof")
  PROVE  /\ NextOf(g, s) \in ToSet(g.toks) /\ s < NextOf(g, s) /\ s \in Nat
         /\ \A v \in ToSet(g.toks) : s < v => NextOf(g, s) <= v
         /\ Follows(g, NextOf(g, s)) => Starts(g, NextOf(g, s)) = s + 1
<1>1. ToSet(g.toks) \subseteq Nat /\ Null \notin ToSet(g.toks) /\ ToSet(g.toks) \subseteq Pos
  BY TokenFacts
<1>2. CASE s = Null
  <2>1. NextOf(g, s) = Head(g.toks) /\ s = 0
    BY <1>2 DEF NextOf, Null
  <2>2. Head(g.toks) \in ToSet(g.toks) /\ \A v \in ToSet(g.toks) : Head(g.toks) <= v
    BY HeadFirst
  <2>3. Follows(g, Head(g.toks)) => Starts(g, Head(g.toks)) = 1
    BY HeadStarts
  <2>4. 0 < Head(g.toks)
    BY <1>1, <2>2 DEF Pos
  <2>5. QED
    BY <2>1, <2>2, <2>3, <2>4
<1>3. CASE s # Null
  <2>1. s \in ToSet(g.toks) /\ g.kind[s] # "eof" /\ NextOf(g, s) = TokenNext(g, s)
    BY <1>3 DEF NextOf
  <2>2. /\ TokenNext(g, s) \in ToSet(g.toks) /\ s < TokenNext(g, s)
        /\ \A v \in ToSet(g.toks) : s < v => TokenNext(g, s) <= v
    BY <2>1, NextFirst
  <2>3. Follows(g, TokenNext(g, s)) => Starts(g, TokenNext(g, s)) = s + 1
    BY <2>1, NextStarts
  <2>4. QED
    BY <1>1, <2>1, <2>2, <2>3
<1>4. QED
  BY <1>2, <1>3

LEMMA TiledFrom ==
  ASSUME NEW g, Parsed(g), NEW c, NEW f \in Nat, Tiled(g, c, f), NEW d \in Nat, f <= d
  PROVE  Tiled(g, c, d)
<1>1. ToSet(g.toks) \subseteq Nat
  BY TokenFacts
<1>2. ASSUME NEW t \in ToSet(g.toks)
      PROVE  (d <= t => f <= t) /\ (d < t => f < t)
  <2>1. t \in Nat
    BY <1>1
  <2>2. QED
    BY <2>1
<1>3. QED
  BY <1>2 DEF Tiled

LEMMA TiledAt ==
  ASSUME NEW g, Parsed(g), NEW c, Tiled(g, c, 0), NEW t \in ToSet(g.toks)
  PROVE  Covered(g, c, t) /\ Follows(g, t)
<1>1. t \in Pos
  BY TokenFacts
<1>2. 0 < t /\ 0 <= t
  BY <1>1 DEF Pos
<1>3. QED
  BY <1>2 DEF Tiled

LEMMA NothingEmitted == ExecOf(<<>>) = Emitted(0, 0)
<1>1. [i \in 1..0 |-> i] = <<>>
  OBVIOUS
<1>2. QED
  BY <1>1, ExecOfNone DEF Unmuted, Emitted

-----------------------------------------------------------------------------
(* The parser starts.                                                        *)

\* No token has two alternatives.
LEMMA SingleStart ==
  ASSUME NEW g, Parsed(g),
         ~ \E t \in ToSet(g.toks) :
               Cardinality({p \in ToSet(g.pfx[t]) : IsAlternative(g, p)}) > 1
  PROVE  Single(g)
<1> SUFFICES ASSUME NEW p \in Id, NEW q \in Id, IsAlternative(g, p), IsAlternative(g, q),
                    g.par[p] = g.par[q], p # q
             PROVE  FALSE
  BY DEF Single
<1> DEFINE t == g.par[p]
           S == {e \in ToSet(g.pfx[t]) : IsAlternative(g, e)}
<1>1. Core(g) /\ g \in Heap /\ InFile(g) /\ ParentsHoldIn(g)
  BY CoreFacts DEF Parsed
<1>2. t \in Id /\ p \in ToSet(g.pfx[t]) /\ q \in ToSet(g.pfx[t]) /\ t # Null
  BY <1>1, AlternativeFlagged
<1>3. t \in ToSet(g.toks)
  BY <1>1, <1>2 DEF ParentsHoldIn
<1>4. ASSUME NEW e \in S
      PROVE  e \in Pos
  <2>1. g.pfx[t] \in Seq(Id)
    BY <1>1, <1>2, HeapFields
  <2>2. e \in Id
    BY <2>1, ToSetType
  <2>3. g.par[e] # Null
    BY <1>1, <2>2, AlternativeFlagged
  <2>4. QED
    BY <1>1, <2>2, <2>3 DEF InFile
<1>5. p \in S /\ q \in S
  BY <1>2
<1>6. S \in SUBSET Pos
  BY <1>4
<1>7. ~(Cardinality(S) > 1)
  BY <1>3
<1> HIDE DEF S
<1>8. QED
  BY <1>5, <1>6, <1>7, TwoMembers

LEMMA LoopOInv ==
  ASSUME pc' \in {"loop", "unit"}, branched' \in 0..Many, recovered' \in 0..Many, LastOnly',
         ~shared' /\ recovered' = 0 => ValidSource',
         ~shared' /\ recovered' = 0 /\ branched' = 0 => Untouched',
         ~shared' /\ recovered' = 1 /\ branched' = 0 => FoldedOnce'
  PROVE  OInv'
BY DEF OInv, Running

LEMMA StartOInv ==
  ASSUME LInv, LInv', OInv, pc = "read", StartParsing
  PROVE  OInv'
<1>1. /\ RInv /\ FileOrder(h) /\ h \in Heap /\ IInv /\ Tiled(h, cover, 0) /\ FileKinds(h)
      /\ \A t \in ToSet(h.toks) : h.kind[t] = "eof" => t = tk
      /\ cover = [i \in Id |-> i] /\ docs = <<>> /\ unmute = Null
      /\ branched = 0 /\ recovered = 0
  BY DEF LInv, RInv, IInv, TypeOK, OInv, ReadTiled
<1>2. /\ BranchPurge /\ phase = "discard" /\ tk' = tk /\ pc' = "loop" /\ cover' = cover
      /\ docs' = docs /\ unmute' = unmute /\ branched' = branched /\ recovered' = recovered
      /\ st' = st /\ stamps' = stamps
      /\ shared' = \E t \in ToSet(h'.toks) :
             Cardinality({p \in ToSet(h'.pfx[t]) : IsAlternative(h', p)}) > 1
  BY DEF StartParsing, BranchPurge
<1>3. st = Null /\ stamps = <<>>
  BY DEF LInv
<1>4. Parsed(h')
  BY <1>2 DEF LInv
<1>5. SameLists(h, h')
  BY <1>1, <1>2, LinkLists
<1>6. /\ tk \in ToSet(h.toks) /\ h.kind[tk] = "eof"
      /\ \A t \in ToSet(h.toks) : t <= tk
  <2>1. tk # 0 /\ h.kind[tk] = "eof"
    BY <1>1, <1>2 DEF IInv, ReadOK, AtEof
  <2>2. h.toks # <<>> /\ Last(h.toks) = tk /\ \A i \in DOMAIN h.toks : h.toks[i] <= tk
    BY <1>1, <2>1 DEF IInv, ListOK
  <2>3. Len(h.toks) \in DOMAIN h.toks /\ h.toks[Len(h.toks)] = tk
    BY <1>1, <2>2, HeapFields DEF Last
  <2>4. QED
    BY <2>1, <2>2, <2>3 DEF ToSet
<1>7. \A t \in ToSet(h.toks) : t \in Id /\ h'.kind[t] = h.kind[t]
  <2>1. \A t \in ToSet(h.toks) : t \in Id
    BY <1>1, HeapFields DEF ToSet
  <2>2. \A t \in ToSet(h.toks) : h.kind[t] \notin BranchKinds
    BY <1>1 DEF FileKinds, BranchKinds
  <2>3. QED
    BY <1>1, <1>2, <2>1, <2>2, LinkKinds
<1>8. ToSet(h'.toks) = ToSet(h.toks)
  BY <1>5 DEF SameLists
<1>9. LastOnly'
  <2>1. FileKinds(h')
    BY <1>1, <1>7, <1>8 DEF FileKinds
  <2>2. tk # Null
    BY <1>6, <1>7, NullOutside
  <2>3. \A t \in ToSet(h.toks) : cover[t] = t
    BY <1>1, <1>7
  <2>4. QED
    BY <1>1, <1>2, <1>3, <1>6, <1>7, <1>8, <2>1, <2>2, <2>3 DEF LastOnly
<1>10. Tiled(h', cover, 0)
  BY <1>1, <1>5, TiledSame
<1>11. /\ Goal' = Head(h'.toks) /\ Head(h'.toks) \in ToSet(h'.toks)
       /\ Head(h'.toks) \notin h'.flag /\ Head(h'.toks) \in Nat
  <2>1. Null \notin h'.flag /\ ToSet(h'.toks) \subseteq Nat
    BY <1>4, TokenFacts
  <2>2. QED
    BY <1>1, <1>2, <1>3, <1>4, <2>1, HeadUnflagged, HeadFirst DEF Goal, Facing, NextOf
<1>12. ASSUME ~shared'
       PROVE  ValidSource'
  <2>1. Single(h')
    BY <1>2, <1>4, <1>12, SingleStart
  <2>2. Tiled(h', cover, Head(h'.toks))
    BY <1>4, <1>10, <1>11, TiledFrom
  <2>3. Starts(h', Head(h'.toks)) = 1
    BY <1>4, <1>10, <1>11, TiledAt, HeadStarts
  <2>4. ExecOf(<<>>) = Emitted(0, 1 - 1)
    BY NothingEmitted
  <2>5. QED
    BY <1>1, <1>2, <1>11, <2>1, <2>2, <2>3, <2>4 DEF ValidSource
<1>13. Untouched'
  BY <1>1, <1>2, <1>3, <1>10 DEF Untouched
<1>14. branched' \in 0..Many /\ recovered' \in 0..Many /\ recovered' # 1
  BY <1>1, <1>2 DEF Many
<1>15. QED
  BY <1>2, <1>9, <1>12, <1>13, <1>14, LoopOInv

-----------------------------------------------------------------------------
(* The loop: the facts its steps need.                                       *)

\* What holds whenever a step of the loop is taken.
InLoop ==
    /\ Parsed(h) /\ LastOnly /\ Ahead /\ cover \in [Id -> Int]
    /\ ToSet(h.toks) \subseteq Pos /\ ToSet(h.toks) \subseteq Id
    /\ ToSet(h.toks) \subseteq Nat
    /\ Null \notin ToSet(h.toks) /\ Null \notin h.flag /\ h.flag \subseteq ToSet(h.toks)
    /\ st # Null => st \in ToSet(h.toks)
    /\ ~IsBranch => st = Null \/ (st \in ToSet(h.toks) /\ h.kind[st] # "eof")
    /\ IsBranch <=> st \in h.flag
    /\ Upcoming = NextOf(h, st) /\ Upcoming \in ToSet(h.toks)
    /\ unmute # Null => unmute \in ToSet(h.toks)
    /\ Goal \in ToSet(h.toks)
    /\ docs \in Seq(Seq(Item)) /\ stamps \in Seq(Pos)

LEMMA LoopHas ==
  ASSUME LInv, UInv, OInv, pc \in {"loop", "unit"}
  PROVE  InLoop
<1>1. Parsed(h) /\ LastOnly /\ Ahead /\ cover \in [Id -> Int]
      /\ (st # Null => st \in ToSet(h.toks)) /\ Upcoming \in ToSet(h.toks)
      /\ docs \in Seq(Seq(Item)) /\ stamps \in Seq(Pos)
  BY LoopFacts DEF LInv, UInv, OInv, Running
<1>2. /\ ToSet(h.toks) \subseteq Pos /\ ToSet(h.toks) \subseteq Id /\ ToSet(h.toks) \subseteq Nat
      /\ Null \notin ToSet(h.toks) /\ Null \notin h.flag /\ h.flag \subseteq ToSet(h.toks)
  BY <1>1, TokenFacts
<1>3. IsBranch <=> st \in h.flag
  BY <1>2 DEF IsBranch
<1>4. ~IsBranch => st = Null \/ (st \in ToSet(h.toks) /\ h.kind[st] # "eof")
  BY <1>1, <1>3 DEF LastOnly
<1>5. Upcoming = NextOf(h, st)
  BY DEF Upcoming, NextOf
<1>6. unmute # Null => unmute \in ToSet(h.toks)
  BY <1>1 DEF Ahead, InList
<1>7. Goal \in ToSet(h.toks)
  BY <1>1, <1>2, <1>5, <1>6 DEF Goal, Facing
<1>8. QED
  BY <1>1, <1>2, <1>3, <1>4, <1>5, <1>6, <1>7 DEF InLoop

\* The token parsed next when the lexer does not halt.
LEMMA GoingOn ==
  ASSUME InLoop, ~Halts, pc = "loop" \/ h.kind[Upcoming] # "eof"
  PROVE  /\ ~IsBranch /\ Upcoming \notin h.flag /\ Facing(h, st) = Upcoming
         /\ st < Upcoming /\ st \in Nat
         /\ unmute # Null => Upcoming <= unmute
<1>1. ~IsBranch
  <2>1. CASE st # Null /\ h.kind[st] = "eof"
    <3>1. Upcoming = st
      BY <2>1 DEF Upcoming
    <3>2. st = tk /\ pc = "loop"
      BY <2>1, <3>1 DEF InLoop, LastOnly
    <3>3. QED
      BY <3>2 DEF InLoop, LastOnly
  <2>2. CASE st = Null \/ h.kind[st] # "eof"
    BY <2>2 DEF Halts, IsBranch
  <2>3. QED
    BY <2>1, <2>2
<1>2. st \notin h.flag /\ (st = Null \/ (st \in ToSet(h.toks) /\ h.kind[st] # "eof"))
  BY <1>1 DEF InLoop
<1>3. /\ NextOf(h, st) = Upcoming /\ st < Upcoming /\ st \in Nat
      /\ \A v \in ToSet(h.toks) : st < v => Upcoming <= v
  BY <1>2, NextOfFacts DEF InLoop
<1>4. Upcoming \notin h.flag
  <2>1. CASE st = Null
    <3>1. Upcoming = Head(h.toks)
      BY <2>1 DEF Upcoming
    <3>2. QED
      BY <3>1, HeadUnflagged DEF InLoop
  <2>2. CASE st # Null
    BY <1>2, <2>2 DEF Halts
  <2>3. QED
    BY <2>1, <2>2
<1>5. Facing(h, st) = Upcoming
  BY <1>2, <1>3 DEF Facing
<1>6. unmute # Null => Upcoming <= unmute
  <2> SUFFICES ASSUME unmute # Null
               PROVE  st < unmute
    BY <1>3 DEF InLoop
  <2>1. unmute \in Pos
    BY DEF InLoop
  <2>2. CASE st = Null
    BY <2>1, <2>2 DEF Null, Pos
  <2>3. CASE st # Null
    BY <1>1, <2>3 DEF InLoop, Ahead
  <2>4. QED
    BY <2>2, <2>3
<1>7. QED
  BY <1>1, <1>3, <1>4, <1>5, <1>6

\* The documents emitted so far stay when one is appended.
LEMMA AppendKeeps ==
  ASSUME NEW S, NEW ds \in Seq(S), NEW d \in S
  PROVE  /\ Len(Append(ds, d)) = Len(ds) + 1
         /\ \A k \in 0..Len(ds) : SubSeq(Append(ds, d), 1, k) = SubSeq(ds, 1, k)
<1> DEFINE n == Len(ds)
           e == Append(ds, d)
<1>1. n \in Nat /\ e \in Seq(S) /\ Len(e) = n + 1 /\ \A i \in 1..n : e[i] = ds[i]
  OBVIOUS
<1> HIDE DEF e
<1>2. ASSUME NEW k \in 0..n
      PROVE  SubSeq(e, 1, k) = SubSeq(ds, 1, k)
  <2> DEFINE a == SubSeq(e, 1, k)
             b == SubSeq(ds, 1, k)
  <2>1. k <= n /\ k \in Nat /\ k <= n + 1 /\ \A i \in 1..k : i \in 1..n
    BY <1>1
  <2>2. /\ a \in Seq(S) /\ Len(a) = k /\ \A i \in 1..k : a[i] = e[i]
        /\ b \in Seq(S) /\ Len(b) = k /\ \A i \in 1..k : b[i] = ds[i]
    BY <1>1, <2>1
  <2> HIDE DEF a, b
  <2>3. a = b
    BY <1>1, <2>1, <2>2, SameItems
  <2>4. QED
    BY <2>3 DEF a, b
<1>3. QED
  BY <1>1, <1>2 DEF e

-----------------------------------------------------------------------------
(* The cursor moves to the token the lexer halts at.                         *)

LEMMA HaltOInv ==
  ASSUME LInv, UInv, OInv, EnterUnit \/ Halt
  PROVE  OInv'
<1>1. /\ pc \in {"loop", "unit"} /\ pc' = "unit" /\ UNCHANGED <<vars, stamps, cover, unmute>>
      /\ shared' = shared /\ branched' = branched /\ recovered' = recovered
  BY DEF EnterUnit, Halt
<1>2. /\ InLoop
      /\ h' = h /\ tk' = tk /\ stamps' = stamps /\ cover' = cover /\ unmute' = unmute
  BY <1>1, LoopHas DEF vars, readVars
<1>3. \/ st' = st /\ pc = "loop"
      \/ ~IsBranch /\ st' = Upcoming /\ Upcoming \in h.flag
  BY DEF EnterUnit, Halt, Halts, AfterHalt
<1>4. Facing(h, st') = Facing(h, st)
  <2>1. CASE st' = st
    BY <2>1
  <2>2. CASE ~IsBranch /\ st' = Upcoming /\ Upcoming \in h.flag
    BY <1>2, <2>2 DEF InLoop, Facing
  <2>3. QED
    BY <1>3, <2>1, <2>2
<1>5. Goal' = Goal
  BY <1>2, <1>4 DEF Goal
<1>6. \/ pc = "loop" /\ docs' = Append(docs, <<>>)
      \/ pc = "unit" /\ docs' = docs
  BY DEF EnterUnit, Halt
<1> DEFINE S == Seq(Item)
<1>7. docs \in Seq(S) /\ <<>> \in S
  BY <1>2, EmptyDoc DEF InLoop
<1> HIDE DEF S
<1>8. /\ ExecOf(docs') = ExecOf(docs)
      /\ Len(docs') = Len(docs) + (IF pc = "loop" THEN 1 ELSE 0)
      /\ \A k \in 0..Len(docs) : SubSeq(docs', 1, k) = SubSeq(docs, 1, k)
  <2>1. CASE pc = "loop" /\ docs' = Append(docs, <<>>)
    <3>1. ExecOf(Append(docs, <<>>)) = ExecDoc(ExecOf(docs), <<>>)
      BY <1>7, ExecOfAppend
    <3>2. ExecOf(docs') = ExecOf(docs)
      BY <2>1, <3>1, ExecNone
    <3>3. QED
      BY <1>7, <2>1, <3>2, AppendKeeps
  <2>2. CASE pc = "unit" /\ docs' = docs
    BY <1>7, <2>2
  <2>3. QED
    BY <1>6, <2>1, <2>2
<1>9. LastOnly'
  <2>1. st' = tk => st' \in h.flag
    BY <1>2, <1>3 DEF InLoop, LastOnly
  <2>2. docs' # <<>>
    <3>1. CASE pc = "loop"
      <4>1. Len(docs') # 0
        BY <1>7, <1>8, <3>1
      <4>2. QED
        BY <4>1
    <3>2. CASE pc = "unit"
      BY <1>2, <1>6, <3>2 DEF InLoop, LastOnly
    <3>3. QED
      BY <1>1, <3>1, <3>2
  <2>3. LastOnly
    BY <1>2 DEF InLoop
  <2>4. QED
    BY <1>1, <1>2, <2>1, <2>2, <2>3 DEF LastOnly, FileKinds
<1>10. ASSUME ValidSource
       PROVE  ValidSource'
  BY <1>2, <1>5, <1>8, <1>10 DEF ValidSource
<1>11. ASSUME Untouched
       PROVE  Untouched'
  <2>1. ASSUME NEW i \in DOMAIN stamps, st' \notin h.flag
        PROVE  TokenNext(h, stamps[i]) \notin h.flag
    <3>1. st' = st /\ pc = "loop"
      BY <1>3, <2>1
    <3>2. CASE i < Len(stamps)
      BY <1>11, <3>1, <3>2 DEF Untouched
    <3>3. CASE i = Len(stamps)
      <4>1. stamps # <<>> /\ st = stamps[i]
        BY <1>11, <3>1, <3>3 DEF Untouched, Last
      <4>2. st # Null /\ ~IsBranch /\ h.kind[st] # "eof"
        <5>1. st \in Pos
          BY <1>2, <4>1, ElementsOf DEF InLoop
        <5>2. st # Null
          BY <5>1 DEF Null, Pos
        <5>3. st \notin h.flag
          BY <2>1, <3>1
        <5>4. QED
          BY <1>2, <5>2, <5>3 DEF InLoop
      <4>3. Upcoming = TokenNext(h, st)
        BY <4>2 DEF Upcoming
      <4>4. Upcoming \notin h.flag
        <5>1. EnterUnit
          BY <3>1 DEF Halt
        <5>2. Upcoming \in h.flag => Halts /\ st' = Upcoming
          BY <4>2, <5>1 DEF EnterUnit, Halts, AfterHalt
        <5>3. QED
          BY <2>1, <5>2
      <4>5. QED
        BY <4>1, <4>3, <4>4
    <3>4. i < Len(stamps) \/ i = Len(stamps)
      <4>1. stamps \in Seq(Pos)
        BY <1>2 DEF InLoop
      <4>2. QED
        BY <4>1
    <3>5. QED
      BY <3>2, <3>3, <3>4
  <2>2. Len(docs') = Len(stamps) + 1
    <3>1. Len(docs) = Len(stamps) + (IF pc = "unit" THEN 1 ELSE 0)
      BY <1>11 DEF Untouched
    <3>2. Len(stamps) \in Nat
      BY <1>2 DEF InLoop
    <3>3. CASE pc = "loop"
      <4>1. Len(docs) = Len(stamps) + 0 /\ Len(docs') = Len(docs) + 1
        BY <1>8, <3>1, <3>3
      <4>2. QED
        BY <3>2, <4>1
    <3>4. CASE pc = "unit"
      <4>1. Len(docs) = Len(stamps) + 1 /\ Len(docs') = Len(docs) + 0
        BY <1>8, <3>1, <3>4
      <4>2. QED
        BY <3>2, <4>1
    <3>5. QED
      BY <1>1, <3>3, <3>4
  <2>3. \A k \in DOMAIN stamps : SubSeq(docs', 1, k) = SubSeq(docs, 1, k)
    <3>1. Len(docs) = Len(stamps) + (IF pc = "unit" THEN 1 ELSE 0)
      BY <1>11 DEF Untouched
    <3>2. Len(stamps) \in Nat /\ DOMAIN stamps = 1..Len(stamps)
      BY <1>2 DEF InLoop
    <3>3. \A k \in DOMAIN stamps : k \in 0..Len(docs)
      BY <1>1, <3>1, <3>2
    <3>4. QED
      BY <1>8, <3>3
  <2>4. QED
    BY <1>1, <1>2, <1>11, <2>1, <2>2, <2>3 DEF Untouched
<1>12. ASSUME FoldedOnce
       PROVE  FoldedOnce'
  BY <1>2, <1>4, <1>8, <1>12 DEF FoldedOnce
<1>13. QED
  BY <1>1, <1>9, <1>10, <1>11, <1>12 DEF OInv, Running

-----------------------------------------------------------------------------
(* A token is consumed.                                                      *)

\* What is consumed when emission is not muted.
LEMMA ConsumeShown ==
  ASSUME LInv, InLoop, pc = "unit", NEW u \in ToSet(h.toks), h.kind[u] # "eof",
         Covered(h, cover, u), Follows(h, TokenNext(h, u)),
         NEW m, m = 0 \/ (m = 1 /\ u = unmute),
         ExecOf(docs) = Emitted(m, Starts(h, u) - 1)
  PROVE  /\ ExecOf(EmitInto(docs, u)) =
                Emitted(IF TokenNext(h, u) \in h.flag THEN 1 ELSE 0,
                        Starts(h, TokenNext(h, u)) - 1)
         /\ Starts(h, TokenNext(h, u)) - 1 = u
<1>1. Parsed(h) /\ cover \in [Id -> Int] /\ docs # <<>> /\ cover[u] = u /\ u \in Id /\ u \in Nat
  BY DEF InLoop, LastOnly
<1>2. ExecOf(EmitInto(docs, u)) = ExecDoc(ExecOf(docs), DocToken(u))
  BY <1>1, ExecEmit
<1>3. ExecDoc(Emitted(m, Starts(h, u) - 1), DocToken(u)) =
          Emitted(IF TokenNext(h, u) \in h.flag THEN 1 ELSE 0, u)
  BY <1>1, TokenShown
<1>4. Starts(h, TokenNext(h, u)) = u + 1
  BY <1>1, NextStarts
<1>5. Starts(h, TokenNext(h, u)) - 1 = u
  BY <1>1, <1>4
<1>6. QED
  BY <1>2, <1>3, <1>5

LEMMA ConsumeOInv ==
  ASSUME LInv, UInv, OInv, Consume
  PROVE  OInv'
<1> DEFINE u == Upcoming
           v == TokenNext(h, u)
<1>1. /\ pc = "unit" /\ pc' = "unit" /\ UNCHANGED <<vars, stamps, cover>>
      /\ shared' = shared /\ branched' = branched /\ recovered' = recovered
      /\ ~Halts /\ h.kind[u] # "eof" /\ st' = u /\ docs' = EmitInto(docs, u)
      /\ unmute' = IF u = unmute THEN Null ELSE unmute
  BY DEF Consume
<1>2. /\ InLoop
      /\ h' = h /\ tk' = tk /\ stamps' = stamps /\ cover' = cover
  BY <1>1, LoopHas DEF vars, readVars
<1>3. /\ ~IsBranch /\ u \notin h.flag /\ Facing(h, st) = u /\ st < u /\ st \in Nat
      /\ unmute # Null => u <= unmute
  BY <1>1, <1>2, GoingOn
<1>4. u \in ToSet(h.toks) /\ u \in Id /\ u \in Nat /\ u # Null
  BY <1>2 DEF InLoop
<1> HIDE DEF u
<1>5. /\ v \in ToSet(h.toks) /\ u < v /\ v \in Nat
      /\ \A w \in ToSet(h.toks) : u < w => v <= w
  BY <1>1, <1>2, <1>4, NextFirst DEF InLoop
<1>6. Facing(h, u) = v
  <2>1. NextOf(h, u) = v
    BY <1>1, <1>4 DEF NextOf
  <2>2. QED
    BY <1>3, <2>1 DEF Facing
<1> HIDE DEF v
<1>7. /\ docs # <<>> /\ docs \in Seq(Seq(Item)) /\ Len(docs') = Len(docs)
      /\ \A k \in 0..Len(docs)-1 : SubSeq(docs', 1, k) = SubSeq(docs, 1, k)
  <2>1. docs # <<>> /\ docs \in Seq(Seq(Item)) /\ Parsed(h)
    BY <1>1, <1>2 DEF InLoop, LastOnly
  <2>2. QED
    BY <1>1, <1>4, <2>1, ExecEmit
<1>8. LastOnly'
  <2>1. LastOnly
    BY <1>2 DEF InLoop
  <2>2. u # tk
    BY <1>1, <2>1 DEF LastOnly
  <2>3. docs' # <<>>
    <3> DEFINE S == Seq(Item)
    <3>1. docs \in Seq(S) /\ docs # <<>> /\ Len(docs') = Len(docs)
      BY <1>7
    <3> HIDE DEF S
    <3>2. Len(docs') # 0
      BY <3>1
    <3>3. QED
      BY <3>2
  <2>4. QED
    BY <1>1, <1>2, <2>1, <2>2, <2>3 DEF LastOnly, FileKinds
<1>9. ASSUME ValidSource
      PROVE  ValidSource'
  <2>1. CASE unmute = Null \/ unmute = u
    <3>1. Goal = u /\ unmute' = Null
      BY <1>1, <1>3, <1>4, <2>1 DEF Goal
    <3>2. Goal' = v
      BY <1>1, <1>2, <1>6, <3>1 DEF Goal
    <3> DEFINE m == IF unmute # Null THEN 1 ELSE 0
    <3>3. ExecOf(docs) = Emitted(m, Starts(h, u) - 1)
      BY <1>3, <1>9, <3>1 DEF ValidSource
    <3>4. Tiled(h, cover, u)
      BY <1>9, <3>1 DEF ValidSource
    <3>5. Covered(h, cover, u)
      <4>1. u <= u
        BY <1>4
      <4>2. QED
        BY <1>4, <3>4, <4>1 DEF Tiled
    <3>6. Follows(h, v)
      BY <1>5, <3>4 DEF Tiled
    <3>7. m = 0 \/ (m = 1 /\ u = unmute)
      BY <2>1
    <3> HIDE DEF m
    <3>8. ExecOf(docs') = Emitted(IF v \in h.flag THEN 1 ELSE 0, Starts(h, v) - 1)
      BY <1>1, <1>2, <1>4, <3>3, <3>5, <3>6, <3>7, ConsumeShown DEF v
    <3>9. Tiled(h, cover, v)
      <4>1. u <= v /\ Parsed(h)
        BY <1>2, <1>4, <1>5 DEF InLoop
      <4>2. QED
        BY <1>4, <1>5, <3>4, <4>1, TiledFrom
    <3>10. Single(h)
      BY <1>9 DEF ValidSource
    <3>11. QED
      BY <1>2, <3>1, <3>2, <3>8, <3>9, <3>10 DEF ValidSource
  <2>2. CASE unmute # Null /\ unmute # u
    <3>1. unmute' = unmute /\ unmute \in ToSet(h.toks) /\ unmute \in Nat /\ u <= unmute
      BY <1>1, <1>2, <1>3, <2>2 DEF InLoop
    <3>2. Goal = unmute /\ Goal' = unmute
      BY <2>2, <3>1 DEF Goal
    <3>3. u < unmute
      BY <1>4, <2>2, <3>1
    <3>4. v \notin h.flag
      <4>1. v <= unmute
        BY <1>5, <3>1, <3>3
      <4>2. \A t \in h.flag : unmute < t
        BY <1>9, <2>2 DEF ValidSource
      <4>3. QED
        BY <1>5, <3>1, <4>1, <4>2
    <3>5. ExecOf(docs) = Emitted(1, Starts(h, unmute) - 1)
      BY <1>9, <2>2, <3>2 DEF ValidSource
    <3>6. ExecOf(docs') = Emitted(1, Starts(h, unmute) - 1)
      <4>1. Parsed(h) /\ cover \in [Id -> Int]
        BY <1>2 DEF InLoop
      <4>2. ExecOf(docs') = ExecDoc(ExecOf(docs), DocToken(u))
        BY <1>1, <1>4, <1>7, <4>1, ExecEmit
      <4>3. ExecDoc(Emitted(1, Starts(h, unmute) - 1), DocToken(u))
                = Emitted(1, Starts(h, unmute) - 1)
        BY <1>4, <2>2, <3>4, <4>1, TokenHidden DEF v
      <4>4. QED
        BY <3>5, <4>2, <4>3
    <3>7. QED
      BY <1>2, <1>9, <2>2, <3>1, <3>2, <3>6 DEF ValidSource
  <2>3. QED
    BY <2>1, <2>2
<1>10. ASSUME Untouched
       PROVE  Untouched'
  <2>1. unmute' = Null
    BY <1>1, <1>4, <1>10 DEF Untouched
  <2>2. Len(docs') = Len(stamps) + 1 /\ Len(docs) = Len(stamps) + 1
    BY <1>1, <1>7, <1>10 DEF Untouched
  <2>3. st \notin h.flag
    BY <1>2, <1>3 DEF InLoop
  <2>4. \A i \in DOMAIN stamps : TokenNext(h, stamps[i]) \notin h.flag
    BY <1>1, <1>10, <2>3 DEF Untouched
  <2>5. \A k \in DOMAIN stamps : SubSeq(docs', 1, k) = SubSeq(docs, 1, k)
    <3>1. Len(stamps) \in Nat /\ DOMAIN stamps = 1..Len(stamps)
      BY <1>2 DEF InLoop
    <3>2. \A k \in DOMAIN stamps : k \in 0..Len(docs)-1
      BY <2>2, <3>1
    <3>3. QED
      BY <1>7, <3>2
  <2>6. QED
    BY <1>1, <1>2, <1>10, <2>1, <2>2, <2>4, <2>5 DEF Untouched
<1>11. ASSUME FoldedOnce
       PROVE  FoldedOnce'
  <2>1. PICK m \in {0, 1} : /\ ExecOf(docs) = Emitted(m, Starts(h, u) - 1)
                            /\ u \notin h.flag => m = 0
    BY <1>3, <1>11 DEF FoldedOnce
  <2>2. m = 0
    BY <1>3, <2>1
  <2>3. Covered(h, cover, u) /\ Follows(h, v)
    BY <1>2, <1>4, <1>5, <1>11, TiledAt DEF FoldedOnce, InLoop
  <2>4. ExecOf(docs') = Emitted(IF v \in h.flag THEN 1 ELSE 0, Starts(h, v) - 1)
    BY <1>1, <1>2, <1>4, <2>1, <2>2, <2>3, ConsumeShown DEF v
  <2>5. Tiled(h, cover, 0)
    BY <1>11 DEF FoldedOnce
  <2>6. QED
    BY <1>1, <1>2, <1>6, <2>4, <2>5 DEF FoldedOnce
<1>12. QED
  BY <1>1, <1>8, <1>9, <1>10, <1>11 DEF OInv, Running

-----------------------------------------------------------------------------
(* A unit ends well.                                                         *)

\* Nothing but references may tell g from k.
Alike(g, k) ==
    /\ SameLists(g, k) /\ SameLinks(g, k) /\ k.flag = g.flag

LEMMA AlikeFacts ==
  ASSUME NEW g, NEW k, Alike(g, k)
  PROVE  /\ \A s : Facing(k, s) = Facing(g, s)
         /\ \A t : Starts(k, t) = Starts(g, t) /\ TokenNext(k, t) = TokenNext(g, t)
         /\ Single(g) => Single(k)
         /\ \A c, f : Tiled(g, c, f) => Tiled(k, c, f)
         /\ FileKinds(g) => FileKinds(k)
<1>1. /\ k.toks = g.toks /\ k.pfx = g.pfx /\ k.kind = g.kind /\ k.pv = g.pv /\ k.par = g.par
      /\ k.flag = g.flag
  BY DEF Alike, SameLists, SameLinks
<1>2. \A t : Starts(k, t) = Starts(g, t) /\ TokenNext(k, t) = TokenNext(g, t)
  BY <1>1 DEF Starts, After, TokenNext, InList, Index
<1>3. \A s : NextOf(k, s) = NextOf(g, s)
  BY <1>1, <1>2 DEF NextOf
<1>4. \A s : Facing(k, s) = Facing(g, s)
  BY <1>1, <1>3 DEF Facing
<1>5. Single(g) => Single(k)
  BY <1>1 DEF Single, IsAlternative
<1>6. \A c, f : Tiled(g, c, f) => Tiled(k, c, f)
  BY TiledSame DEF Alike
<1>7. FileKinds(g) => FileKinds(k)
  BY <1>1 DEF FileKinds
<1>8. QED
  BY <1>2, <1>4, <1>5, <1>6, <1>7

LEMMA GoodOInv ==
  ASSUME LInv, UInv, OInv, Good
  PROVE  OInv'
<1>1. /\ pc = "unit" /\ pc' = "loop" /\ UNCHANGED <<readVars, cover>> /\ unmute' = unmute
      /\ shared' = shared /\ branched' = branched /\ recovered' = recovered
      /\ ~IsBranch /\ st' = st /\ docs' = docs /\ stamps' = Append(stamps, st)
      /\ h' = Ref(h, st) /\ Last(docs) # <<>>
  BY DEF Good
<1>2. InLoop /\ tk' = tk /\ cover' = cover
  BY <1>1, LoopHas DEF readVars
<1>3. /\ st # Null /\ st \in ToSet(h.toks) /\ h.kind[st] # "eof" /\ st \notin h.flag
      /\ st \in Pos /\ st \in Id /\ h \in Heap
  <2>1. st # Null
    BY <1>1 DEF LInv
  <2>2. QED
    BY <1>1, <1>2, <2>1 DEF InLoop, Parsed, Core
<1>4. Alike(h, h')
  <2>1. SameLists(h, h') /\ SameLinks(h, h')
    BY <1>1, <1>3, RefLemma
  <2>2. h'.flag = h.flag
    BY <1>1, <1>3 DEF Ref, Heap
  <2>3. QED
    BY <2>1, <2>2 DEF Alike
<1>5. h'.toks = h.toks /\ h'.kind = h.kind /\ h'.flag = h.flag
  BY <1>4 DEF Alike, SameLists, SameLinks
<1> DEFINE n == Len(stamps)
<1>6. /\ n \in Nat /\ Len(stamps') = n + 1 /\ DOMAIN stamps' = 1..n+1 /\ DOMAIN stamps = 1..n
      /\ stamps'[n + 1] = st /\ \A i \in 1..n : stamps'[i] = stamps[i]
  BY <1>1, <1>2 DEF InLoop
<1>7. Last(stamps') = st /\ stamps' # <<>>
  <2>1. Last(Append(stamps, st)) = st /\ Append(stamps, st) # <<>>
    <3>1. stamps \in Seq(Pos)
      BY <1>2 DEF InLoop
    <3>2. QED
      BY <1>3, <3>1, AppendDoc
  <2>2. QED
    BY <1>1, <2>1
<1> HIDE DEF n
<1>8. \A i \in 1..n+1 : i = n + 1 \/ i \in 1..n
  BY <1>6
<1>9. LastOnly'
  <2>1. LastOnly
    BY <1>2 DEF InLoop
  <2>2. st # tk
    BY <1>3, <2>1 DEF LastOnly
  <2>3. FileKinds(h')
    BY <1>4, <2>1, AlikeFacts DEF LastOnly
  <2>4. \A i \in DOMAIN stamps' : stamps'[i] # tk
    BY <1>6, <1>8, <2>1, <2>2 DEF LastOnly
  <2>5. QED
    BY <1>1, <1>2, <1>5, <2>1, <2>2, <2>3, <2>4 DEF LastOnly
<1>10. Goal' = Goal /\ Facing(h', st) = Facing(h, st)
       /\ Starts(h', Goal) = Starts(h, Goal)
       /\ Starts(h', Facing(h, st)) = Starts(h, Facing(h, st))
  BY <1>1, <1>4, AlikeFacts DEF Goal
<1>11. ASSUME ValidSource
       PROVE  ValidSource'
  <2>1. Single(h') /\ Tiled(h', cover, Goal)
    BY <1>4, <1>11, AlikeFacts DEF ValidSource
  <2>2. QED
    BY <1>1, <1>2, <1>5, <1>10, <1>11, <2>1 DEF ValidSource
<1>12. ASSUME ValidSource, Untouched
       PROVE  Untouched'
  <2>1. Tiled(h', cover, 0) /\ \A t : TokenNext(h', t) = TokenNext(h, t)
    BY <1>4, <1>12, AlikeFacts DEF Untouched
  <2>2. \A i \in DOMAIN stamps' : stamps'[i] \in ToSet(h.toks)
    BY <1>3, <1>6, <1>8, <1>12 DEF Untouched
  <2>3. \A i \in DOMAIN stamps' : i < n + 1 => TokenNext(h, stamps'[i]) \notin h.flag
    <3>1. \A i \in 1..n : TokenNext(h, stamps[i]) \notin h.flag
      BY <1>1, <1>3, <1>6, <1>12 DEF Untouched
    <3>2. \A i \in 1..n+1 : i < n + 1 => i \in 1..n
      BY <1>6
    <3>3. QED
      BY <1>6, <3>1, <3>2
  <2>4. Len(docs) = n + 1
    BY <1>1, <1>12 DEF Untouched, n
  <2>5. ExecOf(docs) = Emitted(IF TokenNext(h, st) \in h.flag THEN 1 ELSE 0, st)
    <3>1. Facing(h, st) = TokenNext(h, st) /\ unmute = Null
      BY <1>3, <1>12 DEF Facing, NextOf, Untouched
    <3>2. Goal = TokenNext(h, st)
      BY <3>1 DEF Goal
    <3>3. TokenNext(h, st) \in ToSet(h.toks)
      BY <1>2, <3>2 DEF InLoop
    <3>4. Follows(h, TokenNext(h, st))
      BY <1>2, <1>12, <3>3, TiledAt DEF Untouched, InLoop
    <3>5. Starts(h, TokenNext(h, st)) = st + 1
      BY <1>2, <1>3, <3>4, NextStarts DEF InLoop
    <3>6. Starts(h, TokenNext(h, st)) - 1 = st
      BY <1>3, <3>5 DEF Pos
    <3>7. QED
      BY <1>12, <3>1, <3>2, <3>6 DEF ValidSource
  <2>6. ASSUME NEW k \in DOMAIN stamps'
        PROVE  ExecOf(SubSeq(docs, 1, k)) =
                   Emitted(IF TokenNext(h, stamps'[k]) \in h.flag THEN 1 ELSE 0, stamps'[k])
    <3>1. CASE k \in 1..n
      BY <1>6, <1>12, <3>1 DEF Untouched
    <3>2. CASE k = n + 1
      <4> DEFINE S == Seq(Item)
      <4>1. docs \in Seq(S)
        BY <1>2 DEF InLoop
      <4> HIDE DEF S
      <4>2. SubSeq(docs, 1, k) = docs
        <5>1. k = Len(docs) /\ k \in Nat
          BY <1>6, <2>4, <3>2
        <5>2. /\ SubSeq(docs, 1, k) \in Seq(S) /\ Len(SubSeq(docs, 1, k)) = Len(docs)
              /\ \A i \in 1..Len(docs) : SubSeq(docs, 1, k)[i] = docs[i]
          BY <4>1, <5>1
        <5> DEFINE a == SubSeq(docs, 1, k)
        <5> HIDE DEF a
        <5>3. a = docs
          BY <4>1, <5>2, SameItems DEF a
        <5>4. QED
          BY <5>3 DEF a
      <4>3. QED
        BY <1>6, <2>5, <3>2, <4>2
    <3>3. QED
      BY <1>6, <1>8, <3>1, <3>2
  <2>7. Len(docs') = Len(stamps') + 0
    BY <1>1, <1>6, <2>4
  <2>8. QED
    BY <1>1, <1>2, <1>5, <1>6, <1>7, <1>12, <2>1, <2>2, <2>3, <2>6, <2>7 DEF Untouched
<1>13. ASSUME FoldedOnce
       PROVE  FoldedOnce'
  <2>1. Tiled(h', cover, 0)
    BY <1>4, <1>13, AlikeFacts DEF FoldedOnce
  <2>2. QED
    BY <1>1, <1>2, <1>5, <1>10, <1>13, <2>1 DEF FoldedOnce
<1>14. QED
  BY <1>1, <1>9, <1>11, <1>12, <1>13 DEF OInv, Running

-----------------------------------------------------------------------------
(* The end of file.                                                          *)

LEMMA EofOInv ==
  ASSUME LInv, UInv, OInv, ParseEof
  PROVE  OInv'
<1>1. /\ pc = "loop" /\ pc' = "done" /\ UNCHANGED <<vars, stamps, cover>>
      /\ shared' = shared /\ branched' = branched /\ recovered' = recovered
      /\ ~Halts /\ h.kind[Upcoming] = "eof"
      /\ docs' = IF h.pfx[Upcoming] = <<>> THEN docs
                 ELSE Append(docs, DocToken(Upcoming))
  BY DEF ParseEof
<1>2. InLoop /\ h' = h /\ tk' = tk
  BY <1>1, LoopHas DEF vars, readVars
<1>3. Upcoming = tk /\ tk \in ToSet(h.toks) /\ tk \in Pos /\ cover[tk] = tk /\ tk \in Id
  BY <1>1, <1>2 DEF InLoop, LastOnly
<1>4. /\ tk \notin h.flag /\ Facing(h, st) = tk
      /\ unmute # Null => unmute = tk
  <2>1. /\ tk \notin h.flag /\ Facing(h, st) = tk
        /\ unmute # Null => tk <= unmute
    BY <1>1, <1>2, <1>3, GoingOn
  <2>2. unmute # Null => unmute <= tk /\ unmute \in Nat
    BY <1>2 DEF InLoop, LastOnly
  <2>3. tk \in Nat
    BY <1>3 DEF Pos
  <2>4. QED
    BY <2>1, <2>2, <2>3
<1>5. ASSUME NEW m \in {0, 1}, m = 0 \/ tk = unmute, Covered(h, cover, tk),
             ExecOf(docs) = Emitted(m, Starts(h, tk) - 1)
      PROVE  \E l \in {0, 1}, n \in {tk - 1, tk} : ExecOf(docs') = Emitted(l, n)
  <2>1. CASE h.pfx[tk] = <<>>
    <3>1. Starts(h, tk) = tk
      BY <2>1 DEF Starts, After
    <3>2. ExecOf(docs') = Emitted(m, tk - 1)
      BY <1>1, <1>3, <1>5, <2>1, <3>1
    <3>3. QED
      BY <3>2
  <2>2. CASE h.pfx[tk] # <<>>
    <3>1. docs' = Append(docs, DocToken(tk))
      BY <1>1, <1>3, <2>2
    <3> DEFINE S == Seq(Item)
    <3>2. docs \in Seq(S) /\ DocToken(tk) \in S
      BY <1>2, <1>3, DocTokenType DEF LInv, InLoop
    <3> HIDE DEF S
    <3>3. ExecOf(docs') = ExecDoc(ExecOf(docs), DocToken(tk))
      BY <3>1, <3>2, ExecOfAppend
    <3>4. ExecDoc(Emitted(m, Starts(h, tk) - 1), DocToken(tk)) =
              Emitted(IF TokenNext(h, tk) \in h.flag THEN 1 ELSE 0, tk)
      BY <1>2, <1>3, <1>5, TokenShown DEF InLoop
    <3>5. QED
      BY <1>5, <3>3, <3>4
  <2>3. QED
    BY <2>1, <2>2
<1>6. ASSUME ValidSource
      PROVE  \E l \in {0, 1}, n \in {tk - 1, tk} : ExecOf(docs') = Emitted(l, n)
  <2>1. Goal = tk
    BY <1>4 DEF Goal
  <2> DEFINE m == IF unmute # Null THEN 1 ELSE 0
  <2>2. ExecOf(docs) = Emitted(m, Starts(h, tk) - 1)
    BY <1>4, <1>6, <2>1 DEF ValidSource
  <2>3. Covered(h, cover, tk)
    <3>1. tk <= tk
      BY <1>3 DEF Pos
    <3>2. QED
      BY <1>3, <1>6, <2>1, <3>1 DEF ValidSource, Tiled
  <2>4. m \in {0, 1} /\ (m = 0 \/ tk = unmute)
    BY <1>4
  <2> HIDE DEF m
  <2>5. QED
    BY <1>5, <2>2, <2>3, <2>4
<1>7. ASSUME FoldedOnce
      PROVE  \E l \in {0, 1}, n \in {tk - 1, tk} : ExecOf(docs') = Emitted(l, n)
  <2>1. ExecOf(docs) = Emitted(0, Starts(h, tk) - 1)
    BY <1>4, <1>7 DEF FoldedOnce
  <2>2. Covered(h, cover, tk)
    BY <1>2, <1>3, <1>7, TiledAt DEF FoldedOnce, InLoop
  <2>3. QED
    BY <1>5, <2>1, <2>2
<1>8. QED
  BY <1>1, <1>2, <1>3, <1>6, <1>7 DEF OInv, Running

-----------------------------------------------------------------------------
(* An alternative is removed or folded.                                      *)

LEMMA RewindLast ==
  ASSUME InLoop, pc' = "loop", stamps' = stamps, tk' = tk, NEW c \in Id, h.nx[c] # Null,
         Folded(h, h', c), NEW limit, st' = LastStamp(h', limit),
         \A t \in ToSet(h.toks) : h'.kind[t] = h.kind[t] /\ cover'[t] = cover[t]
  PROVE  LastOnly'
<1> DEFINE src == h.par[c]
           dst == h.par[h.nx[c]]
<1>1. LastOnly /\ Parsed(h) /\ stamps \in Seq(Pos) /\ ToSet(h.toks) \subseteq Nat
      /\ ToSet(h.toks) \subseteq Pos
  BY DEF InLoop
<1>2. src \in ToSet(h.toks) /\ dst \in ToSet(h.toks)
  BY <1>1, LinkForward
<1>3. ToSet(h'.toks) = ToSet(h.toks) \ Between(h, src, dst)
  BY DEF Folded
<1> HIDE DEF src, dst
<1>4. tk \in ToSet(h'.toks)
  <2>1. tk \in ToSet(h.toks) /\ dst <= tk /\ dst \in Nat /\ tk \in Nat
    BY <1>1, <1>2 DEF LastOnly
  <2>2. ~(tk < dst)
    BY <2>1
  <2>3. QED
    BY <1>3, <2>1, <2>2 DEF Between
<1>5. ToSet(h'.toks) \subseteq ToSet(h.toks)
  BY <1>3
<1>6. st' # tk
  <2>1. CASE st' = Null
    BY <1>1, <2>1 DEF LastOnly, Pos, Null
  <2>2. CASE st' # Null
    <3>1. \E i \in DOMAIN stamps : st' = stamps[i]
      BY <1>1, <2>2, StampInList
    <3>2. QED
      BY <1>1, <3>1 DEF LastOnly
  <2>3. QED
    BY <2>1, <2>2
<1>7. FileKinds(h')
  BY <1>1, <1>5 DEF LastOnly, FileKinds
<1>8. /\ \A t \in ToSet(h'.toks) : t <= tk /\ (h'.kind[t] = "eof" => t = tk) /\ cover'[t] = t
      /\ h'.kind[tk] = "eof" /\ \A i \in DOMAIN stamps : stamps[i] # tk
  BY <1>1, <1>5 DEF LastOnly
<1>9. QED
  BY <1>4, <1>6, <1>7, <1>8 DEF LastOnly

LEMMA BranchKeepsKinds ==
  ASSUME Parsed(h), NEW t \in h.flag, NEW c, c = BranchFind(h, t)
  PROVE  OnlyBranches(h, RemoveRange(Unlink(h, c), h.par[c], h.par[h.nx[c]]))
<1> DEFINE src == h.par[c]
           dst == h.par[h.nx[c]]
           u == Unlink(h, c)
           k == RemoveRange(u, src, dst)
<1>1. Core(h)
  BY DEF Parsed
<1>2. c \in Id /\ h.nx[c] # Null
  BY BranchStep
<1>3. src \in ToSet(h.toks) /\ dst \in ToSet(h.toks)
  BY <1>2, LinkForward
<1>4. Unlinked(h, u, {c})
  BY <1>1, <1>2, UnlinkOne
<1>5. Core(u) /\ u.toks = h.toks /\ OnlyBranches(h, u)
  BY <1>4 DEF Unlinked, SameLists
<1> HIDE DEF u, src, dst
<1>6. OnlyBranches(u, k)
  BY <1>3, <1>5, RemoveBetween DEF RangeRemoved
<1> HIDE DEF k
<1>7. OnlyBranches(h, k)
  BY <1>5, <1>6 DEF OnlyBranches
<1>8. QED
  BY <1>7 DEF k, u, src, dst

\* What is left is covered and tiled as before behind the token that emission
\* resumes at.
LEMMA TakenTiled ==
  ASSUME NEW g, NEW k, Parsed(g), NEW src \in ToSet(g.toks), NEW t \in ToSet(g.toks),
         src < t, Taken(g, k, Between(g, src, t), t), NEW c, Tiled(g, c, t)
  PROVE  Tiled(k, c, t) /\ Starts(k, t) = Starts(g, t)
<1> DEFINE R == Between(g, src, t)
<1>1. /\ ToSet(k.toks) = ToSet(g.toks) \ R
      /\ \A v \in Id : k.pfx[v] = IF v \in R THEN <<>> ELSE g.pfx[v]
      /\ ToSet(g.toks) \subseteq Id /\ ToSet(g.toks) \subseteq Nat
  BY TokenFacts DEF Taken
<1>2. ASSUME NEW v \in ToSet(g.toks), t <= v
      PROVE  k.pfx[v] = g.pfx[v] /\ Starts(k, v) = Starts(g, v)
  <2>1. v \notin R
    <3>1. v \in Nat /\ t \in Nat
      BY <1>1
    <3>2. ~(v < t)
      BY <1>2, <3>1
    <3>3. QED
      BY <3>2 DEF Between
  <2> HIDE DEF R
  <2>2. k.pfx[v] = g.pfx[v]
    BY <1>1, <2>1
  <2>3. QED
    BY <2>2 DEF Starts, After
<1>3. ASSUME NEW v \in ToSet(k.toks), t <= v
      PROVE  Covered(k, c, v)
  <2>1. v \in ToSet(g.toks) /\ k.pfx[v] = g.pfx[v] /\ Covered(g, c, v)
    BY <1>1, <1>2, <1>3 DEF Tiled
  <2>2. QED
    BY <2>1 DEF Covered, After
<1>4. ASSUME NEW v \in ToSet(k.toks), t < v
      PROVE  Follows(k, v)
  <2>1. v \in ToSet(g.toks) /\ t <= v
    BY <1>1, <1>4
  <2>2. Starts(k, v) = Starts(g, v) /\ Follows(g, v)
    BY <1>2, <1>4, <2>1 DEF Tiled
  <2>3. QED
    BY <1>1, <1>4, <2>1, <2>2, FollowsStill
<1>5. Starts(k, t) = Starts(g, t)
  <2>1. t <= t
    BY <1>1
  <2>2. QED
    BY <1>2, <2>1
<1>6. QED
  BY <1>3, <1>4, <1>5 DEF Tiled

LEMMA BranchOInv ==
  ASSUME LInv, UInv, OInv, Branch
  PROVE  OInv'
<1> DEFINE c == BranchFind(h, st)
           src == h.par[c]
<1>1. /\ pc = "unit" /\ pc' = "loop" /\ UNCHANGED <<readVars, cover>>
      /\ shared' = shared /\ branched' = CountTo(branched) /\ recovered' = recovered
      /\ IsBranch /\ docs' = docs /\ stamps' = stamps /\ st' = LastStamp(h', NoLimit)
      /\ h' = RemoveRange(Unlink(h, c), src, h.par[h.nx[c]])
      /\ unmute' = h.par[h.nx[c]]
  BY DEF Branch
<1>2. InLoop /\ tk' = tk /\ cover' = cover
  BY <1>1, LoopHas DEF readVars
<1>3. Parsed(h) /\ st \in h.flag /\ st \in ToSet(h.toks) /\ st # Null /\ st \in Nat /\ st \in Id
  BY <1>1, <1>2 DEF InLoop
<1>4. c \in Id /\ h.nx[c] # Null /\ h.par[h.nx[c]] = st
  <2>1. HasBranch(h, st)
    BY <1>3 DEF Parsed, Core, AllSettled, Settled
  <2>2. QED
    BY <1>3, <2>1, BranchFound DEF Parsed
<1>5. Folded(h, h', c)
  BY BranchFolds
<1>6. OnlyBranches(h, h')
  BY <1>1, <1>3, BranchKeepsKinds
<1> HIDE DEF c
<1>7. LastOnly'
  <2>1. \A t \in ToSet(h.toks) : h'.kind[t] = h.kind[t] /\ cover'[t] = cover[t]
    <3>1. \A t \in ToSet(h.toks) : t \in Id /\ h.kind[t] \notin BranchKinds
      BY <1>2 DEF InLoop, LastOnly, FileKinds, BranchKinds
    <3>2. QED
      BY <1>2, <1>6, <3>1 DEF OnlyBranches
  <2>2. QED
    BY <1>1, <1>2, <1>4, <1>5, <2>1, RewindLast
<1>8. ASSUME ValidSource
      PROVE  ValidSource'
  <2>1. \A t \in h.flag : st <= t
    BY <1>2, <1>3 DEF InLoop, Ahead
  <2>2. unmute = Null
    <3> SUFFICES ASSUME unmute # Null
                 PROVE  FALSE
      OBVIOUS
    <3>1. unmute < st /\ (st < unmute \/ st = unmute)
      BY <1>2, <1>3, <1>8 DEF InLoop, Ahead, ValidSource
    <3>2. unmute \in Nat
      BY <1>2 DEF InLoop
    <3>3. QED
      BY <1>3, <3>1, <3>2
  <2>3. Goal = st /\ Goal' = st /\ unmute' = st
    BY <1>1, <1>3, <1>4, <2>2 DEF Goal, Facing
  <2>4. src \in ToSet(h.toks) /\ src < st /\ Taken(h, h', Between(h, src, st), st)
    <3>1. Single(h) /\ c = BranchFind(h, st)
      BY <1>8 DEF ValidSource, c
    <3>2. /\ src \in ToSet(h.toks) /\ src < st
          /\ Taken(h, RemoveRange(Unlink(h, c), src, st), Between(h, src, st), st)
      BY <1>3, <2>1, <3>1, BranchTaken
    <3>3. QED
      BY <1>1, <1>4, <3>2
  <2> HIDE DEF src
  <2>5. Tiled(h', cover, st) /\ Starts(h', st) = Starts(h, st)
    <3>1. Tiled(h, cover, st)
      BY <1>8, <2>3 DEF ValidSource
    <3>2. QED
      BY <1>3, <2>4, <3>1, TakenTiled
  <2>6. \A t \in h'.flag : st < t
    <3>1. \A t \in h'.flag : t \in h.flag /\ t # st
      BY <2>4 DEF Taken
    <3>2. \A t \in h.flag : t \in Nat
      BY <1>2 DEF InLoop
    <3>3. QED
      BY <1>3, <2>1, <3>1, <3>2
  <2>7. ExecOf(docs) = Emitted(1, Starts(h, st) - 1)
    BY <1>3, <1>8, <2>3 DEF ValidSource
  <2>8. Single(h')
    BY <2>4 DEF Taken
  <2>9. QED
    BY <1>1, <1>2, <1>3, <2>3, <2>5, <2>6, <2>7, <2>8 DEF ValidSource
<1>9. branched' \in 0..Many /\ branched' # 0
  BY <1>1 DEF OInv, CountTo, Many
<1>10. QED
  BY <1>1, <1>7, <1>8, <1>9 DEF OInv, Running

\* What clang_recover() folds is respelt as a prefix, and the kinds of the
\* tokens and the text they cover stay.
LEMMA RecoverRefolds ==
  ASSUME InLoop, NEW c, c = RecoverFindBranch, c # Null, h' = BranchFold(c),
         cover' = [cover EXCEPT ![MaxLen + c] = cover[h.nx[c]]]
  PROVE  /\ Refolded(h, h', c) /\ c \in Pos /\ c \in Nat /\ c < h.par[c]
         /\ \A t \in ToSet(h.toks) : h'.kind[t] = h.kind[t] /\ cover'[t] = cover[t]
<1>1. Parsed(h) /\ stamps \in Seq(Pos) /\ (st # Null => st \in ToSet(h.toks))
      /\ cover \in [Id -> Int] /\ LastOnly
      /\ ToSet(h.toks) \subseteq Pos /\ ToSet(h.toks) \subseteq Id
  BY DEF InLoop
<1>2. c \in Id /\ h.nx[c] # Null /\ h.par[c] # h.par[h.nx[c]]
  BY <1>1, RecoverFound
<1>3. Folded(h, h', c) /\ Respelt(h, h', c)
  BY <1>1, <1>2, FoldStep
<1>4. c \in Pos /\ h.par[c] \in ToSet(h.toks) /\ c \in ToSet(h.pfx[h.par[c]])
  BY <1>1, <1>2, LinkForward
<1>5. c < h.par[c]
  BY <1>1, <1>2, <1>4, OriginType DEF Parsed, InOrder
<1>6. ASSUME NEW t \in ToSet(h.toks)
      PROVE  h'.kind[t] = h.kind[t] /\ cover'[t] = cover[t]
  <2> DEFINE x == MaxLen + c
  <2>1. t # x /\ t \in Id
    <3>1. t \in Pos /\ c \in Pos
      BY <1>1, <1>4
    <3>2. QED
      BY <1>1, <3>1, MaxLenAssumption DEF Pos
  <2>2. h.kind[t] \notin BranchKinds
    BY <1>1 DEF LastOnly, FileKinds, BranchKinds
  <2>3. h'.kind[t] = h.kind[t]
    BY <1>3, <2>1, <2>2 DEF Respelt
  <2> HIDE DEF x
  <2>4. cover' = [cover EXCEPT ![x] = cover[h.nx[c]]]
    BY DEF x
  <2>5. cover'[t] = cover[t]
    BY <1>1, <2>1, <2>4
  <2>6. QED
    BY <2>3, <2>5
<1>7. QED
  BY <1>1, <1>2, <1>3, <1>4, <1>5, <1>6 DEF Refolded, Pos

\* The stamps still in the list and in front of limit.
Stamped(g, limit) == {i \in DOMAIN stamps : InList(g, stamps[i]) /\ stamps[i] < limit}

\* The documents in front of a folded alternative, up to the last of the stamps
\* preceding it: the stamp is as well the one to which the lexer rewinds.
LEMMA RecoverDocuments ==
  ASSUME InLoop, Untouched, pc = "unit", NEW c \in Nat, NEW g,
         Refolded(h, g, c), c < h.par[c],
         NEW K, K = IF Stamped(h, c) = {} THEN 0 ELSE Max(Stamped(h, c))
  PROVE  /\ RemoveTail(RecoverDocs(c)) = SubSeq(docs, 1, K)
         /\ K = 0 => LastStamp(g, c) = Null
         /\ K # 0 => /\ K \in DOMAIN stamps /\ LastStamp(g, c) = stamps[K]
                     /\ InList(g, stamps[K])
<1> DEFINE src == h.par[c]
           dst == h.par[h.nx[c]]
<1>1. /\ Parsed(h) /\ stamps \in Seq(Pos) /\ ToSet(h.toks) \subseteq Nat
      /\ docs \in Seq(Seq(Item))
  BY DEF InLoop
<1>2. src \in Nat
  <2>1. src \in ToSet(h.toks)
    BY <1>1, LinkForward DEF Refolded
  <2>2. QED
    BY <1>1, <2>1
<1>3. ToSet(g.toks) = ToSet(h.toks) \ Between(h, src, dst)
  BY DEF Refolded, Folded
<1>4. Stamped(g, c) = Stamped(h, c)
  <2> SUFFICES ASSUME NEW i \in DOMAIN stamps, stamps[i] < c
               PROVE  InList(g, stamps[i]) <=> InList(h, stamps[i])
    BY DEF Stamped
  <2>1. stamps[i] \in Nat
    <3>1. stamps[i] \in Pos
      BY <1>1
    <3>2. QED
      BY <3>1 DEF Pos
  <2> HIDE DEF dst
  <2>2. ~(src <= stamps[i])
    BY <1>2, <2>1
  <2> HIDE DEF src
  <2>3. stamps[i] \notin Between(h, src, dst)
    BY <2>2 DEF Between
  <2>4. QED
    BY <1>3, <2>3 DEF InList
<1> DEFINE ok == Stamped(h, c)
<1>5. ok \in SUBSET (1..Len(stamps)) /\ Len(stamps) \in Nat
  BY <1>1 DEF Stamped
<1>6. RecoverDocs(c) = 1 + Len(stamps) - K
  BY DEF RecoverDocs, Stamped
<1>7. LastStamp(g, c) = IF ok = {} THEN Null ELSE stamps[Max(ok)]
  BY <1>4 DEF LastStamp, Stamped
<1>8. ok # {} => Max(ok) \in ok
  <2> HIDE DEF ok
  <2>1. QED
    BY <1>5, MaxOfUpTo
<1>9. Len(docs) = Len(stamps) + 1
  BY DEF Untouched
<1>10. RemoveTail(RecoverDocs(c)) = SubSeq(docs, 1, K)
  <2>1. K \in Nat
    <3> HIDE DEF ok
    <3>1. K = IF ok = {} THEN 0 ELSE Max(ok)
      BY DEF ok
    <3>2. QED
      BY <1>5, <1>8, <3>1
  <2>2. Len(docs) - (1 + Len(stamps) - K) = K
    BY <1>5, <1>9, <2>1
  <2>3. QED
    BY <1>6, <2>2 DEF RemoveTail
<1>11. CASE ok = {}
  BY <1>7, <1>10, <1>11
<1>12. CASE ok # {}
  <2>1. K = Max(ok)
    BY <1>12
  <2> HIDE DEF ok
  <2>2. K \in ok /\ K # 0 /\ LastStamp(g, c) = stamps[K]
    BY <1>5, <1>7, <1>8, <1>12, <2>1
  <2>3. K \in DOMAIN stamps /\ InList(g, stamps[K])
    BY <1>4, <2>2 DEF ok, Stamped
  <2>4. QED
    BY <1>10, <2>2, <2>3
<1>13. QED
  BY <1>11, <1>12

LEMMA RecoverOInv ==
  ASSUME LInv, UInv, UInv', OInv, Recover
  PROVE  OInv'
<1> DEFINE c == RecoverFindBranch
           K == IF Stamped(h, c) = {} THEN 0 ELSE Max(Stamped(h, c))
<1>1. /\ pc = "unit" /\ pc' = "loop" /\ UNCHANGED readVars /\ c # Null
      /\ shared' = shared /\ branched' = branched /\ recovered' = CountTo(recovered)
      /\ ~IsBranch /\ docs' = RemoveTail(RecoverDocs(c)) /\ stamps' = stamps
      /\ st' = LastStamp(h', c) /\ h' = BranchFold(c)
      /\ cover' = [cover EXCEPT ![MaxLen + c] = cover[h.nx[c]]]
  BY DEF Recover
<1>2. InLoop /\ tk' = tk
  BY <1>1, LoopHas DEF readVars
<1>3. /\ Refolded(h, h', c) /\ c \in Pos /\ c \in Nat /\ c < h.par[c]
      /\ \A t \in ToSet(h.toks) : h'.kind[t] = h.kind[t] /\ cover'[t] = cover[t]
  <2> HIDE DEF c
  <2>1. c = RecoverFindBranch
    BY DEF c
  <2>2. QED
    BY <1>1, <1>2, <2>1, RecoverRefolds
<1> HIDE DEF c
<1>4. Folded(h, h', c) /\ c \in Id /\ h.nx[c] # Null
  BY <1>3 DEF Refolded
<1>5. LastOnly'
  BY <1>1, <1>2, <1>3, <1>4, RewindLast
<1>6. ASSUME Untouched
      PROVE  FoldedOnce'
  <2>1. Tiled(h', cover', 0)
    <3>1. Tiled(h, cover, 0) /\ cover \in [Id -> Int]
      BY <1>2, <1>6 DEF Untouched, InLoop
    <3>2. QED
      BY <1>1, <1>3, <3>1, FoldTiled
  <2>2. Parsed(h')
    BY <1>4 DEF Folded
  <2>3. /\ docs' = SubSeq(docs, 1, K)
        /\ K = 0 => st' = Null
        /\ K # 0 => K \in DOMAIN stamps /\ st' = stamps[K] /\ InList(h', stamps[K])
    BY <1>1, <1>2, <1>3, <1>6, RecoverDocuments
  <2> HIDE DEF K
  <2>4. st' = Null \/ (st' \in ToSet(h'.toks) /\ h'.kind[st'] # "eof")
    <3>1. CASE K = 0
      BY <2>3, <3>1
    <3>2. CASE K # 0
      BY <1>1, <1>5, <2>3, <3>2 DEF LastOnly, InList
    <3>3. QED
      BY <3>1, <3>2
  <2>5. st' \notin h'.flag
    <3>1. CASE K = 0
      <4>1. Null \notin h'.flag
        BY <2>2, TokenFacts
      <4>2. QED
        BY <2>3, <3>1, <4>1
    <3>2. CASE K # 0
      <4>1. \A t \in h'.flag : st' < t
        BY <1>1, <2>3, <3>2 DEF UInv, Ahead
      <4>2. st' \in Nat
        BY <2>2, <2>3, <3>2, TokenFacts DEF InList
      <4>3. QED
        BY <4>1, <4>2
    <3>3. QED
      BY <3>1, <3>2
  <2>6. Facing(h', st') = NextOf(h', st')
    BY <2>5 DEF Facing
  <2>7. Starts(h', NextOf(h', st')) = st' + 1 /\ st' \in Nat
    <3>1. NextOf(h', st') \in ToSet(h'.toks)
      BY <2>2, <2>4, NextOfFacts
    <3>2. Follows(h', NextOf(h', st'))
      BY <2>1, <2>2, <3>1, TiledAt
    <3>3. QED
      BY <2>2, <2>4, <3>2, NextOfFacts
  <2>8. Starts(h', Facing(h', st')) - 1 = st'
    <3> DEFINE s == Starts(h', Facing(h', st'))
               n == st'
    <3>1. s = n + 1 /\ n \in Nat
      BY <2>6, <2>7
    <3> HIDE DEF s, n
    <3>2. s - 1 = n
      BY <3>1
    <3>3. QED
      BY <3>2 DEF s, n
  <2>9. ExecOf(docs') = Emitted(0, st')
    <3>1. CASE K = 0
      <4>1. docs' = <<>>
        BY <2>3, <3>1
      <4>2. QED
        BY <2>3, <3>1, <4>1, NothingEmitted DEF Null
    <3>2. CASE K # 0
      <4>1. st \notin h.flag
        BY <1>1, <1>2 DEF InLoop
      <4>2. TokenNext(h, stamps[K]) \notin h.flag
        BY <1>1, <1>6, <2>3, <3>2, <4>1 DEF Untouched
      <4>3. ExecOf(SubSeq(docs, 1, K)) = Emitted(0, stamps[K])
        BY <1>6, <2>3, <3>2, <4>2 DEF Untouched
      <4>4. QED
        BY <2>3, <3>2, <4>3
    <3>3. QED
      BY <3>1, <3>2
  <2>10. QED
    BY <2>1, <2>8, <2>9 DEF FoldedOnce
<1>7. recovered' \in 0..Many /\ recovered' # 0 /\ (recovered' = 1 => recovered = 0)
      /\ branched' \in 0..Many
  BY <1>1 DEF OInv, CountTo, Many
<1>8. ASSUME ~shared', recovered' = 1, branched' = 0
      PROVE  FoldedOnce'
  BY <1>1, <1>6, <1>7, <1>8 DEF OInv, Running
<1>9. QED
  BY <1>1, <1>5, <1>7, <1>8 DEF OInv, Running

-----------------------------------------------------------------------------
(* Everything is emitted.                                                    *)

LEMMA OInitInv == LoopInit => OInv
<1> SUFFICES ASSUME LoopInit
             PROVE  OInv
  OBVIOUS
<1>1. /\ h = EmptyHeap /\ pc = "read" /\ unmute = Null /\ docs = <<>>
      /\ cover = [i \in Id |-> i] /\ branched = 0 /\ recovered = 0
  BY DEF LoopInit, Init
<1>2. ToSet(h.toks) = {}
  <2>1. h.toks = <<>>
    BY <1>1 DEF EmptyHeap
  <2>2. QED
    BY <2>1 DEF ToSet
<1>3. ReadTiled
  BY <1>1, <1>2 DEF ReadTiled, FileKinds, Tiled
<1>4. QED
  BY <1>1, <1>3 DEF OInv, Running, Many

LEMMA OInvNext == LInv /\ UInv /\ LInv' /\ UInv' /\ OInv /\ [LoopNext]_loopVars => OInv'
<1> SUFFICES ASSUME LInv, UInv, LInv', UInv', OInv, [LoopNext]_loopVars
             PROVE  OInv'
  OBVIOUS
<1>1. CASE ReadFile
  <2>1. phase = "read"
    BY <1>1 DEF ReadFile, ReadPrefix, ReadToken, Reading, BranchEnter, BranchLink,
                BranchLeave, SkipPrefix, Linking, EndOfFile
  <2>2. pc = "read"
    BY <2>1 DEF LInv
  <2>3. pc' = pc /\ branched' = branched /\ recovered' = recovered
    BY <1>1 DEF ReadFile, parseVars
  <2>4. ReadTiled'
    BY <1>1, <2>2, ReadFileTiled DEF OInv
  <2>5. QED
    BY <2>2, <2>3, <2>4 DEF OInv, Running
<1>2. CASE StartParsing
  <2>1. phase = "discard"
    BY <1>2 DEF StartParsing, BranchPurge
  <2>2. pc = "read"
    BY <2>1 DEF LInv
  <2>3. QED
    BY <1>2, <2>2, StartOInv
<1>3. CASE ParseEof
  BY <1>3, EofOInv
<1>4. CASE EnterUnit \/ Halt
  BY <1>4, HaltOInv
<1>5. CASE Consume
  BY <1>5, ConsumeOInv
<1>6. CASE Good
  BY <1>6, GoodOInv
<1>7. CASE Branch
  BY <1>7, BranchOInv
<1>8. CASE Recover
  BY <1>8, RecoverOInv
<1>9. CASE Fail \/ Free
  <2>1. pc' \in {"error", "freed"} /\ branched' = branched /\ recovered' = recovered
    BY <1>9 DEF Fail, Free
  <2>2. QED
    BY <2>1 DEF OInv, Running
<1>10. CASE UNCHANGED loopVars
  <2>1. /\ h' = h /\ tk' = tk /\ pc' = pc /\ st' = st /\ unmute' = unmute
        /\ stamps' = stamps /\ docs' = docs /\ cover' = cover /\ shared' = shared
        /\ branched' = branched /\ recovered' = recovered
    BY <1>10 DEF loopVars, parseVars, vars, readVars
  <2>2. QED
    BY <2>1 DEF OInv, Running, ReadTiled, LastOnly, ValidSource, Untouched, FoldedOnce, Goal
<1>11. QED
  BY <1>1, <1>2, <1>3, <1>4, <1>5, <1>6, <1>7, <1>8, <1>9, <1>10 DEF LoopNext

\* The source text is what is emitted up to the last token, the end of file.
LEMMA OInvDone ==
  ASSUME LInv, OInv
  PROVE  OutputComplete
<1> SUFFICES ASSUME ~shared, recovered = 0 \/ (branched = 0 /\ recovered = 1), pc = "done"
             PROVE  Output = SourceText
  BY DEF OutputComplete, Complete
<1>1. PICK m \in {0, 1}, n \in {tk - 1, tk} : tk \in Pos /\ ExecOf(docs) = Emitted(m, n)
  BY DEF OInv
<1>2. Exec = ExecOf(docs)
  BY DEF Exec, ExecOf, Unmuted
<1> DEFINE out == Exec.out
<1>3. tk \in Pos /\ out = [i \in 1..n |-> i]
  BY <1>1, <1>2 DEF Emitted
<1>4. Output = IF out # <<>> /\ Last(out) = tk THEN Front(out) ELSE out
  BY DEF Output
<1> HIDE DEF out
<1>5. n \in Nat /\ tk \in Nat /\ tk # 0 /\ (n = tk \/ n = tk - 1)
  BY <1>1 DEF Pos
<1>6. out \in Seq(Nat) /\ Len(out) = n /\ \A i \in 1..n : out[i] = i
  BY <1>3, <1>5
<1>7. CASE n = tk
  <2>1. out # <<>> /\ Last(out) = tk
    BY <1>5, <1>6, <1>7 DEF Last
  <2>2. Front(out) = SubSeq(out, 1, tk - 1)
    BY <1>5, <1>6, <1>7 DEF Front
  <2>3. /\ SubSeq(out, 1, tk - 1) \in Seq(Nat) /\ Len(SubSeq(out, 1, tk - 1)) = tk - 1
        /\ \A i \in 1..tk-1 : SubSeq(out, 1, tk - 1)[i] = i
    BY <1>5, <1>6, <1>7
  <2>4. SourceText \in Seq(Nat) /\ Len(SourceText) = tk - 1
        /\ \A i \in 1..tk-1 : SourceText[i] = i
    BY <1>5 DEF SourceText
  <2>5. Front(out) = SourceText
    BY <2>2, <2>3, <2>4, SameItems
  <2>6. QED
    BY <1>4, <2>1, <2>5
<1>8. CASE n = tk - 1
  <2>1. out # <<>> => Last(out) # tk
    <3> SUFFICES ASSUME out # <<>>
                 PROVE  Last(out) # tk
      OBVIOUS
    <3>1. n # 0 /\ Last(out) = out[n]
      BY <1>6 DEF Last
    <3>2. Last(out) = n
      BY <1>5, <1>6, <3>1
    <3>3. QED
      BY <1>5, <1>8, <3>2
  <2>2. out = SourceText
    BY <1>3, <1>8 DEF SourceText
  <2>3. QED
    BY <1>4, <2>1, <2>2
<1>9. QED
  BY <1>5, <1>7, <1>8

\* Whatever branches are taken and wherever units end, every line of the file is
\* emitted once and in order when no two alternatives start at the same token
\* and the source is valid, or is made so by a single clang_recover(): in spite
\* of the rewinds of parser_exec() to a stamp, of the tokens then parsed again
\* while muted and of those removed or folded, nothing is lost and nothing is
\* repeated, for files of any length.
THEOREM OutputAlwaysComplete == LoopSpec => []OutputComplete
<1>1. LoopSpec => []OInv
  BY OInitInv, OInvNext, LoopInvHolds, AheadHolds, PTL DEF LoopSpec
<1>2. QED
  BY <1>1, OInvDone, LoopInvHolds, PTL

=============================================================================
