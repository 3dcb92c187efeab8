-------------------------- MODULE BranchLinks_proofs --------------------------
(***************************************************************************)
(* Proofs about BranchLinks, for files of any length: the types of its     *)
(* state, the shape of the chains, the parents of the branches, and what   *)
(* is counted and cached about the links: the references of a token are    *)
(* those of the list and of the branches it is the parent of, and          *)
(* TOKEN_FLAG_BRANCH tells the tokens at which token_branch_find()         *)
(* succeeds.  Last, the links implement the conditional groups of          *)
(* Conditionals, which never cross.                                        *)
(***************************************************************************)
EXTENDS BranchLinks, TLAPS, FiniteSetTheorems, WellFoundedInduction

-----------------------------------------------------------------------------
(* The inductive invariant.                                                  *)

ParentsHoldIn(g) ==
    \A p \in Id : g.par[p] # Null =>
        g.par[p] \in ToSet(g.toks) /\ p \in ToSet(g.pfx[g.par[p]])

Distinct(s) == \A i, j \in DOMAIN s : s[i] = s[j] => i = j

\* The list holds each token once and ends with the last one read.
ListOK ==
    /\ Distinct(h.toks)
    /\ \A i \in DOMAIN h.toks : h.toks[i] <= tk
    /\ tk # 0 => /\ h.toks # <<>> /\ Last(h.toks) = tk
                 /\ h.kind[tk] \in {"tok", "eof"}

\* What is read and linked so far: below lk every branch is linked, from there
\* on none is, and the prefixes waiting to be linked hang of tk.
ReadOK ==
    /\ \A p \in Id : p >= rd => h.kind[p] = "none"
    /\ \A p \in Id : p >= lk => h.par[p] = Null
    /\ \A p \in Id : p < lk /\ h.kind[p] \in BranchKinds => h.par[p] # Null
    /\ \A p \in Id : lk <= p /\ p < tk => p \in ToSet(h.pfx[tk])
    /\ lo = tk + 1
    /\ tk # 0 => lk # 0
    /\ AtEof => rd = tk + 1
    /\ phase # "read" => AtEof /\ lk = tk

\* The stack holds the last branch of each open chain.
StackOK ==
    /\ \A i \in DOMAIN stack :
           /\ stack[i] < lk /\ h.par[stack[i]] # Null
           /\ h.nx[stack[i]] = Null /\ h.kind[stack[i]] \in {"if", "else"}
    /\ Distinct(stack)
    /\ phase = "parse" => stack = <<>>
    /\ phase # "parse" =>
           \A p \in Id : h.par[p] # Null /\ h.nx[p] = Null
                         /\ h.kind[p] \in {"if", "else"} =>
               \E i \in DOMAIN stack : stack[i] = p

IInv ==
    /\ TypeOK
    /\ ChainsWellFormed
    /\ ParentsHoldIn(h)
    /\ ListOK
    /\ ReadOK
    /\ StackOK

-----------------------------------------------------------------------------
(* The operators of CppBranch: their types, and what they leave alone.       *)

SameLists(g, k) == k.pfx = g.pfx /\ k.toks = g.toks

SameLinks(g, k) ==
    k.kind = g.kind /\ k.pv = g.pv /\ k.nx = g.nx /\ k.par = g.par

LEMMA HeapFields ==
  ASSUME NEW g \in Heap
  PROVE  /\ g.kind \in [Id -> Kinds]
         /\ g.pv \in [Id -> Id \cup {Null}]
         /\ g.nx \in [Id -> Id \cup {Null}]
         /\ g.par \in [Id -> Id \cup {Null}]
         /\ g.pfx \in [Id -> Seq(Id)]
         /\ g.flag \in SUBSET Id
         /\ g.refs \in [Id -> Int]
         /\ g.toks \in Seq(Id)
  BY DEF Heap

LEMMA NullOutside == Null \notin Id /\ Id \subseteq Nat /\ Pos \subseteq Id
  BY MaxLenAssumption DEF Null, Id, Pos

LEMMA BeforeTransitive ==
  ASSUME NEW i \in Id, NEW j \in Id, NEW k \in Id, i < j, j < k
  PROVE  i < k
<1>1. i \in Nat /\ j \in Nat /\ k \in Nat
  BY NullOutside
<1>2. QED
  BY <1>1

LEMMA UpdateFlagsLemma ==
  ASSUME NEW g \in Heap, NEW t \in Id
  PROVE  /\ UpdateFlags(g, t) \in Heap
         /\ SameLinks(g, UpdateFlags(g, t)) /\ SameLists(g, UpdateFlags(g, t))
  BY DEF Heap, UpdateFlags, SameLinks, SameLists

LEMMA UpdateFlagsOfLemma ==
  ASSUME NEW g \in Heap, NEW T \in SUBSET Id
  PROVE  /\ UpdateFlagsOf(g, T) \in Heap
         /\ SameLinks(g, UpdateFlagsOf(g, T)) /\ SameLists(g, UpdateFlagsOf(g, T))
  BY DEF Heap, UpdateFlagsOf, SameLinks, SameLists

LEMMA WithRefs ==
  ASSUME NEW g \in Heap, NEW r \in [Id -> Int]
  PROVE  /\ [g EXCEPT !.refs = r] \in Heap
         /\ SameLinks(g, [g EXCEPT !.refs = r])
         /\ SameLists(g, [g EXCEPT !.refs = r])
  BY DEF Heap, SameLinks, SameLists

LEMMA WithPar ==
  ASSUME NEW g \in Heap, NEW r \in [Id -> Id \cup {Null}]
  PROVE  /\ [g EXCEPT !.par = r] \in Heap
         /\ [g EXCEPT !.par = r].kind = g.kind
         /\ [g EXCEPT !.par = r].pv = g.pv
         /\ [g EXCEPT !.par = r].nx = g.nx
         /\ [g EXCEPT !.par = r].par = r
         /\ SameLists(g, [g EXCEPT !.par = r])
  BY DEF Heap, SameLists

LEMMA RefLemma ==
  ASSUME NEW g \in Heap, NEW t \in Id
  PROVE  /\ Ref(g, t) \in Heap
         /\ SameLinks(g, Ref(g, t)) /\ SameLists(g, Ref(g, t))
<1>1. [g.refs EXCEPT ![t] = @ + 1] \in [Id -> Int]
  BY HeapFields
<1>2. QED
  BY <1>1, WithRefs DEF Ref

LEMMA ReleLemma ==
  ASSUME NEW g \in Heap, NEW t \in Id
  PROVE  /\ Rele(g, t) \in Heap
         /\ SameLinks(g, Rele(g, t)) /\ SameLists(g, Rele(g, t))
<1>1. [g.refs EXCEPT ![t] = @ - 1] \in [Id -> Int]
  BY HeapFields
<1>2. QED
  BY <1>1, WithRefs DEF Rele

LEMMA SetParentLemma ==
  ASSUME NEW g \in Heap, NEW p \in Id, NEW t \in Id
  PROVE  /\ SetParent(g, p, t) \in Heap
         /\ SetParent(g, p, t).kind = g.kind
         /\ SetParent(g, p, t).pv = g.pv
         /\ SetParent(g, p, t).nx = g.nx
         /\ SetParent(g, p, t).par = [g.par EXCEPT ![p] = t]
         /\ SameLists(g, SetParent(g, p, t))
<1> DEFINE left == IF g.par[p] # Null THEN Rele(g, g.par[p]) ELSE g
           held == Ref(left, t)
<1>1. g.par[p] # Null => g.par[p] \in Id
  BY HeapFields
<1>2. left \in Heap /\ SameLinks(g, left) /\ SameLists(g, left)
  BY <1>1, ReleLemma DEF SameLinks, SameLists
<1> HIDE DEF left
<1>3. held \in Heap /\ SameLinks(g, held) /\ SameLists(g, held)
  BY <1>2, RefLemma DEF SameLinks, SameLists
<1> DEFINE par == [held.par EXCEPT ![p] = t]
<1>4. SetParent(g, p, t) = [held EXCEPT !.par = par]
  BY DEF SetParent, left
<1> HIDE DEF held
<1>5. par \in [Id -> Id \cup {Null}] /\ par = [g.par EXCEPT ![p] = t]
  BY <1>2, <1>3, HeapFields DEF SameLinks
<1> HIDE DEF par
<1>6. /\ [held EXCEPT !.par = par] \in Heap
      /\ [held EXCEPT !.par = par].kind = held.kind
      /\ [held EXCEPT !.par = par].pv = held.pv
      /\ [held EXCEPT !.par = par].nx = held.nx
      /\ [held EXCEPT !.par = par].par = par
      /\ SameLists(held, [held EXCEPT !.par = par])
  BY <1>3, <1>5, WithPar
<1>7. QED
  BY <1>2, <1>3, <1>4, <1>5, <1>6 DEF SameLinks, SameLists

LEMMA ExhaustLemma ==
  ASSUME NEW g \in Heap, NEW p \in Id, g.par[p] # Null
  PROVE  /\ Exhaust(g, p) \in Heap
         /\ Exhaust(g, p).kind = [g.kind EXCEPT ![p] = "cpp"]
         /\ Exhaust(g, p).pv = [g.pv EXCEPT ![p] = Null]
         /\ Exhaust(g, p).nx = [g.nx EXCEPT ![p] = Null]
         /\ Exhaust(g, p).par = [g.par EXCEPT ![p] = Null]
         /\ SameLists(g, Exhaust(g, p))
<1> DEFINE cut == [g EXCEPT !.kind[p] = "cpp", !.pv[p] = Null, !.nx[p] = Null]
           t == g.par[p]
<1>1. t \in Id
  BY HeapFields
<1>2. /\ cut \in Heap
      /\ cut.kind = [g.kind EXCEPT ![p] = "cpp"]
      /\ cut.pv = [g.pv EXCEPT ![p] = Null]
      /\ cut.nx = [g.nx EXCEPT ![p] = Null]
      /\ cut.par = g.par
      /\ SameLists(g, cut)
  BY DEF Heap, Kinds, SameLists
<1> DEFINE flagged == UpdateFlags(cut, t)
<1>3. flagged \in Heap /\ SameLinks(cut, flagged) /\ SameLists(cut, flagged)
  BY <1>1, <1>2, UpdateFlagsLemma
<1> DEFINE released == Rele(flagged, t)
<1> DEFINE par == [released.par EXCEPT ![p] = Null]
<1>4. Exhaust(g, p) = [released EXCEPT !.par = par]
  BY DEF Exhaust
<1> HIDE DEF flagged, cut
<1>5. /\ released \in Heap
      /\ SameLinks(flagged, released) /\ SameLists(flagged, released)
  BY <1>1, <1>3, ReleLemma
<1> HIDE DEF released
<1>6. par \in [Id -> Id \cup {Null}] /\ par = [g.par EXCEPT ![p] = Null]
  BY <1>2, <1>3, <1>5, HeapFields DEF SameLinks
<1> HIDE DEF par
<1>7. /\ [released EXCEPT !.par = par] \in Heap
      /\ [released EXCEPT !.par = par].kind = released.kind
      /\ [released EXCEPT !.par = par].pv = released.pv
      /\ [released EXCEPT !.par = par].nx = released.nx
      /\ [released EXCEPT !.par = par].par = par
      /\ SameLists(released, [released EXCEPT !.par = par])
  BY <1>5, <1>6, WithPar
<1>8. QED
  BY <1>2, <1>3, <1>4, <1>5, <1>6, <1>7 DEF SameLinks, SameLists

-----------------------------------------------------------------------------
(* Unlinking a branch keeps the chains in shape.                             *)

InShape(g) ==
    LinksInOrder(g) /\ BranchesLinked(g) /\ ParentsHoldIn(g)

\* The links of k are those of g, but for the prefixes of S which have none.
CutFrom(g, k, S) ==
    /\ \A p \in Id \ S : /\ k.kind[p] = g.kind[p] /\ k.pv[p] = g.pv[p]
                         /\ k.nx[p] = g.nx[p] /\ k.par[p] = g.par[p]
    /\ \A p \in S : /\ k.kind[p] = "cpp" /\ k.pv[p] = Null
                    /\ k.nx[p] = Null /\ k.par[p] = Null

\* Only branches change: what is no branch stays so.
OnlyBranches(g, k) ==
    \A p \in Id : /\ g.kind[p] \notin BranchKinds => k.kind[p] = g.kind[p]
                  /\ g.par[p] = Null => k.par[p] = Null

LEMMA CutWholeChains ==
  ASSUME NEW g \in Heap, NEW k \in Heap, NEW S \in SUBSET Id,
         LinksInOrder(g), ParentsHoldIn(g), CutFrom(g, k, S), SameLists(g, k),
         \A p \in S : g.pv[p] # Null => g.pv[p] \in S,
         \A p \in S : g.nx[p] # Null => g.nx[p] \in S
  PROVE  /\ LinksInOrder(k) /\ ParentsHoldIn(k)
         /\ BranchesLinked(g) => BranchesLinked(k)
<1>0. \A p \in Id : /\ g.pv[p] \in Id \cup {Null} /\ g.nx[p] \in Id \cup {Null}
                    /\ g.par[p] \in Id \cup {Null}
  BY HeapFields
<1>1. LinksInOrder(k)
  <2> SUFFICES ASSUME NEW p \in Id \ S
               PROVE  /\ k.pv[p] # Null =>
                            /\ k.pv[p] < p /\ k.nx[k.pv[p]] = p
                            /\ k.kind[p] \in {"else", "endif"}
                      /\ k.nx[p] # Null =>
                            /\ p < k.nx[p] /\ k.pv[k.nx[p]] = p
                            /\ k.kind[p] \in {"if", "else"}
                      /\ k.par[p] # Null =>
                            /\ k.kind[p] \in BranchKinds
                            /\ k.kind[p] \in {"else", "endif"} =>
                                   k.pv[p] # Null
                      /\ k.par[p] = Null => k.pv[p] = Null /\ k.nx[p] = Null
    BY DEF LinksInOrder, CutFrom
  <2>0. p \in Id /\ p # Null /\ p \notin S
    BY NullOutside
  <2>2. g.pv[p] # Null => g.pv[p] \in Id \ S
    <3>1. g.pv[p] # Null => g.nx[g.pv[p]] = p
      BY DEF LinksInOrder
    <3>2. QED
      BY <1>0, <2>0, <3>1
  <2>3. g.nx[p] # Null => g.nx[p] \in Id \ S
    <3>1. g.nx[p] # Null => g.pv[g.nx[p]] = p
      BY DEF LinksInOrder
    <3>2. QED
      BY <1>0, <2>0, <3>1
  <2>4. QED
    BY <2>2, <2>3 DEF LinksInOrder, CutFrom
<1>2. BranchesLinked(g) => BranchesLinked(k)
  BY HeapFields, NullOutside DEF BranchesLinked, CutFrom, BranchKinds
<1>3. ParentsHoldIn(k)
  BY HeapFields, NullOutside DEF ParentsHoldIn, CutFrom, SameLists
<1>4. QED
  BY <1>1, <1>2, <1>3

LEMMA ExhaustTwo ==
  ASSUME NEW g \in Heap, NEW p \in Id, NEW q \in Id, p # q,
         g.par[p] # Null, g.par[q] # Null
  PROVE  LET k == Exhaust(Exhaust(g, p), q)
         IN k \in Heap /\ SameLists(g, k) /\ CutFrom(g, k, {p, q})
<1> DEFINE one == Exhaust(g, p)
           k == Exhaust(one, q)
<1>1. /\ one \in Heap
      /\ one.kind = [g.kind EXCEPT ![p] = "cpp"]
      /\ one.pv = [g.pv EXCEPT ![p] = Null]
      /\ one.nx = [g.nx EXCEPT ![p] = Null]
      /\ one.par = [g.par EXCEPT ![p] = Null]
      /\ SameLists(g, one)
  BY ExhaustLemma
<1> HIDE DEF one
<1>2. one.par[q] # Null
  BY <1>1, HeapFields
<1>3. /\ k \in Heap
      /\ k.kind = [one.kind EXCEPT ![q] = "cpp"]
      /\ k.pv = [one.pv EXCEPT ![q] = Null]
      /\ k.nx = [one.nx EXCEPT ![q] = Null]
      /\ k.par = [one.par EXCEPT ![q] = Null]
      /\ SameLists(one, k)
  BY <1>1, <1>2, ExhaustLemma
<1> HIDE DEF k
<1>4. CutFrom(g, k, {p, q})
  BY <1>1, <1>3, HeapFields DEF CutFrom
<1>5. SameLists(g, k)
  BY <1>1, <1>3 DEF SameLists
<1>6. QED
  BY <1>3, <1>4, <1>5 DEF k, one

\* What becomes of the links of the branches around the one unlinked.
IfUnlinked(g, k, p) ==
    LET n == g.nx[p]
    IN IF g.kind[n] = "endif"
       THEN CutFrom(g, k, {n, p})
       ELSE /\ k.kind = [g.kind EXCEPT ![n] = "if", ![p] = "cpp"]
            /\ k.pv = [g.pv EXCEPT ![n] = Null, ![p] = Null]
            /\ k.par = [g.par EXCEPT ![p] = Null]

EndifUnlinked(g, k, p) ==
    LET v == g.pv[p]
    IN IF g.kind[v] = "if"
       THEN CutFrom(g, k, {v, p})
       ELSE /\ k.kind = [g.kind EXCEPT ![v] = "endif", ![p] = "cpp"]
            /\ k.pv = [g.pv EXCEPT ![p] = Null]
            /\ k.par = [g.par EXCEPT ![p] = Null]

ElseUnlinked(g, k, p) ==
    /\ k.kind = [g.kind EXCEPT ![p] = "cpp"]
    /\ k.pv = [g.pv EXCEPT ![g.nx[p]] = g.pv[p], ![p] = Null]
    /\ k.par = [g.par EXCEPT ![p] = Null]

LEMMA UnlinkIfLemma ==
  ASSUME NEW g \in Heap, NEW p \in Id, g.kind[p] = "if", InShape(g)
  PROVE  /\ UnlinkIf(g, p) \in Heap /\ SameLists(g, UnlinkIf(g, p))
         /\ InShape(UnlinkIf(g, p)) /\ OnlyBranches(g, UnlinkIf(g, p))
         /\ IfUnlinked(g, UnlinkIf(g, p), p)
<1> DEFINE n == g.nx[p]
<1>0. LinksInOrder(g) /\ BranchesLinked(g) /\ ParentsHoldIn(g)
  BY DEF InShape
<1>1. /\ n \in Id /\ n # p /\ g.pv[n] = p /\ g.pv[p] = Null
      /\ g.kind[n] \in {"else", "endif"}
      /\ g.par[p] \in Id /\ g.par[n] \in Id
  <2>1. n # Null /\ g.par[p] # Null
    BY <1>0 DEF BranchesLinked, BranchKinds
  <2>2. n \in Id /\ g.par[p] \in Id
    BY <2>1, HeapFields
  <2>3. p < n /\ g.pv[n] = p /\ g.pv[p] = Null
    BY <1>0, <2>1, NullOutside DEF LinksInOrder
  <2>4. g.kind[n] \in {"else", "endif"} /\ g.par[n] # Null
    BY <1>0, <2>2, <2>3, NullOutside DEF LinksInOrder
  <2>5. g.par[n] \in Id
    BY <2>2, <2>4, HeapFields
  <2>6. QED
    BY <2>2, <2>3, <2>4, <2>5, NullOutside
<1>2. CASE g.kind[n] = "endif"
  <2>1. UnlinkIf(g, p) = Exhaust(Exhaust(g, n), p)
    BY <1>2 DEF UnlinkIf
  <2> DEFINE k == Exhaust(Exhaust(g, n), p)
  <2>2. k \in Heap /\ SameLists(g, k) /\ CutFrom(g, k, {n, p})
    BY <1>1, ExhaustTwo, NullOutside
  <2> HIDE DEF k
  <2>3. g.nx[n] = Null
    BY <1>1, <1>2 DEF InShape, LinksInOrder
  <2>4. InShape(k)
    BY <1>0, <1>1, <2>2, <2>3, CutWholeChains DEF InShape
  <2>5. OnlyBranches(g, k)
    BY <1>1, <1>2, <2>2 DEF OnlyBranches, CutFrom, BranchKinds
  <2>6. IfUnlinked(g, k, p)
    BY <1>2, <2>2 DEF IfUnlinked
  <2>7. QED
    BY <2>1, <2>2, <2>4, <2>5, <2>6 DEF k
<1>3. CASE g.kind[n] = "else"
  <2> DEFINE cut == [g EXCEPT !.pv[n] = Null, !.kind[n] = "if"]
             flagged == UpdateFlags(cut, g.par[n])
             k == Exhaust(flagged, p)
  <2>1. UnlinkIf(g, p) = k
    BY <1>3 DEF UnlinkIf
  <2>2. /\ cut \in Heap
        /\ cut.kind = [g.kind EXCEPT ![n] = "if"]
        /\ cut.pv = [g.pv EXCEPT ![n] = Null]
        /\ cut.nx = g.nx /\ cut.par = g.par
        /\ SameLists(g, cut)
    BY <1>1 DEF Heap, Kinds, BranchKinds, SameLists
  <2> HIDE DEF cut
  <2>3. /\ flagged \in Heap
        /\ SameLinks(cut, flagged) /\ SameLists(cut, flagged)
    BY <1>1, <2>2, UpdateFlagsLemma
  <2> HIDE DEF flagged
  <2>4. flagged.par[p] # Null
    BY <1>1, <2>2, <2>3, NullOutside DEF SameLinks
  <2>5. /\ k \in Heap
        /\ k.kind = [flagged.kind EXCEPT ![p] = "cpp"]
        /\ k.pv = [flagged.pv EXCEPT ![p] = Null]
        /\ k.nx = [flagged.nx EXCEPT ![p] = Null]
        /\ k.par = [flagged.par EXCEPT ![p] = Null]
        /\ SameLists(flagged, k)
    BY <2>3, <2>4, ExhaustLemma
  <2> HIDE DEF k
  <2>6. /\ SameLists(g, k)
        /\ k.kind = [g.kind EXCEPT ![n] = "if", ![p] = "cpp"]
        /\ k.pv = [g.pv EXCEPT ![n] = Null, ![p] = Null]
        /\ k.nx = [g.nx EXCEPT ![p] = Null]
        /\ k.par = [g.par EXCEPT ![p] = Null]
    BY <2>2, <2>3, <2>5 DEF SameLinks, SameLists
  <2>7. LinksInOrder(k)
    BY <1>1, <1>3, <2>6, HeapFields, NullOutside
       DEF InShape, LinksInOrder, BranchKinds
  <2>8. BranchesLinked(k)
    BY <1>1, <1>3, <2>6, HeapFields, NullOutside
       DEF InShape, BranchesLinked, BranchKinds
  <2>9. ParentsHoldIn(k)
    BY <1>1, <2>6, HeapFields, NullOutside
       DEF InShape, ParentsHoldIn, SameLists
  <2>10. OnlyBranches(g, k)
    BY <1>1, <1>3, <2>6, HeapFields, NullOutside DEF OnlyBranches, BranchKinds
  <2>11. IfUnlinked(g, k, p)
    BY <1>3, <2>6 DEF IfUnlinked
  <2>12. QED
    BY <2>1, <2>5, <2>6, <2>7, <2>8, <2>9, <2>10, <2>11 DEF InShape
<1>4. QED
  BY <1>1, <1>2, <1>3

LEMMA UnlinkEndifLemma ==
  ASSUME NEW g \in Heap, NEW p \in Id, g.kind[p] = "endif", InShape(g)
  PROVE  /\ UnlinkEndif(g, p) \in Heap /\ SameLists(g, UnlinkEndif(g, p))
         /\ InShape(UnlinkEndif(g, p)) /\ OnlyBranches(g, UnlinkEndif(g, p))
         /\ EndifUnlinked(g, UnlinkEndif(g, p), p)
<1> DEFINE v == g.pv[p]
<1>0. LinksInOrder(g) /\ BranchesLinked(g) /\ ParentsHoldIn(g)
  BY DEF InShape
<1>1. /\ v \in Id /\ v # p /\ g.nx[v] = p /\ g.nx[p] = Null
      /\ g.kind[v] \in {"if", "else"}
      /\ g.par[p] \in Id /\ g.par[v] \in Id
  <2>1. g.par[p] # Null
    BY <1>0 DEF BranchesLinked, BranchKinds
  <2>2. v # Null /\ g.nx[p] = Null
    BY <1>0, <2>1 DEF LinksInOrder
  <2>3. v \in Id /\ g.par[p] \in Id
    BY <2>1, <2>2, HeapFields
  <2>4. v < p /\ g.nx[v] = p
    BY <1>0, <2>2 DEF LinksInOrder
  <2>5. g.kind[v] \in {"if", "else"} /\ g.par[v] # Null
    BY <1>0, <2>3, <2>4, NullOutside DEF LinksInOrder
  <2>6. g.par[v] \in Id
    BY <2>3, <2>5, HeapFields
  <2>7. QED
    BY <2>2, <2>3, <2>4, <2>5, <2>6, NullOutside
<1>2. CASE g.kind[v] = "if"
  <2>1. UnlinkEndif(g, p) = Exhaust(Exhaust(g, v), p)
    BY <1>2 DEF UnlinkEndif
  <2> DEFINE k == Exhaust(Exhaust(g, v), p)
  <2>2. k \in Heap /\ SameLists(g, k) /\ CutFrom(g, k, {v, p})
    BY <1>1, ExhaustTwo, NullOutside
  <2> HIDE DEF k
  <2>3. g.pv[v] = Null
    BY <1>0, <1>1, <1>2 DEF LinksInOrder
  <2>4. InShape(k)
    BY <1>0, <1>1, <2>2, <2>3, CutWholeChains DEF InShape
  <2>5. OnlyBranches(g, k)
    BY <1>1, <1>2, <2>2 DEF OnlyBranches, CutFrom, BranchKinds
  <2>6. EndifUnlinked(g, k, p)
    BY <1>2, <2>2 DEF EndifUnlinked
  <2>7. QED
    BY <2>1, <2>2, <2>4, <2>5, <2>6 DEF k
<1>3. CASE g.kind[v] = "else"
  <2> DEFINE cut == [g EXCEPT !.nx[v] = Null, !.kind[v] = "endif"]
             flagged == UpdateFlags(cut, g.par[v])
             k == Exhaust(flagged, p)
  <2>1. UnlinkEndif(g, p) = k
    BY <1>3 DEF UnlinkEndif
  <2>2. /\ cut \in Heap
        /\ cut.kind = [g.kind EXCEPT ![v] = "endif"]
        /\ cut.nx = [g.nx EXCEPT ![v] = Null]
        /\ cut.pv = g.pv /\ cut.par = g.par
        /\ SameLists(g, cut)
    BY <1>1 DEF Heap, Kinds, BranchKinds, SameLists
  <2> HIDE DEF cut
  <2>3. /\ flagged \in Heap
        /\ SameLinks(cut, flagged) /\ SameLists(cut, flagged)
    BY <1>1, <2>2, UpdateFlagsLemma
  <2> HIDE DEF flagged
  <2>4. flagged.par[p] # Null
    BY <1>1, <2>2, <2>3, NullOutside DEF SameLinks
  <2>5. /\ k \in Heap
        /\ k.kind = [flagged.kind EXCEPT ![p] = "cpp"]
        /\ k.pv = [flagged.pv EXCEPT ![p] = Null]
        /\ k.nx = [flagged.nx EXCEPT ![p] = Null]
        /\ k.par = [flagged.par EXCEPT ![p] = Null]
        /\ SameLists(flagged, k)
    BY <2>3, <2>4, ExhaustLemma
  <2> HIDE DEF k
  <2>6. /\ SameLists(g, k)
        /\ k.kind = [g.kind EXCEPT ![v] = "endif", ![p] = "cpp"]
        /\ k.pv = [g.pv EXCEPT ![p] = Null]
        /\ k.nx = [g.nx EXCEPT ![v] = Null, ![p] = Null]
        /\ k.par = [g.par EXCEPT ![p] = Null]
    BY <2>2, <2>3, <2>5 DEF SameLinks, SameLists
  <2>7. LinksInOrder(k)
    BY <1>0, <1>1, <1>3, <2>6, HeapFields, NullOutside
       DEF LinksInOrder, BranchKinds
  <2>8. BranchesLinked(k)
    BY <1>0, <1>1, <1>3, <2>6, HeapFields, NullOutside
       DEF BranchesLinked, BranchKinds
  <2>9. ParentsHoldIn(k)
    BY <1>0, <1>1, <2>6, HeapFields, NullOutside
       DEF ParentsHoldIn, SameLists
  <2>10. OnlyBranches(g, k)
    BY <1>1, <1>3, <2>6, HeapFields, NullOutside DEF OnlyBranches, BranchKinds
  <2>11. EndifUnlinked(g, k, p)
    BY <1>3, <2>6 DEF EndifUnlinked
  <2>12. QED
    BY <2>1, <2>5, <2>6, <2>7, <2>8, <2>9, <2>10, <2>11 DEF InShape
<1>4. QED
  BY <1>1, <1>2, <1>3

LEMMA UnlinkElseLemma ==
  ASSUME NEW g \in Heap, NEW p \in Id, g.kind[p] = "else", InShape(g)
  PROVE  /\ UnlinkElse(g, p) \in Heap /\ SameLists(g, UnlinkElse(g, p))
         /\ InShape(UnlinkElse(g, p)) /\ OnlyBranches(g, UnlinkElse(g, p))
         /\ ElseUnlinked(g, UnlinkElse(g, p), p)
<1> DEFINE v == g.pv[p]
           n == g.nx[p]
<1>0. LinksInOrder(g) /\ BranchesLinked(g) /\ ParentsHoldIn(g)
  BY DEF InShape
<1>1. /\ v \in Id /\ n \in Id /\ v < p /\ p < n /\ v < n
      /\ p # Null /\ v # Null /\ n # Null
      /\ g.nx[v] = p /\ g.pv[n] = p
      /\ g.par[p] \in Id /\ g.par[v] \in Id /\ g.par[n] \in Id
  <2>1. g.par[p] # Null /\ n # Null
    BY <1>0 DEF BranchesLinked, BranchKinds
  <2>2. v # Null
    BY <1>0, <2>1 DEF LinksInOrder
  <2>3. v \in Id /\ n \in Id /\ g.par[p] \in Id
    BY <2>1, <2>2, HeapFields
  <2>4. v < p /\ g.nx[v] = p /\ p < n /\ g.pv[n] = p
    BY <1>0, <2>1, <2>2 DEF LinksInOrder
  <2>5. g.par[v] # Null /\ g.par[n] # Null
    BY <1>0, <2>3, <2>4, NullOutside DEF LinksInOrder
  <2>6. g.par[v] \in Id /\ g.par[n] \in Id
    BY <2>3, <2>5, HeapFields
  <2> HIDE DEF v, n
  <2>7. v < n
    BY <2>3, <2>4, BeforeTransitive
  <2>8. p # Null
    BY NullOutside
  <2>9. QED
    BY <2>1, <2>2, <2>3, <2>4, <2>6, <2>7, <2>8
<1> DEFINE cut == [g EXCEPT !.nx[v] = n, !.pv[n] = v]
           once == UpdateFlags(cut, g.par[v])
           twice == UpdateFlags(once, g.par[n])
           k == Exhaust(twice, p)
<1>2. UnlinkElse(g, p) = k
  BY DEF UnlinkElse
<1>3. /\ cut \in Heap
      /\ cut.nx = [g.nx EXCEPT ![v] = n] /\ cut.pv = [g.pv EXCEPT ![n] = v]
      /\ cut.kind = g.kind /\ cut.par = g.par
      /\ SameLists(g, cut)
  BY <1>1 DEF Heap, SameLists
<1> HIDE DEF cut
<1>4. once \in Heap /\ SameLinks(cut, once) /\ SameLists(cut, once)
  BY <1>1, <1>3, UpdateFlagsLemma
<1> HIDE DEF once
<1>5. twice \in Heap /\ SameLinks(once, twice) /\ SameLists(once, twice)
  BY <1>1, <1>4, UpdateFlagsLemma
<1> HIDE DEF twice
<1>6. twice.par[p] # Null
  BY <1>1, <1>3, <1>4, <1>5, NullOutside DEF SameLinks
<1>7. /\ k \in Heap
      /\ k.kind = [twice.kind EXCEPT ![p] = "cpp"]
      /\ k.pv = [twice.pv EXCEPT ![p] = Null]
      /\ k.nx = [twice.nx EXCEPT ![p] = Null]
      /\ k.par = [twice.par EXCEPT ![p] = Null]
      /\ SameLists(twice, k)
  BY <1>5, <1>6, ExhaustLemma
<1> HIDE DEF k
<1>8. /\ SameLists(g, k)
      /\ k.kind = [g.kind EXCEPT ![p] = "cpp"]
      /\ k.pv = [g.pv EXCEPT ![n] = v, ![p] = Null]
      /\ k.nx = [g.nx EXCEPT ![v] = n, ![p] = Null]
      /\ k.par = [g.par EXCEPT ![p] = Null]
  BY <1>3, <1>4, <1>5, <1>7 DEF SameLinks, SameLists
<1>9. LinksInOrder(k)
  <2> SUFFICES ASSUME NEW q \in Id
               PROVE  /\ k.pv[q] # Null =>
                            /\ k.pv[q] < q /\ k.nx[k.pv[q]] = q
                            /\ k.kind[q] \in {"else", "endif"}
                      /\ k.nx[q] # Null =>
                            /\ q < k.nx[q] /\ k.pv[k.nx[q]] = q
                            /\ k.kind[q] \in {"if", "else"}
                      /\ k.par[q] # Null =>
                            /\ k.kind[q] \in BranchKinds
                            /\ k.kind[q] \in {"else", "endif"} =>
                                   k.pv[q] # Null
                      /\ k.par[q] = Null => k.pv[q] = Null /\ k.nx[q] = Null
    BY DEF LinksInOrder
  <2>1. /\ g.kind \in [Id -> Kinds] /\ g.pv \in [Id -> Id \cup {Null}]
        /\ g.nx \in [Id -> Id \cup {Null}]
        /\ g.par \in [Id -> Id \cup {Null}]
    BY HeapFields
  <2>2. CASE q = p
    BY <1>1, <1>8, <2>1, <2>2, NullOutside DEF BranchKinds
  <2>3. CASE q = v
    <3>1. /\ k.kind[v] = g.kind[v] /\ k.pv[v] = g.pv[v]
          /\ k.nx[v] = n /\ k.par[v] = g.par[v] /\ k.pv[n] = v
      BY <1>1, <1>8, <2>1, NullOutside
    <3>2. g.pv[v] # Null => g.pv[v] \in Id \ {p, v}
      BY <1>0, <1>1, <2>1, NullOutside DEF LinksInOrder
    <3>3. /\ g.pv[v] # Null => /\ g.pv[v] < v /\ g.nx[g.pv[v]] = v
                               /\ g.kind[v] \in {"else", "endif"}
          /\ g.nx[v] # Null => /\ v < g.nx[v] /\ g.pv[g.nx[v]] = v
                               /\ g.kind[v] \in {"if", "else"}
          /\ g.kind[v] \in BranchKinds
          /\ g.kind[v] \in {"else", "endif"} => g.pv[v] # Null
      BY <1>0, <1>1, NullOutside DEF LinksInOrder
    <3>4. g.pv[v] # Null => k.nx[g.pv[v]] = g.nx[g.pv[v]]
      BY <1>1, <1>8, <2>1, <3>2
    <3>5. QED
      BY <1>1, <2>3, <3>1, <3>3, <3>4, NullOutside
  <2>4. CASE q = n
    <3>1. /\ k.kind[n] = g.kind[n] /\ k.pv[n] = v
          /\ k.nx[n] = g.nx[n] /\ k.par[n] = g.par[n] /\ k.nx[v] = n
      BY <1>1, <1>8, <2>1, NullOutside
    <3>2. g.nx[n] # Null => g.nx[n] \in Id \ {p, n}
      BY <1>0, <1>1, <2>1, NullOutside DEF LinksInOrder
    <3>3. /\ g.pv[n] # Null => /\ g.pv[n] < n /\ g.nx[g.pv[n]] = n
                               /\ g.kind[n] \in {"else", "endif"}
          /\ g.nx[n] # Null => /\ n < g.nx[n] /\ g.pv[g.nx[n]] = n
                               /\ g.kind[n] \in {"if", "else"}
          /\ g.kind[n] \in BranchKinds
          /\ g.kind[n] \in {"else", "endif"} => g.pv[n] # Null
      BY <1>0, <1>1, NullOutside DEF LinksInOrder
    <3>4. g.nx[n] # Null => k.pv[g.nx[n]] = g.pv[g.nx[n]]
      BY <1>1, <1>8, <2>1, <3>2
    <3>5. QED
      BY <1>1, <2>4, <3>1, <3>3, <3>4, NullOutside
  <2>5. CASE q \notin {p, v, n}
    <3>1. /\ k.kind[q] = g.kind[q] /\ k.pv[q] = g.pv[q]
          /\ k.nx[q] = g.nx[q] /\ k.par[q] = g.par[q]
      BY <1>1, <1>8, <2>1, <2>5
    <3>2. g.pv[q] # Null => g.pv[q] \in Id \ {p, v}
      BY <1>0, <1>1, <2>1, <2>5, NullOutside DEF LinksInOrder
    <3>3. g.nx[q] # Null => g.nx[q] \in Id \ {p, n}
      BY <1>0, <1>1, <2>1, <2>5, NullOutside DEF LinksInOrder
    <3>4. QED
      BY <1>0, <1>1, <1>8, <2>1, <3>1, <3>2, <3>3 DEF LinksInOrder
  <2>6. QED
    BY <2>2, <2>3, <2>4, <2>5
<1>10. BranchesLinked(k)
  BY <1>0, <1>1, <1>8, HeapFields, NullOutside DEF BranchesLinked, BranchKinds
<1>11. ParentsHoldIn(k)
  BY <1>0, <1>1, <1>8, HeapFields, NullOutside DEF ParentsHoldIn, SameLists
<1>12. OnlyBranches(g, k)
  BY <1>1, <1>8, HeapFields, NullOutside DEF OnlyBranches, BranchKinds
<1>13. ElseUnlinked(g, k, p)
  BY <1>8 DEF ElseUnlinked
<1>14. QED
  BY <1>2, <1>7, <1>8, <1>9, <1>10, <1>11, <1>12, <1>13 DEF InShape

\* Unlinking any prefix keeps the chains in shape, and moves no prefix.
LEMMA UnlinkLemma ==
  ASSUME NEW g \in Heap, NEW p \in Id, InShape(g)
  PROVE  /\ Unlink(g, p) \in Heap /\ SameLists(g, Unlink(g, p))
         /\ InShape(Unlink(g, p)) /\ OnlyBranches(g, Unlink(g, p))
<1>1. CASE g.kind[p] = "if"
  BY <1>1, UnlinkIfLemma DEF Unlink
<1>2. CASE g.kind[p] = "else"
  BY <1>2, UnlinkElseLemma DEF Unlink
<1>3. CASE g.kind[p] = "endif"
  BY <1>3, UnlinkEndifLemma DEF Unlink
<1>4. CASE g.kind[p] \notin BranchKinds
  BY <1>4 DEF Unlink, BranchKinds, SameLists, OnlyBranches
<1>5. QED
  BY <1>1, <1>2, <1>3, <1>4 DEF BranchKinds

-----------------------------------------------------------------------------
(* Reverting branches, moving prefixes and removing tokens.                  *)

LEMMA FiniteIds == IsFiniteSet(Id)
  BY MaxLenAssumption, FS_Interval DEF Id

LEMMA CountOfIds ==
  ASSUME NEW S \in SUBSET Id
  PROVE  Cardinality(S) \in Nat
  BY FiniteIds, FS_Subset, FS_CardinalityType

LEMMA ParentsOfType ==
  ASSUME NEW g \in Heap, NEW S \in SUBSET Id
  PROVE  ParentsOf(g, S) \in SUBSET Id
  BY HeapFields DEF ParentsOf

LEMMA RevertAllLemma ==
  ASSUME NEW g \in Heap, NEW S \in SUBSET Id
  PROVE  /\ RevertAll(g, S) \in Heap /\ SameLists(g, RevertAll(g, S))
         /\ CutFrom(g, RevertAll(g, S), S)
<1> DEFINE kind == [p \in Id |-> IF p \in S THEN "cpp" ELSE g.kind[p]]
           pv == [p \in Id |-> IF p \in S THEN Null ELSE g.pv[p]]
           nx == [p \in Id |-> IF p \in S THEN Null ELSE g.nx[p]]
           par == [p \in Id |-> IF p \in S THEN Null ELSE g.par[p]]
           refs == [t \in Id |->
                      g.refs[t] - Cardinality({p \in S : g.par[p] = t})]
           cut == [g EXCEPT !.kind = kind, !.pv = pv, !.nx = nx, !.par = par,
                            !.refs = refs]
<1>1. RevertAll(g, S) = UpdateFlagsOf(cut, ParentsOf(g, S))
  BY DEF RevertAll
<1>2. /\ kind \in [Id -> Kinds]
      /\ pv \in [Id -> Id \cup {Null}]
      /\ nx \in [Id -> Id \cup {Null}]
      /\ par \in [Id -> Id \cup {Null}]
  BY HeapFields DEF Kinds
<1>3. refs \in [Id -> Int]
  <2>1. ASSUME NEW t \in Id
        PROVE  Cardinality({p \in S : g.par[p] = t}) \in Int
    BY CountOfIds
  <2>2. \A t \in Id : g.refs[t] \in Int
    BY HeapFields
  <2>3. QED
    BY <2>1, <2>2
<1>4. CutFrom(g, cut, S)
  BY DEF CutFrom, Heap
<1> HIDE DEF kind, pv, nx, par, refs
<1>5. cut \in Heap /\ SameLists(g, cut)
  BY <1>2, <1>3 DEF Heap, SameLists
<1> HIDE DEF cut
<1>6. ParentsOf(g, S) \in SUBSET Id
  BY ParentsOfType
<1>7. /\ UpdateFlagsOf(cut, ParentsOf(g, S)) \in Heap
      /\ SameLinks(cut, UpdateFlagsOf(cut, ParentsOf(g, S)))
      /\ SameLists(cut, UpdateFlagsOf(cut, ParentsOf(g, S)))
  BY <1>5, <1>6, UpdateFlagsOfLemma
<1>8. QED
  BY <1>1, <1>4, <1>5, <1>7 DEF CutFrom, SameLinks, SameLists

LEMMA ElementsOf ==
  ASSUME NEW S, NEW s \in Seq(S)
  PROVE  \A i \in DOMAIN s : s[i] \in S
  OBVIOUS

LEMMA ToSetType ==
  ASSUME NEW S, NEW s \in Seq(S)
  PROVE  ToSet(s) \subseteq S
  BY DEF ToSet

LEMMA ToSetConcat ==
  ASSUME NEW S, NEW s \in Seq(S), NEW t \in Seq(S)
  PROVE  ToSet(s) \subseteq ToSet(s \o t) /\ ToSet(t) \subseteq ToSet(s \o t)
<1>1. ASSUME NEW i \in DOMAIN s
      PROVE  s[i] \in ToSet(s \o t)
  <2>1. i \in DOMAIN (s \o t) /\ (s \o t)[i] = s[i]
    OBVIOUS
  <2>2. QED
    BY <2>1 DEF ToSet
<1>2. ASSUME NEW i \in DOMAIN t
      PROVE  t[i] \in ToSet(s \o t)
  <2>1. i + Len(s) \in DOMAIN (s \o t) /\ (s \o t)[i + Len(s)] = t[i]
    OBVIOUS
  <2>2. QED
    BY <2>1 DEF ToSet
<1>3. QED
  BY <1>1, <1>2 DEF ToSet

BranchesParented(g) ==
    \A p \in Id : g.kind[p] \in BranchKinds => g.par[p] # Null

\* The prefixes of src are now prefixes of dst, along with their branches.
LEMMA MovePrefixesLemma ==
  ASSUME NEW g \in Heap, NEW src \in Id, NEW dst \in Id, src # dst,
         dst \in ToSet(g.toks),
         LinksInOrder(g), ParentsHoldIn(g), BranchesParented(g),
         NEW k, k = MovePrefixes(g, src, dst)
  PROVE  /\ k \in Heap
         /\ k.kind = g.kind /\ k.pv = g.pv /\ k.nx = g.nx /\ k.toks = g.toks
         /\ \A p \in Id : k.par[p] = Null <=> g.par[p] = Null
         /\ \A p \in Id : k.par[p] # src
         /\ ParentsHoldIn(k)
<1> DEFINE moved == SubSeq(g.pfx[src], 1, Len(g.pfx[src]))
           kept == SubSeq(g.pfx[src], Len(g.pfx[src]) + 1, Len(g.pfx[src]))
           branches == {p \in ToSet(moved) : g.kind[p] \in BranchKinds}
           pfx == [g.pfx EXCEPT ![dst] = moved \o @, ![src] = kept]
           par == [p \in Id |-> IF p \in branches THEN dst ELSE g.par[p]]
           refs == [g.refs EXCEPT
                      ![dst] = @ + Cardinality(branches),
                      ![src] = @ - Cardinality({p \in branches :
                                                  g.par[p] = src})]
           taken == [g EXCEPT !.pfx = pfx, !.par = par, !.refs = refs]
<1>0. MoveFirstPrefixes(g, Len(g.pfx[src]), src, dst)
        = IF branches = {} THEN taken ELSE UpdateFlagsOf(taken, {src, dst})
  BY DEF MoveFirstPrefixes
<1> HIDE DEF taken
<1>1. k = IF branches = {} THEN taken ELSE UpdateFlagsOf(taken, {src, dst})
  BY <1>0 DEF MovePrefixes
<1>2. g.pfx[src] \in Seq(Id) /\ g.pfx[dst] \in Seq(Id)
  BY HeapFields
<1>3. moved = g.pfx[src] /\ moved \in Seq(Id) /\ kept \in Seq(Id)
  BY <1>2
<1> HIDE DEF moved, kept
<1>4. ToSet(moved) = ToSet(g.pfx[src]) /\ ToSet(moved) \subseteq Id
  BY <1>3, ToSetType
<1>5. branches \in SUBSET Id
  BY <1>4
<1>6. pfx \in [Id -> Seq(Id)]
  <2>1. moved \o g.pfx[dst] \in Seq(Id)
    BY <1>2, <1>3
  <2>2. g.pfx \in [Id -> Seq(Id)]
    BY HeapFields
  <2>3. pfx = [[g.pfx EXCEPT ![dst] = moved \o g.pfx[dst]] EXCEPT ![src] = kept]
    BY <2>2
  <2>4. QED
    BY <1>3, <2>1, <2>2, <2>3
<1>7. /\ \A t \in Id \ {src} : ToSet(g.pfx[t]) \subseteq ToSet(pfx[t])
      /\ ToSet(g.pfx[src]) \subseteq ToSet(pfx[dst])
  <2>1. \A t \in Id \ {src, dst} : pfx[t] = g.pfx[t]
    BY HeapFields
  <2>2. pfx[dst] = moved \o g.pfx[dst]
    BY HeapFields
  <2>3. /\ ToSet(g.pfx[src]) \subseteq ToSet(moved \o g.pfx[dst])
        /\ ToSet(g.pfx[dst]) \subseteq ToSet(moved \o g.pfx[dst])
    BY <1>2, <1>3, ToSetConcat
  <2>4. QED
    BY <2>1, <2>2, <2>3
<1>8. par \in [Id -> Id \cup {Null}]
  BY HeapFields
<1>9. refs \in [Id -> Int]
  <2>1. /\ Cardinality(branches) \in Int
        /\ Cardinality({p \in branches : g.par[p] = src}) \in Int
    BY <1>5, CountOfIds
  <2> HIDE DEF branches
  <2>2. QED
    BY <2>1, HeapFields
<1>10. \A p \in Id : par[p] = Null <=> g.par[p] = Null
  BY NullOutside DEF BranchesParented
<1>11. \A p \in Id : par[p] # src
  <2>1. \A p \in Id : g.par[p] = src => p \in branches
    BY <1>4, NullOutside DEF ParentsHoldIn, LinksInOrder
  <2> HIDE DEF branches
  <2>2. QED
    BY <2>1
<1>12. \A p \in Id : par[p] # Null =>
           par[p] \in ToSet(g.toks) /\ p \in ToSet(pfx[par[p]])
  <2> SUFFICES ASSUME NEW p \in Id, par[p] # Null
               PROVE  par[p] \in ToSet(g.toks) /\ p \in ToSet(pfx[par[p]])
    OBVIOUS
  <2>1. CASE p \in branches
    BY <2>1, <1>4, <1>7
  <2>2. CASE p \notin branches
    <3>1. par[p] = g.par[p] /\ g.par[p] \in Id \ {src}
      BY <2>2, <1>8, <1>11
    <3>2. g.par[p] \in ToSet(g.toks) /\ p \in ToSet(g.pfx[g.par[p]])
      BY <3>1, NullOutside DEF ParentsHoldIn
    <3>3. QED
      BY <3>1, <3>2, <1>7
  <2>3. QED
    BY <2>1, <2>2
<1> HIDE DEF branches, pfx, par, refs
<1>13. /\ taken \in Heap
       /\ taken.kind = g.kind /\ taken.pv = g.pv /\ taken.nx = g.nx
       /\ taken.toks = g.toks /\ taken.par = par /\ taken.pfx = pfx
  BY <1>6, <1>8, <1>9 DEF Heap, taken
<1> HIDE DEF taken
<1>14. /\ k \in Heap /\ SameLinks(taken, k) /\ SameLists(taken, k)
  BY <1>1, <1>13, UpdateFlagsOfLemma DEF SameLinks, SameLists
<1>15. QED
  BY <1>10, <1>11, <1>12, <1>13, <1>14
     DEF SameLinks, SameLists, ParentsHoldIn

LEMMA RemoveAtLemma ==
  ASSUME NEW S, NEW s \in Seq(S), NEW i \in 1..Len(s)
  PROVE  /\ RemoveAt(s, i) \in Seq(S)
         /\ Len(RemoveAt(s, i)) = Len(s) - 1
         /\ \A j \in 1..(Len(s) - 1) :
                RemoveAt(s, i)[j] = IF j < i THEN s[j] ELSE s[j + 1]
<1> DEFINE before == SubSeq(s, 1, i - 1)
           after == SubSeq(s, i + 1, Len(s))
<1>1. /\ before \in Seq(S) /\ Len(before) = i - 1
      /\ \A j \in 1..(i - 1) : before[j] = s[j]
  OBVIOUS
<1>2. /\ after \in Seq(S) /\ Len(after) = Len(s) - i
      /\ \A j \in 1..(Len(s) - i) : after[j] = s[i + j]
  OBVIOUS
<1> HIDE DEF before, after
<1>3. RemoveAt(s, i) = before \o after
  BY DEF RemoveAt, before, after
<1>4. before \o after \in Seq(S) /\ Len(before \o after) = Len(s) - 1
  BY <1>1, <1>2
<1>5. ASSUME NEW j \in 1..(Len(s) - 1)
      PROVE  (before \o after)[j] = IF j < i THEN s[j] ELSE s[j + 1]
  <2>1. CASE j < i
    BY <1>1, <1>2, <2>1
  <2>2. CASE j >= i
    <3>1. (before \o after)[j] = after[j - (i - 1)]
      BY <1>1, <1>2, <2>2
    <3>2. after[j - (i - 1)] = s[i + (j - (i - 1))]
      BY <1>2, <2>2
    <3>3. QED
      BY <2>2, <3>1, <3>2
  <2>3. j < i \/ j >= i
    OBVIOUS
  <2>4. QED
    BY <2>1, <2>2, <2>3
<1>6. QED
  BY <1>3, <1>4, <1>5

LEMMA IndexOfLemma ==
  ASSUME NEW s, NEW e, e \in ToSet(s)
  PROVE  IndexOf(s, e) \in DOMAIN s /\ s[IndexOf(s, e)] = e
  BY DEF IndexOf, ToSet

LEMMA LexerRemoveLemma ==
  ASSUME NEW g \in Heap, NEW t \in Id, t \in ToSet(g.toks),
         Distinct(g.toks), Last(g.toks) # t,
         LinksInOrder(g), ParentsHoldIn(g), BranchesParented(g),
         NEW k, k = LexerRemove(g, t)
  PROVE  /\ k \in Heap
         /\ k.kind = g.kind /\ k.pv = g.pv /\ k.nx = g.nx
         /\ \A p \in Id : k.par[p] = Null <=> g.par[p] = Null
         /\ ParentsHoldIn(k)
         /\ Distinct(k.toks)
         /\ k.toks # <<>> /\ Last(k.toks) = Last(g.toks)
         /\ \A i \in DOMAIN k.toks : k.toks[i] \in ToSet(g.toks)
<1> DEFINE i == Index(g, t)
           u == TokenNext(g, t)
           moved == MovePrefixes(g, t, u)
           toks == RemoveAt(moved.toks, Index(g, t))
           cut == [moved EXCEPT !.toks = toks]
<1>1. g.toks \in Seq(Id)
  BY HeapFields
<1>2. i \in 1..Len(g.toks) /\ g.toks[i] = t /\ i < Len(g.toks)
  <2>1. i \in DOMAIN g.toks /\ g.toks[i] = t
    BY IndexOfLemma DEF Index
  <2>2. i # Len(g.toks)
    BY <2>1 DEF Last
  <2>3. QED
    BY <1>1, <2>1, <2>2
<1>3. u = g.toks[i + 1]
  BY <1>2 DEF TokenNext, InList
<1>4. u \in Id /\ u # t /\ u \in ToSet(g.toks)
  <2>1. i + 1 \in DOMAIN g.toks /\ i + 1 # i
    BY <1>1, <1>2
  <2>2. QED
    BY <1>1, <1>2, <1>3, <2>1 DEF Distinct, ToSet
<1>5. /\ moved \in Heap
      /\ moved.kind = g.kind /\ moved.pv = g.pv /\ moved.nx = g.nx
      /\ moved.toks = g.toks
      /\ \A p \in Id : moved.par[p] = Null <=> g.par[p] = Null
      /\ \A p \in Id : moved.par[p] # t
      /\ ParentsHoldIn(moved)
  BY <1>4, MovePrefixesLemma
<1> HIDE DEF moved, u
<1>6. /\ toks \in Seq(Id) /\ Len(toks) = Len(g.toks) - 1
      /\ \A j \in 1..(Len(g.toks) - 1) :
             toks[j] = IF j < i THEN g.toks[j] ELSE g.toks[j + 1]
  <2>1. toks = RemoveAt(g.toks, i)
    BY <1>5
  <2> HIDE DEF toks, i
  <2>2. QED
    BY <1>1, <1>2, <2>1, RemoveAtLemma
<1> HIDE DEF i, toks
<1>7. /\ DOMAIN toks = 1..(Len(g.toks) - 1) /\ DOMAIN g.toks = 1..Len(g.toks)
      /\ i \in Int /\ Len(g.toks) \in Nat
  BY <1>1, <1>2, <1>6
<1>8. Distinct(toks)
  <2> SUFFICES ASSUME NEW m \in DOMAIN toks, NEW n \in DOMAIN toks,
                      toks[m] = toks[n]
               PROVE  m = n
    BY DEF Distinct
  <2> DEFINE at(j) == IF j < i THEN j ELSE j + 1
  <2>1. /\ m \in Int /\ n \in Int
        /\ at(m) \in DOMAIN g.toks /\ at(n) \in DOMAIN g.toks
    BY <1>7
  <2>2. toks[m] = g.toks[at(m)] /\ toks[n] = g.toks[at(n)]
    BY <1>6, <1>7
  <2>3. at(m) = at(n)
    BY <2>1, <2>2 DEF Distinct
  <2>4. QED
    BY <1>7, <2>1, <2>3
<1>9. toks # <<>> /\ Last(toks) = Last(g.toks)
  BY <1>1, <1>2, <1>6, <1>7 DEF Last
<1>10. ASSUME NEW j \in DOMAIN toks
       PROVE  toks[j] \in ToSet(g.toks)
  <2>1. PICK m \in DOMAIN g.toks : toks[j] = g.toks[m]
    <3>1. /\ j \in DOMAIN g.toks /\ j + 1 \in DOMAIN g.toks
          /\ toks[j] = g.toks[j] \/ toks[j] = g.toks[j + 1]
      BY <1>6, <1>7
    <3>2. QED
      BY <3>1
  <2>2. QED
    BY <2>1 DEF ToSet
<1>11. ASSUME NEW v \in ToSet(g.toks), v # t
       PROVE  v \in ToSet(toks)
  <2>1. PICK j \in 1..Len(g.toks) : g.toks[j] = v
    BY <1>7 DEF ToSet
  <2>2. j # i
    BY <1>2, <1>11, <2>1
  <2>3. \E m \in DOMAIN toks : toks[m] = v
    <3>1. CASE j < i
      <4>1. j \in DOMAIN toks /\ toks[j] = v
        BY <1>2, <1>6, <1>7, <2>1, <3>1
      <4>2. QED
        BY <4>1
    <3>2. CASE j > i
      <4>1. j - 1 \in DOMAIN toks /\ toks[j - 1] = v
        BY <1>2, <1>6, <1>7, <2>1, <3>2
      <4>2. QED
        BY <4>1
    <3>3. QED
      BY <1>7, <2>2, <3>1, <3>2
  <2>4. QED
    BY <2>3 DEF ToSet
<1>12. /\ cut \in Heap /\ SameLinks(moved, cut) /\ cut.pfx = moved.pfx
       /\ cut.toks = toks
  BY <1>5, <1>6 DEF Heap, SameLinks
<1>13. k = Rele(cut, t)
  BY DEF LexerRemove, toks, moved, u
<1> HIDE DEF cut
<1>14. k \in Heap /\ SameLinks(cut, k) /\ SameLists(cut, k)
  BY <1>12, <1>13, ReleLemma
<1>15. ParentsHoldIn(k)
  BY <1>5, <1>11, <1>12, <1>14 DEF ParentsHoldIn, SameLinks, SameLists
<1>16. QED
  BY <1>5, <1>8, <1>9, <1>10, <1>12, <1>14, <1>15 DEF SameLinks, SameLists

-----------------------------------------------------------------------------
(* The walks along pv.                                                       *)

LEMMA BackLemma ==
  ASSUME NEW g \in Heap, NEW S \in SUBSET Pos, LinksInOrder(g)
  PROVE  /\ S \subseteq Back(g, S) /\ Back(g, S) \subseteq Pos
         /\ ClosedUnderPv(g, Back(g, S))
         /\ \A C \in SUBSET Pos :
                S \subseteq C /\ ClosedUnderPv(g, C) => Back(g, S) \subseteq C
<1>1. S \subseteq Back(g, S) /\ Back(g, S) \subseteq Pos
  BY DEF Back
<1>2. ASSUME NEW C \in SUBSET Pos, S \subseteq C, ClosedUnderPv(g, C)
      PROVE  Back(g, S) \subseteq C
  BY <1>2 DEF Back
<1>3. ClosedUnderPv(g, Back(g, S))
  <2> SUFFICES ASSUME NEW q \in Back(g, S), g.pv[q] # Null
               PROVE  g.pv[q] \in Back(g, S)
    BY DEF ClosedUnderPv
  <2>1. q \in Pos /\ q \in Id
    BY <1>1, NullOutside
  <2>2. g.pv[q] \in Id
    BY <2>1, HeapFields
  <2>3. g.pv[q] < q
    BY <2>1 DEF LinksInOrder
  <2>4. g.pv[q] \in Pos
    BY <2>1, <2>2, <2>3, MaxLenAssumption DEF Pos, Id
  <2>5. ASSUME NEW C \in SUBSET Pos, S \subseteq C, ClosedUnderPv(g, C)
        PROVE  g.pv[q] \in C
    BY <1>2, <2>5 DEF ClosedUnderPv
  <2>6. QED
    BY <2>4, <2>5 DEF Back
<1>4. QED
  BY <1>1, <1>2, <1>3

-----------------------------------------------------------------------------
(* The inductive invariant holds initially and is kept by each action.       *)

LEMMA EmptyHeapType == EmptyHeap \in Heap
  BY DEF EmptyHeap, Heap, Kinds, BranchKinds, Null

LEMMA InitTypeOK == Init => TypeOK
  BY EmptyHeapType, MaxLenAssumption DEF Init, TypeOK

LEMMA InitInv == Init => IInv
<1> SUFFICES ASSUME Init PROVE IInv
  OBVIOUS
<1>1. /\ h.kind = [i \in Id |-> "none"] /\ h.pv = [i \in Id |-> Null]
      /\ h.nx = [i \in Id |-> Null] /\ h.par = [i \in Id |-> Null]
      /\ h.toks = <<>>
  BY DEF Init, EmptyHeap
<1>2. TypeOK
  BY InitTypeOK
<1>3. ChainsWellFormed /\ ParentsHoldIn(h)
  BY <1>1 DEF Init, ChainsWellFormed, LinksInOrder, ParentsHoldIn
<1>4. ListOK
  BY <1>1 DEF Init, ListOK, Distinct
<1>5. ReadOK
  BY <1>1, NullOutside DEF Init, ReadOK, AtEof, BranchKinds
<1>6. StackOK
  BY <1>1 DEF Init, StackOK, Distinct
<1>7. QED
  BY <1>2, <1>3, <1>4, <1>5, <1>6 DEF IInv

\* Once the file is read every branch has a parent.
LEMMA ReadMeansParented == IInv /\ phase # "read" => BranchesParented(h)
<1> SUFFICES ASSUME IInv, phase # "read", NEW p \in Id,
                    h.kind[p] \in BranchKinds
             PROVE  h.par[p] # Null
  BY DEF BranchesParented
<1>1. AtEof /\ lk = tk /\ rd = tk + 1 /\ tk \in Nat /\ p \in Nat
  BY NullOutside, MaxLenAssumption DEF IInv, ReadOK, TypeOK
<1>2. h.kind[tk] = "eof"
  BY <1>1 DEF AtEof
<1>3. p # tk /\ ~(p >= rd)
  BY <1>2 DEF IInv, ReadOK, BranchKinds
<1>4. p < lk
  BY <1>1, <1>3
<1>5. QED
  BY <1>4 DEF IInv, ReadOK

\* Tokens and prefixes may go and move as long as the chains stay.
LEMMA FrameStep ==
  ASSUME IInv, phase # "read", UNCHANGED readVars,
         h' \in Heap,
         h'.kind = h.kind, h'.pv = h.pv, h'.nx = h.nx,
         \A p \in Id : h'.par[p] = Null <=> h.par[p] = Null,
         ParentsHoldIn(h'),
         Distinct(h'.toks), h'.toks # <<>>, Last(h'.toks) = Last(h.toks),
         \A i \in DOMAIN h'.toks : h'.toks[i] \in ToSet(h.toks)
  PROVE  IInv'
<1>1. TypeOK'
  BY DEF IInv, TypeOK, readVars
<1>2. ChainsWellFormed'
  BY DEF IInv, ChainsWellFormed, LinksInOrder, BranchesLinked, readVars
<1>3. ListOK'
  <2>1. \A v \in ToSet(h.toks) : v <= tk
    BY DEF IInv, ListOK, ToSet
  <2>2. QED
    BY <2>1 DEF IInv, ListOK, readVars
<1>4. ReadOK'
  <2>1. lk = tk /\ tk \in Nat
    BY MaxLenAssumption DEF IInv, ReadOK, TypeOK
  <2>2. \A p \in Id : ~(lk <= p /\ p < tk)
    BY <2>1, NullOutside
  <2>3. QED
    BY <2>2 DEF IInv, ReadOK, AtEof, readVars
<1>5. StackOK'
  <2>1. stack \in Seq(Pos)
    BY DEF IInv, TypeOK
  <2>2. \A i \in DOMAIN stack : stack[i] \in Id
    BY <2>1, ElementsOf, NullOutside
  <2>3. QED
    BY <2>2 DEF IInv, StackOK, readVars
<1>6. QED
  BY <1>1, <1>2, <1>3, <1>4, <1>5 DEF IInv

LEMMA RemoveStep ==
  ASSUME IInv, phase # "read", UNCHANGED readVars,
         NEW t \in Pos, Removable(t), h' = LexerRemove(h, t)
  PROVE  IInv'
<1>1. h \in Heap /\ t \in Id /\ t \in ToSet(h.toks)
  BY NullOutside DEF IInv, TypeOK, Removable, InList
<1>2. BranchesParented(h)
  BY ReadMeansParented
<1>3. Distinct(h.toks) /\ Last(h.toks) = tk /\ h.kind[tk] = "eof"
  BY DEF IInv, ReadOK, ListOK, AtEof
<1>4. Last(h.toks) # t
  BY <1>3 DEF Removable
<1>5. LinksInOrder(h) /\ ParentsHoldIn(h)
  BY DEF IInv, ChainsWellFormed
<1>6. /\ h' \in Heap
      /\ h'.kind = h.kind /\ h'.pv = h.pv /\ h'.nx = h.nx
      /\ \A p \in Id : h'.par[p] = Null <=> h.par[p] = Null
      /\ ParentsHoldIn(h')
      /\ Distinct(h'.toks)
      /\ h'.toks # <<>> /\ Last(h'.toks) = Last(h.toks)
      /\ \A i \in DOMAIN h'.toks : h'.toks[i] \in ToSet(h.toks)
  BY <1>1, <1>2, <1>3, <1>4, <1>5, LexerRemoveLemma
<1>7. QED
  BY <1>6, FrameStep

LEMMA MoveStep ==
  ASSUME IInv, NEW src \in Pos, NEW dst \in Pos, LexerMovePrefixes(src, dst)
  PROVE  IInv'
<1>1. /\ h \in Heap /\ src \in Id /\ dst \in Id /\ src # dst
      /\ dst \in ToSet(h.toks) /\ phase # "read" /\ UNCHANGED readVars
      /\ h' = MovePrefixes(h, src, dst)
  BY NullOutside DEF IInv, TypeOK, LexerMovePrefixes, InList
<1>2. BranchesParented(h) /\ LinksInOrder(h) /\ ParentsHoldIn(h)
  BY <1>1, ReadMeansParented DEF IInv, ChainsWellFormed
<1>3. /\ h' \in Heap
      /\ h'.kind = h.kind /\ h'.pv = h.pv /\ h'.nx = h.nx
      /\ h'.toks = h.toks
      /\ \A p \in Id : h'.par[p] = Null <=> h.par[p] = Null
      /\ ParentsHoldIn(h')
  BY <1>1, <1>2, MovePrefixesLemma
<1>4. /\ Distinct(h.toks) /\ h.toks # <<>>
      /\ \A i \in DOMAIN h.toks : h.toks[i] \in ToSet(h.toks)
  BY <1>1 DEF IInv, ListOK, ReadOK, AtEof, ToSet
<1>5. QED
  BY <1>1, <1>3, <1>4, FrameStep

LEMMA DropStep ==
  ASSUME IInv, NEW t \in Pos, NEW p \in Pos, DropPrefix(t, p)
  PROVE  IInv'
<1>1. /\ h \in Heap /\ t \in Id /\ p \in Id /\ h.kind[p] = "cpp"
      /\ p \in ToSet(h.pfx[t]) /\ phase # "read" /\ UNCHANGED readVars
      /\ h' = RemovePrefix(h, t, p)
  BY NullOutside DEF IInv, TypeOK, DropPrefix
<1> DEFINE s == h.pfx[t]
           i == IndexOf(s, p)
<1>2. s \in Seq(Id) /\ i \in 1..Len(s) /\ s[i] = p
  BY <1>1, HeapFields, IndexOfLemma
<1>3. /\ RemoveAt(s, i) \in Seq(Id)
      /\ Len(RemoveAt(s, i)) = Len(s) - 1
      /\ \A j \in 1..(Len(s) - 1) :
             RemoveAt(s, i)[j] = IF j < i THEN s[j] ELSE s[j + 1]
  BY <1>2, RemoveAtLemma
<1>4. h' = [h EXCEPT !.pfx = [h.pfx EXCEPT ![t] = RemoveAt(s, i)]]
  BY <1>1 DEF RemovePrefix
<1>5. [h.pfx EXCEPT ![t] = RemoveAt(s, i)] \in [Id -> Seq(Id)]
  BY <1>1, <1>3, HeapFields
<1>6. ASSUME NEW q \in ToSet(s), q # p
      PROVE  q \in ToSet(RemoveAt(s, i))
  <2>1. PICK j \in 1..Len(s) : s[j] = q
    BY <1>2 DEF ToSet
  <2>2. j # i
    BY <1>2, <1>6, <2>1
  <2>3. DOMAIN RemoveAt(s, i) = 1..(Len(s) - 1)
    BY <1>2, <1>3
  <2>4. \E m \in DOMAIN RemoveAt(s, i) : RemoveAt(s, i)[m] = q
    <3>1. CASE j < i
      <4>1. j \in 1..(Len(s) - 1) /\ RemoveAt(s, i)[j] = q
        BY <1>2, <1>3, <2>1, <3>1
      <4>2. QED
        BY <2>3, <4>1
    <3>2. CASE j > i
      <4>1. j - 1 \in 1..(Len(s) - 1) /\ RemoveAt(s, i)[j - 1] = q
        BY <1>2, <1>3, <2>1, <3>2
      <4>2. QED
        BY <2>3, <4>1
    <3>3. QED
      BY <1>2, <2>1, <2>2, <3>1, <3>2
  <2>5. QED
    BY <2>4 DEF ToSet
<1> HIDE DEF s, i
<1> DEFINE pfx == [h.pfx EXCEPT ![t] = RemoveAt(s, i)]
<1>7. \A u \in Id \ {t} : pfx[u] = h.pfx[u]
  BY <1>1, HeapFields
<1>8. pfx[t] = RemoveAt(s, i)
  BY <1>1, HeapFields
<1> HIDE DEF pfx
<1>9. /\ h' \in Heap /\ SameLinks(h, h') /\ h'.toks = h.toks /\ h'.pfx = pfx
  BY <1>1, <1>4, <1>5 DEF Heap, SameLinks, pfx
<1>10. ParentsHoldIn(h')
  <2> SUFFICES ASSUME NEW q \in Id, h.par[q] # Null
               PROVE  /\ h.par[q] \in ToSet(h.toks)
                      /\ q \in ToSet(pfx[h.par[q]])
    BY <1>9 DEF ParentsHoldIn, SameLinks
  <2>1. /\ h.par[q] \in ToSet(h.toks) /\ q \in ToSet(h.pfx[h.par[q]])
        /\ h.par[q] \in Id
    BY <1>1, HeapFields DEF IInv, ParentsHoldIn
  <2>2. q # p
    BY <1>1 DEF IInv, ChainsWellFormed, LinksInOrder, BranchKinds
  <2>3. QED
    BY <1>6, <1>7, <1>8, <2>1, <2>2 DEF s
<1>11. /\ Distinct(h.toks) /\ h.toks # <<>>
       /\ \A j \in DOMAIN h.toks : h.toks[j] \in ToSet(h.toks)
  BY <1>1 DEF IInv, ListOK, ReadOK, AtEof, ToSet
<1>12. QED
  BY <1>1, <1>9, <1>10, <1>11, FrameStep DEF SameLinks

LEMMA UnlinkStep ==
  ASSUME IInv, NEW e \in Pos, UnlinkPrefix(e)
  PROVE  IInv'
<1>1. /\ h \in Heap /\ e \in Id /\ phase = "parse" /\ h' = Unlink(h, e)
      /\ UNCHANGED readVars
  BY NullOutside DEF IInv, TypeOK, UnlinkPrefix
<1>2. InShape(h)
  BY <1>1 DEF IInv, ChainsWellFormed, InShape
<1>3. h' \in Heap /\ SameLists(h, h') /\ InShape(h') /\ OnlyBranches(h, h')
  BY <1>1, <1>2, UnlinkLemma
<1>4. AtEof /\ lk = tk /\ tk \in Id /\ h.kind[tk] = "eof" /\ stack = <<>>
  BY <1>1, MaxLenAssumption
     DEF IInv, ReadOK, AtEof, TypeOK, Id, StackOK
<1>5. h'.kind[tk] = "eof"
  BY <1>3, <1>4 DEF OnlyBranches, BranchKinds
<1>6. TypeOK'
  BY <1>1, <1>3 DEF IInv, TypeOK, readVars
<1>7. ChainsWellFormed' /\ ParentsHoldIn(h)'
  BY <1>3 DEF InShape, ChainsWellFormed
<1>8. ListOK'
  BY <1>1, <1>3, <1>5 DEF IInv, ListOK, SameLists, readVars
<1>9. ReadOK'
  <2>1. \A q \in Id : q >= rd => h'.kind[q] = "none"
    BY <1>3 DEF IInv, ReadOK, OnlyBranches, BranchKinds
  <2>2. \A q \in Id : q >= lk => h'.par[q] = Null
    BY <1>3 DEF IInv, ReadOK, OnlyBranches
  <2>3. \A q \in Id : q < lk /\ h'.kind[q] \in BranchKinds
                       => h'.par[q] # Null
    BY <1>3 DEF InShape, BranchesLinked
  <2>4. \A q \in Id : ~(lk <= q /\ q < tk)
    BY <1>4, NullOutside
  <2>5. lo = tk + 1 /\ rd = tk + 1 /\ lk # 0
    BY <1>4, NullOutside DEF IInv, ReadOK, Null
  <2>6. QED
    BY <1>1, <1>4, <1>5, <2>1, <2>2, <2>3, <2>4, <2>5, NullOutside
       DEF ReadOK, AtEof, readVars, Null
<1>10. StackOK'
  BY <1>1, <1>4 DEF StackOK, Distinct, readVars
<1>11. QED
  BY <1>6, <1>7, <1>8, <1>9, <1>10 DEF IInv

LEMMA PurgeStep ==
  ASSUME IInv, BranchPurge
  PROVE  IInv'
<1> DEFINE tops == ToSet(stack)
           S == Back(h, tops)
<1>1. /\ h \in Heap /\ phase = "discard" /\ phase' = "parse"
      /\ h' = RevertAll(h, S) /\ stack' = <<>>
      /\ rd' = rd /\ lo' = lo /\ lk' = lk /\ tk' = tk
  BY DEF IInv, TypeOK, BranchPurge
<1>2. LinksInOrder(h) /\ ParentsHoldIn(h) /\ BranchesParented(h)
  BY <1>1, ReadMeansParented DEF IInv, ChainsWellFormed
<1>3. stack \in Seq(Pos) /\ tops \in SUBSET Pos
  BY ToSetType DEF IInv, TypeOK
<1> HIDE DEF tops
<1>4. /\ tops \subseteq S /\ S \subseteq Pos /\ ClosedUnderPv(h, S)
      /\ \A C \in SUBSET Pos :
             tops \subseteq C /\ ClosedUnderPv(h, C) => S \subseteq C
  BY <1>1, <1>2, <1>3, BackLemma
<1> HIDE DEF S
<1>5. \A p \in Pos : p \in Id /\ p # Null
  BY NullOutside
<1>6. \A p \in tops : p \in Pos /\ h.par[p] # Null /\ h.nx[p] = Null
  BY <1>3 DEF tops, ToSet, IInv, StackOK
<1>7. \A p \in S : h.par[p] # Null
  <2> DEFINE C == {q \in Pos : h.par[q] # Null}
  <2>1. ClosedUnderPv(h, C)
    <3> SUFFICES ASSUME NEW q \in Pos, h.par[q] # Null, h.pv[q] # Null
                 PROVE  h.pv[q] \in Pos /\ h.par[h.pv[q]] # Null
      BY DEF ClosedUnderPv
    <3>1. h.pv[q] \in Id /\ q \in Id
      BY <1>1, <1>5, HeapFields
    <3>2. h.pv[q] < q /\ h.nx[h.pv[q]] = q
      BY <3>1 DEF LinksInOrder, IInv, ChainsWellFormed
    <3>3. h.pv[q] \in Pos
      BY <3>1, <3>2, MaxLenAssumption DEF Pos, Id
    <3>4. h.nx[h.pv[q]] # Null
      BY <1>5, <3>2
    <3>5. QED
      BY <1>2, <3>1, <3>3, <3>4 DEF LinksInOrder
  <2>2. tops \subseteq C /\ C \in SUBSET Pos
    BY <1>6
  <2>3. QED
    BY <1>4, <2>1, <2>2
<1>8. \A p \in S : h.nx[p] # Null => h.nx[p] \in S
  <2> DEFINE C == {q \in S : h.nx[q] # Null => h.nx[q] \in S}
  <2>1. ClosedUnderPv(h, C)
    <3> SUFFICES ASSUME NEW q \in S, h.pv[q] # Null
                 PROVE  h.pv[q] \in S /\ h.nx[h.pv[q]] = q
      BY DEF ClosedUnderPv
    <3>1. q \in Id
      BY <1>4, <1>5
    <3>2. QED
      BY <1>2, <1>4, <3>1 DEF ClosedUnderPv, LinksInOrder
  <2>2. tops \subseteq C /\ C \in SUBSET Pos
    BY <1>4, <1>6
  <2>3. S \subseteq C
    BY <1>4, <2>1, <2>2
  <2>4. QED
    BY <2>3
<1>9. S \in SUBSET Id
  BY <1>4, <1>5
<1>10. h' \in Heap /\ SameLists(h, h') /\ CutFrom(h, h', S)
  BY <1>1, <1>9, RevertAllLemma
<1>11. LinksInOrder(h') /\ ParentsHoldIn(h')
  BY <1>1, <1>2, <1>4, <1>8, <1>9, <1>10, CutWholeChains
     DEF ClosedUnderPv
<1>12. BranchesLinked(h')
  <2> SUFFICES ASSUME NEW p \in Id, h'.kind[p] \in BranchKinds
               PROVE  /\ h'.par[p] # Null
                      /\ h'.kind[p] \in {"if", "else"} => h'.nx[p] # Null
    BY DEF BranchesLinked
  <2>1. p \notin S
    BY <1>10 DEF CutFrom, BranchKinds
  <2>2. /\ h'.kind[p] = h.kind[p] /\ h'.nx[p] = h.nx[p]
        /\ h'.par[p] = h.par[p]
    BY <1>10, <2>1 DEF CutFrom
  <2>3. h.par[p] # Null
    BY <1>2, <2>2 DEF BranchesParented
  <2>4. h.nx[p] = Null /\ h.kind[p] \in {"if", "else"} => p \in tops
    BY <1>1, <2>3 DEF IInv, StackOK, tops, ToSet
  <2>5. QED
    BY <1>4, <2>1, <2>2, <2>3, <2>4
<1>13. AtEof /\ lk = tk /\ tk \in Id /\ h.kind[tk] = "eof"
  BY <1>1, MaxLenAssumption DEF IInv, ReadOK, AtEof, TypeOK, Id
<1>14. \A q \in Id : h.kind[q] \notin BranchKinds => q \notin S
  BY <1>2, <1>7 DEF LinksInOrder
<1>15. h'.kind[tk] = "eof"
  BY <1>10, <1>13, <1>14 DEF CutFrom, BranchKinds
<1>16. TypeOK'
  BY <1>1, <1>10 DEF IInv, TypeOK
<1>17. ChainsWellFormed'
  BY <1>11, <1>12 DEF ChainsWellFormed
<1>18. ListOK'
  BY <1>1, <1>10, <1>15 DEF IInv, ListOK, SameLists
<1>19. ReadOK'
  <2>1. \A q \in Id : q >= rd => h'.kind[q] = "none"
    BY <1>10, <1>14 DEF IInv, ReadOK, CutFrom, BranchKinds
  <2>2. \A q \in Id : q >= lk => h'.par[q] = Null
    BY <1>7, <1>10 DEF IInv, ReadOK, CutFrom
  <2>3. \A q \in Id : q < lk /\ h'.kind[q] \in BranchKinds
                       => h'.par[q] # Null
    BY <1>12 DEF BranchesLinked
  <2>4. \A q \in Id : ~(lk <= q /\ q < tk)
    BY <1>13, NullOutside
  <2>5. lo = tk + 1 /\ rd = tk + 1 /\ lk # 0
    BY <1>13, NullOutside DEF IInv, ReadOK, Null
  <2>6. QED
    BY <1>1, <1>13, <1>15, <2>1, <2>2, <2>3, <2>4, <2>5, NullOutside
       DEF ReadOK, AtEof, Null
<1>20. StackOK'
  BY <1>1 DEF StackOK, Distinct
<1>21. QED
  BY <1>11, <1>16, <1>17, <1>18, <1>19, <1>20 DEF IInv

-----------------------------------------------------------------------------
(* Reading.                                                                  *)

LEMMA PrefixStep ==
  ASSUME IInv, NEW kind \in BranchKinds \cup {"cpp"}, ReadPrefix(kind)
  PROVE  IInv'
<1>1. /\ h \in Heap /\ phase = "read" /\ lk = tk /\ ~AtEof /\ rd < MaxLen
      /\ h' = [h EXCEPT !.kind[rd] = kind] /\ rd' = rd + 1
      /\ phase' = phase /\ lo' = lo /\ lk' = lk /\ tk' = tk /\ stack' = stack
  BY DEF IInv, TypeOK, ReadPrefix, Reading, Linked
<1>2. /\ rd \in 1..(MaxLen + 1) /\ lo \in 1..rd /\ tk \in 0..MaxLen
      /\ tk < rd /\ MaxLen \in Nat
  BY MaxLenAssumption DEF IInv, TypeOK
<1>3. rd \in Id /\ tk \in Nat /\ (tk # 0 => tk \in Id) /\ rd \in Nat
  BY <1>1, <1>2 DEF Id
<1>4. kind \in Kinds
  BY DEF Kinds
<1>5. /\ h' \in Heap /\ h'.pv = h.pv /\ h'.nx = h.nx /\ h'.par = h.par
      /\ h'.toks = h.toks /\ h'.pfx = h.pfx
      /\ \A p \in Id : p # rd => h'.kind[p] = h.kind[p]
  BY <1>1, <1>3, <1>4 DEF Heap
<1>6. h.par[rd] = Null
  BY <1>1, <1>2, <1>3 DEF IInv, ReadOK
<1>7. h.pv[rd] = Null /\ h.nx[rd] = Null
  BY <1>3, <1>6 DEF IInv, ChainsWellFormed, LinksInOrder
<1>8. TypeOK'
  BY <1>1, <1>2, <1>5 DEF IInv, TypeOK
<1>9. ChainsWellFormed'
  BY <1>1, <1>5, <1>6, <1>7 DEF IInv, ChainsWellFormed, LinksInOrder
<1>10. ParentsHoldIn(h')
  BY <1>5 DEF IInv, ParentsHoldIn
<1>11. ListOK'
  BY <1>1, <1>2, <1>3, <1>5 DEF IInv, ListOK
<1>12. ReadOK'
  <2>1. \A p \in Id : p >= rd + 1 => h'.kind[p] = "none"
    BY <1>3, <1>5, NullOutside DEF IInv, ReadOK
  <2>2. \A p \in Id : p < lk => p # rd
    BY <1>1, <1>2, <1>3, NullOutside
  <2>3. ~AtEof'
    BY <1>1, <1>2, <1>3, <1>5 DEF AtEof
  <2>4. QED
    BY <1>1, <1>5, <2>1, <2>2, <2>3 DEF IInv, ReadOK
<1>13. StackOK'
  <2>1. stack \in Seq(Pos)
    BY DEF IInv, TypeOK
  <2>2. \A i \in DOMAIN stack : stack[i] \in Id /\ stack[i] # rd
    BY <1>6, <2>1, ElementsOf, NullOutside DEF IInv, StackOK
  <2>3. QED
    BY <1>1, <1>5, <1>6, <2>2 DEF IInv, StackOK
<1>14. QED
  BY <1>8, <1>9, <1>10, <1>11, <1>12, <1>13 DEF IInv

LEMMA TokenStep ==
  ASSUME IInv, NEW kind \in {"tok", "eof"}, ReadToken(kind)
  PROVE  IInv'
<1> DEFINE ahead == [i \in 1..(rd - lo) |-> lo + i - 1]
           pfx == [h.pfx EXCEPT ![rd] = ahead]
<1>1. /\ h \in Heap /\ phase = "read" /\ lk = tk /\ ~AtEof /\ rd <= MaxLen
      /\ h' = [h EXCEPT !.kind[rd] = kind, !.pfx[rd] = ahead,
                        !.refs[rd] = 1, !.toks = Append(h.toks, rd)]
      /\ rd' = rd + 1 /\ lo' = rd + 1 /\ lk' = lo /\ tk' = rd
      /\ phase' = phase /\ stack' = stack
  BY DEF IInv, TypeOK, ReadToken, Reading, Linked
<1>2. /\ rd \in 1..(MaxLen + 1) /\ lo \in 1..rd /\ tk \in 0..MaxLen
      /\ tk < rd /\ MaxLen \in Nat /\ lo = tk + 1
  BY MaxLenAssumption DEF IInv, TypeOK, ReadOK
<1>3. rd \in Id /\ tk \in Nat /\ rd \in Nat /\ kind \in Kinds
  BY <1>1, <1>2 DEF Id, Kinds
<1>4. ahead \in Seq(Id)
  <2>1. rd - lo \in Nat /\ \A i \in 1..(rd - lo) : lo + i - 1 \in Id
    BY <1>1, <1>2 DEF Id
  <2>2. QED
    BY <2>1
<1>5. \A p \in Id : lo <= p /\ p < rd => p \in ToSet(ahead)
  <2> SUFFICES ASSUME NEW p \in Id, lo <= p, p < rd
               PROVE  \E i \in DOMAIN ahead : ahead[i] = p
    BY DEF ToSet
  <2>1. p \in Nat
    BY NullOutside
  <2>2. p - lo + 1 \in 1..(rd - lo)
    BY <1>2, <2>1
  <2>3. ahead[p - lo + 1] = p
    BY <1>2, <2>1, <2>2
  <2>4. QED
    BY <2>2, <2>3
<1> HIDE DEF ahead
<1>6. h.toks \in Seq(Id) /\ Append(h.toks, rd) \in Seq(Id)
  BY <1>1, <1>3, HeapFields
<1>7. /\ h' \in Heap /\ h'.pv = h.pv /\ h'.nx = h.nx /\ h'.par = h.par
      /\ h'.toks = Append(h.toks, rd)
      /\ \A p \in Id : p # rd => h'.kind[p] = h.kind[p]
      /\ \A p \in Id : p # rd => h'.pfx[p] = h.pfx[p]
      /\ h'.kind[rd] = kind /\ h'.pfx[rd] = ahead
  <2>1. /\ [h.kind EXCEPT ![rd] = kind] \in [Id -> Kinds]
        /\ pfx \in [Id -> Seq(Id)]
        /\ [h.refs EXCEPT ![rd] = 1] \in [Id -> Int]
    BY <1>1, <1>3, <1>4, HeapFields
  <2>2. h' = [h EXCEPT !.kind = [h.kind EXCEPT ![rd] = kind], !.pfx = pfx,
                       !.refs = [h.refs EXCEPT ![rd] = 1],
                       !.toks = Append(h.toks, rd)]
    BY <1>1
  <2>3. h' \in Heap
    BY <1>1, <1>6, <2>1, <2>2 DEF Heap
  <2>4. /\ h'.kind = [h.kind EXCEPT ![rd] = kind] /\ h'.pfx = pfx
        /\ h'.pv = h.pv /\ h'.nx = h.nx /\ h'.par = h.par
        /\ h'.toks = Append(h.toks, rd)
    BY <1>1, <2>2 DEF Heap
  <2>5. QED
    BY <1>1, <1>3, <2>3, <2>4, HeapFields
<1>8. h.par[rd] = Null
  BY <1>1, <1>2, <1>3 DEF IInv, ReadOK
<1>9. h.pv[rd] = Null /\ h.nx[rd] = Null
  BY <1>3, <1>8 DEF IInv, ChainsWellFormed, LinksInOrder
<1>10. \A i \in DOMAIN h.toks : h.toks[i] \in Nat /\ h.toks[i] < rd
  <2>1. \A i \in DOMAIN h.toks : h.toks[i] \in Id /\ h.toks[i] <= tk
    BY <1>6, ElementsOf DEF IInv, ListOK
  <2>2. \A i \in DOMAIN h.toks : h.toks[i] \in Nat
    BY <2>1, NullOutside
  <2>3. QED
    BY <1>2, <2>1, <2>2
<1>11. \A t \in ToSet(h.toks) : t # rd /\ t \in ToSet(h'.toks)
  <2>1. \A i \in DOMAIN h.toks :
           i \in DOMAIN h'.toks /\ h'.toks[i] = h.toks[i]
    BY <1>6, <1>7
  <2>2. QED
    BY <1>3, <1>10, <2>1 DEF ToSet
<1>12. TypeOK'
  BY <1>1, <1>2, <1>7 DEF IInv, TypeOK
<1>13. ChainsWellFormed'
  BY <1>1, <1>7, <1>8, <1>9 DEF IInv, ChainsWellFormed, LinksInOrder
<1>14. ParentsHoldIn(h')
  BY <1>1, <1>7, <1>11, HeapFields DEF IInv, ParentsHoldIn
<1>15. ListOK'
  <2>1. /\ DOMAIN h'.toks = 1..(Len(h.toks) + 1)
        /\ DOMAIN h.toks = 1..Len(h.toks) /\ Len(h.toks) \in Nat
        /\ h'.toks[Len(h.toks) + 1] = rd
        /\ \A i \in 1..Len(h.toks) : h'.toks[i] = h.toks[i]
        /\ Len(h'.toks) = Len(h.toks) + 1
    BY <1>6, <1>7
  <2>2. \A i \in DOMAIN h'.toks :
           \/ /\ i \in DOMAIN h.toks /\ h'.toks[i] = h.toks[i]
              /\ h'.toks[i] \in Nat /\ h'.toks[i] < rd
           \/ i = Len(h.toks) + 1 /\ h'.toks[i] = rd
    <3> SUFFICES ASSUME NEW i \in DOMAIN h'.toks
                 PROVE  \/ /\ i \in DOMAIN h.toks /\ h'.toks[i] = h.toks[i]
                           /\ h'.toks[i] \in Nat /\ h'.toks[i] < rd
                        \/ i = Len(h.toks) + 1 /\ h'.toks[i] = rd
      OBVIOUS
    <3>1. i \in 1..Len(h.toks) \/ i = Len(h.toks) + 1
      BY <2>1
    <3>2. QED
      BY <1>10, <2>1, <3>1
  <2>3. Distinct(h'.toks)
    BY <1>3, <2>2 DEF IInv, ListOK, Distinct
  <2>4. \A i \in DOMAIN h'.toks : h'.toks[i] <= rd
    BY <1>3, <2>2
  <2>5. h'.toks # <<>> /\ Last(h'.toks) = rd
    BY <2>1 DEF Last
  <2>6. QED
    BY <1>1, <1>7, <2>3, <2>4, <2>5 DEF ListOK
<1>16. ReadOK'
  <2>1. \A p \in Id : p >= rd + 1 => h'.kind[p] = "none"
    BY <1>3, <1>7, NullOutside DEF IInv, ReadOK
  <2>2. \A p \in Id : p >= lo => h'.par[p] = Null
    BY <1>1, <1>2, <1>7, NullOutside DEF IInv, ReadOK
  <2>3. \A p \in Id : p < lo /\ h'.kind[p] \in BranchKinds
                       => h'.par[p] # Null
    <3> SUFFICES ASSUME NEW p \in Id, p < lo, h'.kind[p] \in BranchKinds
                 PROVE  h'.par[p] # Null
      OBVIOUS
    <3>1. p \in Nat /\ p # 0
      BY NullOutside DEF Null
    <3>2. p # rd /\ (p < tk \/ p = tk)
      BY <1>2, <1>3, <3>1
    <3>3. h.kind[p] \in BranchKinds
      BY <1>7, <3>2
    <3>4. p # tk
      BY <3>1, <3>3 DEF IInv, ListOK, BranchKinds
    <3>5. QED
      BY <1>1, <1>7, <3>2, <3>3, <3>4 DEF IInv, ReadOK
  <2>4. QED
    BY <1>1, <1>2, <1>5, <1>7, <2>1, <2>2, <2>3 DEF ReadOK
<1>17. StackOK'
  <2>1. stack \in Seq(Pos)
    BY DEF IInv, TypeOK
  <2>2. \A i \in DOMAIN stack : /\ stack[i] \in Id /\ stack[i] # rd
                                /\ stack[i] < lo
    BY <1>1, <1>2, <1>8, <2>1, ElementsOf, NullOutside DEF IInv, StackOK
  <2>3. QED
    BY <1>1, <1>7, <1>8, <2>2 DEF IInv, StackOK
<1>18. QED
  BY <1>12, <1>13, <1>14, <1>15, <1>16, <1>17 DEF IInv

LEMMA EofStep == IInv /\ EndOfFile => IInv'
<1> SUFFICES ASSUME IInv, EndOfFile PROVE IInv'
  OBVIOUS
<1>1. /\ h' = h /\ phase = "read" /\ phase' = "discard" /\ lk = tk /\ AtEof
      /\ rd' = rd /\ lo' = lo /\ lk' = lk /\ tk' = tk /\ stack' = stack
  BY DEF EndOfFile, Linked
<1>2. TypeOK' /\ ChainsWellFormed' /\ ParentsHoldIn(h') /\ ListOK'
  BY <1>1 DEF IInv, TypeOK, ChainsWellFormed, ListOK
<1>3. ReadOK'
  BY <1>1 DEF IInv, ReadOK, AtEof
<1>4. StackOK'
  BY <1>1 DEF IInv, StackOK
<1>5. QED
  BY <1>1, <1>2, <1>3, <1>4 DEF IInv

-----------------------------------------------------------------------------
(* Linking.                                                                  *)

\* The prefix about to be linked has no link yet.
LEMMA LinkingFacts ==
  ASSUME IInv, phase = "read", lk < tk
  PROVE  /\ lk \in Id /\ lk \in Pos /\ tk \in Id /\ lk \in Nat /\ tk \in Nat
         /\ lk # tk /\ lk < rd /\ tk < rd /\ rd \in Nat
         /\ h.par[lk] = Null /\ h.pv[lk] = Null /\ h.nx[lk] = Null
         /\ lk \in ToSet(h.pfx[tk]) /\ tk \in ToSet(h.toks)
<1>1. /\ lk \in 0..tk /\ tk \in 0..MaxLen /\ MaxLen \in Nat /\ tk < rd
      /\ rd \in Nat
  BY MaxLenAssumption DEF IInv, TypeOK
<1>2. lk # 0 /\ tk # 0
  BY <1>1 DEF IInv, ReadOK
<1>3. lk \in Id /\ lk \in Pos /\ tk \in Id
  BY <1>1, <1>2 DEF Id, Pos
<1>4. h.par[lk] = Null /\ lk \in ToSet(h.pfx[tk])
  BY <1>1, <1>3 DEF IInv, ReadOK
<1>5. h.pv[lk] = Null /\ h.nx[lk] = Null
  BY <1>3, <1>4 DEF IInv, ChainsWellFormed, LinksInOrder
<1>6. tk \in ToSet(h.toks)
  <2>1. h.toks \in Seq(Id) /\ h.toks # <<>> /\ h.toks[Len(h.toks)] = tk
    BY <1>2, HeapFields DEF IInv, TypeOK, ListOK, Last
  <2>2. Len(h.toks) \in DOMAIN h.toks
    BY <2>1
  <2>3. QED
    BY <2>1, <2>2 DEF ToSet
<1>7. QED
  BY <1>1, <1>3, <1>4, <1>5, <1>6

\* One prefix gets linked, or is found not to be a branch.
LEMMA LinkStep ==
  ASSUME IInv, phase = "read", lk < tk,
         phase' = phase, rd' = rd, lo' = lo, tk' = tk, lk' = lk + 1,
         h' \in Heap, SameLists(h, h'), stack' \in Seq(Pos),
         LinksInOrder(h'), ParentsHoldIn(h'),
         \A p \in Id : p # lk => /\ h'.kind[p] = h.kind[p]
                                /\ h'.par[p] = h.par[p],
         h'.kind[lk] \in BranchKinds => h'.par[lk] # Null,
         StackOK'
  PROVE  IInv'
<1>1. /\ lk \in Id /\ tk \in Id /\ lk \in Nat /\ tk \in Nat
      /\ lk # tk /\ lk < rd /\ tk < rd /\ rd \in Nat
  BY LinkingFacts
<1>2. TypeOK'
  BY <1>1 DEF IInv, TypeOK
<1>3. ChainsWellFormed'
  BY DEF ChainsWellFormed
<1>4. h'.kind[tk] = h.kind[tk]
  BY <1>1
<1>5. ListOK'
  BY <1>4 DEF IInv, ListOK, SameLists
<1>6. ReadOK'
  <2>1. \A p \in Id : p >= rd => p # lk
    BY <1>1, NullOutside
  <2>2. \A p \in Id : p >= rd => h'.kind[p] = "none"
    BY <2>1 DEF IInv, ReadOK
  <2>3. \A p \in Id : p >= lk + 1 => p >= lk /\ p # lk
    BY <1>1, NullOutside
  <2>4. \A p \in Id : p >= lk + 1 => h'.par[p] = Null
    BY <2>3 DEF IInv, ReadOK
  <2>5. \A p \in Id : p < lk + 1 /\ h'.kind[p] \in BranchKinds
                       => h'.par[p] # Null
    <3> SUFFICES ASSUME NEW p \in Id, p < lk + 1, h'.kind[p] \in BranchKinds
                 PROVE  h'.par[p] # Null
      OBVIOUS
    <3>1. p = lk \/ p < lk
      BY <1>1, NullOutside
    <3>2. p < lk => p # lk
      BY <1>1
    <3>3. QED
      BY <3>1, <3>2 DEF IInv, ReadOK
  <2>6. \A p \in Id : lk + 1 <= p /\ p < tk => p \in ToSet(h'.pfx[tk])
    BY <1>1, NullOutside DEF IInv, ReadOK, SameLists
  <2>7. lo = tk + 1 /\ lk + 1 # 0 /\ (AtEof' => rd = tk + 1)
    BY <1>1, <1>4 DEF IInv, ReadOK, AtEof
  <2>8. QED
    BY <2>2, <2>4, <2>5, <2>6, <2>7 DEF ReadOK
<1>7. QED
  BY <1>2, <1>3, <1>5, <1>6 DEF IInv

LEMMA SkipStep ==
  ASSUME IInv, SkipPrefix
  PROVE  IInv'
<1>1. /\ phase = "read" /\ lk < tk /\ h.kind[lk] = "cpp" /\ h' = h
      /\ phase' = phase /\ rd' = rd /\ lo' = lo /\ tk' = tk
      /\ lk' = lk + 1 /\ stack' = stack
  BY DEF SkipPrefix, Linking
<1>2. lk \in Nat
  BY <1>1, LinkingFacts
<1>3. /\ h \in Heap /\ stack \in Seq(Pos) /\ LinksInOrder(h)
      /\ ParentsHoldIn(h)
  BY DEF IInv, TypeOK, ChainsWellFormed
<1>4. StackOK'
  <2>1. \A i \in DOMAIN stack : stack[i] \in Nat
    BY <1>3, ElementsOf, NullOutside
  <2>2. \A i \in DOMAIN stack : stack[i] < lk + 1
    BY <1>2, <2>1 DEF IInv, StackOK
  <2>3. QED
    BY <1>1, <2>2 DEF IInv, StackOK
<1>5. QED
  BY <1>1, <1>3, <1>4, LinkStep DEF SameLists, BranchKinds

\* A branch without an #if is reverted.
LEMMA OrphanStep ==
  ASSUME IInv, phase = "read", lk < tk,
         phase' = phase, rd' = rd, lo' = lo, tk' = tk, lk' = lk + 1,
         stack = <<>>, stack' = stack, h' = RevertAll(h, {lk})
  PROVE  IInv'
<1>1. /\ lk \in Id /\ lk \in Nat
      /\ h.par[lk] = Null /\ h.pv[lk] = Null /\ h.nx[lk] = Null
  BY LinkingFacts
<1>2. /\ h \in Heap /\ stack \in Seq(Pos) /\ LinksInOrder(h)
      /\ ParentsHoldIn(h)
  BY DEF IInv, TypeOK, ChainsWellFormed
<1>3. h' \in Heap /\ SameLists(h, h') /\ CutFrom(h, h', {lk})
  BY <1>1, <1>2, RevertAllLemma
<1>4. LinksInOrder(h') /\ ParentsHoldIn(h')
  BY <1>1, <1>2, <1>3, CutWholeChains
<1>5. \A p \in Id : p # lk =>
         /\ h'.kind[p] = h.kind[p] /\ h'.par[p] = h.par[p]
         /\ h'.nx[p] = h.nx[p]
  BY <1>3 DEF CutFrom
<1>6. h'.par[lk] = Null /\ h'.kind[lk] = "cpp"
  BY <1>3 DEF CutFrom
<1>7. StackOK'
  <2>1. \A p \in Id : ~(h.par[p] # Null /\ h.nx[p] = Null
                        /\ h.kind[p] \in {"if", "else"})
    BY DEF IInv, StackOK
  <2>2. \A p \in Id : ~(h'.par[p] # Null /\ h'.nx[p] = Null
                        /\ h'.kind[p] \in {"if", "else"})
    BY <1>5, <1>6, <2>1
  <2>3. DOMAIN stack' = {}
    OBVIOUS
  <2>4. QED
    BY <2>2, <2>3 DEF StackOK, Distinct
<1>8. QED
  BY <1>2, <1>3, <1>4, <1>5, <1>6, <1>7, LinkStep DEF BranchKinds

LEMMA EnterStep ==
  ASSUME IInv, BranchEnter
  PROVE  IInv'
<1>1. /\ phase = "read" /\ lk < tk /\ h.kind[lk] = "if"
      /\ h' = SetParent(h, lk, tk)
      /\ phase' = phase /\ rd' = rd /\ lo' = lo /\ tk' = tk
      /\ lk' = lk + 1 /\ stack' = Append(stack, lk)
  BY DEF BranchEnter, Linking
<1>2. /\ lk \in Id /\ lk \in Pos /\ tk \in Id /\ lk \in Nat /\ lk # tk
      /\ h.par[lk] = Null /\ h.pv[lk] = Null /\ h.nx[lk] = Null
      /\ lk \in ToSet(h.pfx[tk]) /\ tk \in ToSet(h.toks)
  BY <1>1, LinkingFacts
<1>3. /\ h \in Heap /\ stack \in Seq(Pos) /\ LinksInOrder(h)
      /\ ParentsHoldIn(h)
  BY DEF IInv, TypeOK, ChainsWellFormed
<1>4. /\ h' \in Heap /\ h'.kind = h.kind /\ h'.pv = h.pv /\ h'.nx = h.nx
      /\ h'.par = [h.par EXCEPT ![lk] = tk] /\ SameLists(h, h')
  BY <1>1, <1>2, <1>3, SetParentLemma
<1>5. /\ h'.par[lk] = tk /\ tk # Null
      /\ \A p \in Id : p # lk => h'.par[p] = h.par[p]
  BY <1>2, <1>3, <1>4, HeapFields, NullOutside
<1>6. LinksInOrder(h')
  BY <1>1, <1>2, <1>3, <1>4, <1>5 DEF LinksInOrder, BranchKinds
<1>7. ParentsHoldIn(h')
  BY <1>2, <1>3, <1>4, <1>5 DEF ParentsHoldIn, SameLists
<1>8. stack' \in Seq(Pos)
  BY <1>1, <1>2, <1>3
<1>9. StackOK'
  <2>1. /\ DOMAIN stack = 1..Len(stack) /\ Len(stack) \in Nat
        /\ DOMAIN stack' = 1..(Len(stack) + 1)
        /\ \A i \in 1..Len(stack) : stack'[i] = stack[i]
        /\ stack'[Len(stack) + 1] = lk
    BY <1>1, <1>2, <1>3
  <2>2. \A i \in DOMAIN stack :
           /\ stack[i] \in Id /\ stack[i] \in Nat /\ stack[i] < lk
           /\ h.par[stack[i]] # Null
           /\ h.nx[stack[i]] = Null /\ h.kind[stack[i]] \in {"if", "else"}
    BY <1>3, ElementsOf, NullOutside DEF IInv, StackOK
  <2>3. \A i \in DOMAIN stack' :
           \/ i \in DOMAIN stack /\ stack'[i] = stack[i]
           \/ i = Len(stack) + 1 /\ stack'[i] = lk
    BY <2>1
  <2>4. \A i \in DOMAIN stack' :
           /\ stack'[i] < lk + 1 /\ h'.par[stack'[i]] # Null
           /\ h'.nx[stack'[i]] = Null
           /\ h'.kind[stack'[i]] \in {"if", "else"}
    BY <1>1, <1>2, <1>4, <1>5, <2>2, <2>3
  <2>5. Distinct(stack')
    BY <1>2, <2>2, <2>3 DEF IInv, StackOK, Distinct
  <2>6. ASSUME NEW p \in Id, h'.par[p] # Null, h'.nx[p] = Null,
               h'.kind[p] \in {"if", "else"}
        PROVE  \E i \in DOMAIN stack' : stack'[i] = p
    <3>1. CASE p = lk
      BY <2>1, <3>1
    <3>2. CASE p # lk
      <4>1. PICK i \in DOMAIN stack : stack[i] = p
        BY <1>1, <1>4, <1>5, <2>6, <3>2 DEF IInv, StackOK
      <4>2. i \in DOMAIN stack' /\ stack'[i] = p
        BY <2>1, <4>1
      <4>3. QED
        BY <4>2
    <3>3. QED
      BY <3>1, <3>2
  <2>7. QED
    BY <1>1, <2>4, <2>5, <2>6 DEF StackOK
<1>10. QED
  BY <1>1, <1>3, <1>4, <1>5, <1>6, <1>7, <1>8, <1>9, LinkStep

\* The link made by BranchLink and BranchLeave to the innermost open branch.
LEMMA LinkToTopLemma ==
  ASSUME IInv, phase = "read", lk < tk, h.kind[lk] \in {"else", "endif"},
         stack # <<>>,
         NEW k, k = LinkToTop(h)
  PROVE  /\ k \in Heap /\ SameLists(h, k) /\ LinksInOrder(k) /\ ParentsHoldIn(k)
         /\ Len(stack) \in DOMAIN stack /\ Last(stack) \in Id
         /\ Last(stack) # lk
         /\ k.kind = h.kind
         /\ k.par[lk] = tk /\ tk # Null /\ k.nx[lk] = Null
         /\ k.nx[Last(stack)] = lk
         /\ \A p \in Id : p # lk => k.par[p] = h.par[p]
         /\ \A p \in Id : p # lk /\ p # Last(stack) => k.nx[p] = h.nx[p]
<1> DEFINE s == Last(stack)
           g == SetParent(h, lk, tk)
<1>1. /\ lk \in Id /\ lk \in Pos /\ tk \in Id /\ lk \in Nat /\ lk # tk
      /\ h.par[lk] = Null /\ h.pv[lk] = Null /\ h.nx[lk] = Null
      /\ lk \in ToSet(h.pfx[tk]) /\ tk \in ToSet(h.toks)
  BY LinkingFacts
<1>2. /\ h \in Heap /\ stack \in Seq(Pos) /\ LinksInOrder(h)
      /\ ParentsHoldIn(h)
  BY DEF IInv, TypeOK, ChainsWellFormed
<1>3. Len(stack) \in DOMAIN stack /\ s = stack[Len(stack)]
  BY <1>2 DEF Last
<1> HIDE DEF s
<1>4. s \in Id /\ s \in Nat
  BY <1>2, <1>3, ElementsOf, NullOutside
<1>5. /\ s < lk /\ s # lk /\ h.par[s] # Null /\ h.nx[s] = Null
      /\ h.kind[s] \in {"if", "else"}
  BY <1>1, <1>3, <1>4 DEF IInv, StackOK
<1>6. /\ g \in Heap /\ g.kind = h.kind /\ g.pv = h.pv /\ g.nx = h.nx
      /\ g.par = [h.par EXCEPT ![lk] = tk] /\ SameLists(h, g)
  BY <1>1, <1>2, SetParentLemma
<1>7. k = [g EXCEPT !.nx[s] = lk, !.pv[lk] = s]
  BY DEF LinkToTop, Link, s
<1> HIDE DEF g
<1>8. /\ [g.nx EXCEPT ![s] = lk] \in [Id -> Id \cup {Null}]
      /\ [g.pv EXCEPT ![lk] = s] \in [Id -> Id \cup {Null}]
  BY <1>1, <1>4, <1>6, HeapFields
<1>9. /\ k \in Heap /\ k.kind = g.kind /\ k.par = g.par /\ SameLists(g, k)
      /\ k.nx = [g.nx EXCEPT ![s] = lk] /\ k.pv = [g.pv EXCEPT ![lk] = s]
  BY <1>6, <1>7, <1>8 DEF Heap, SameLists
<1>10. /\ k.par[lk] = tk /\ tk # Null
       /\ \A p \in Id : p # lk => k.par[p] = h.par[p]
  BY <1>1, <1>2, <1>6, <1>9, HeapFields, NullOutside
<1>11. /\ k.nx[s] = lk /\ k.nx[lk] = Null
       /\ \A p \in Id : p # s => k.nx[p] = h.nx[p]
       /\ k.pv[lk] = s
       /\ \A p \in Id : p # lk => k.pv[p] = h.pv[p]
  BY <1>1, <1>2, <1>4, <1>5, <1>6, <1>9, HeapFields
<1>12. k.kind = h.kind /\ SameLists(h, k)
  BY <1>6, <1>9 DEF SameLists
<1>13. LinksInOrder(k)
  <2>1. ASSUME NEW p \in Id, k.pv[p] # Null
        PROVE  /\ k.pv[p] < p /\ k.nx[k.pv[p]] = p
               /\ k.kind[p] \in {"else", "endif"}
    <3>1. CASE p = lk
      BY <1>5, <1>11, <1>12, <3>1
    <3>2. CASE p # lk
      <4>1. /\ h.pv[p] \in Id /\ h.pv[p] < p /\ h.nx[h.pv[p]] = p
            /\ h.kind[p] \in {"else", "endif"} /\ k.pv[p] = h.pv[p]
        BY <1>2, <1>11, <2>1, <3>2, HeapFields DEF LinksInOrder
      <4>2. h.pv[p] # s
        BY <1>5, <4>1, NullOutside
      <4>3. QED
        BY <1>11, <1>12, <4>1, <4>2
    <3>3. QED
      BY <3>1, <3>2
  <2>2. ASSUME NEW p \in Id, k.nx[p] # Null
        PROVE  /\ p < k.nx[p] /\ k.pv[k.nx[p]] = p
               /\ k.kind[p] \in {"if", "else"}
    <3>1. CASE p = s
      BY <1>5, <1>11, <1>12, <3>1
    <3>2. CASE p # s
      <4>1. /\ h.nx[p] \in Id /\ p < h.nx[p] /\ h.pv[h.nx[p]] = p
            /\ h.kind[p] \in {"if", "else"} /\ k.nx[p] = h.nx[p]
        BY <1>2, <1>11, <2>2, <3>2, HeapFields DEF LinksInOrder
      <4>2. h.nx[p] # lk
        BY <1>1, <4>1, NullOutside
      <4>3. QED
        BY <1>11, <1>12, <4>1, <4>2
    <3>3. QED
      BY <3>1, <3>2
  <2>3. ASSUME NEW p \in Id, k.par[p] # Null
        PROVE  /\ k.kind[p] \in BranchKinds
               /\ k.kind[p] \in {"else", "endif"} => k.pv[p] # Null
    <3>1. CASE p = lk
      BY <1>4, <1>11, <1>12, <3>1, NullOutside DEF BranchKinds
    <3>2. CASE p # lk
      BY <1>2, <1>10, <1>11, <1>12, <2>3, <3>2 DEF LinksInOrder
    <3>3. QED
      BY <3>1, <3>2
  <2>4. ASSUME NEW p \in Id, k.par[p] = Null
        PROVE  k.pv[p] = Null /\ k.nx[p] = Null
    <3>1. p # lk
      BY <1>10, <2>4
    <3>2. p # s
      BY <1>5, <1>10, <2>4, <3>1
    <3>3. QED
      BY <1>2, <1>10, <1>11, <2>4, <3>1, <3>2 DEF LinksInOrder
  <2>5. QED
    BY <2>1, <2>2, <2>3, <2>4 DEF LinksInOrder
<1>14. ParentsHoldIn(k)
  BY <1>1, <1>2, <1>10, <1>12 DEF ParentsHoldIn, SameLists
<1>15. QED
  BY <1>3, <1>4, <1>5, <1>9, <1>10, <1>11, <1>12, <1>13, <1>14 DEF s

LEMMA BranchLinkStep ==
  ASSUME IInv, BranchLink
  PROVE  IInv'
<1>1. /\ phase = "read" /\ lk < tk /\ h.kind[lk] = "else"
      /\ phase' = phase /\ rd' = rd /\ lo' = lo /\ tk' = tk /\ lk' = lk + 1
  BY DEF BranchLink, Linking
<1>2. CASE stack = <<>>
  BY <1>1, <1>2, OrphanStep DEF BranchLink
<1>3. CASE stack # <<>>
  <2> DEFINE s == Last(stack)
             n == Len(stack)
  <2>1. h' = LinkToTop(h) /\ stack' = [stack EXCEPT ![n] = lk]
    BY <1>3 DEF BranchLink
  <2>2. /\ h' \in Heap /\ SameLists(h, h') /\ LinksInOrder(h')
        /\ ParentsHoldIn(h')
        /\ n \in DOMAIN stack /\ s \in Id /\ s # lk
        /\ h'.kind = h.kind
        /\ h'.par[lk] = tk /\ tk # Null /\ h'.nx[lk] = Null
        /\ h'.nx[s] = lk
        /\ \A p \in Id : p # lk => h'.par[p] = h.par[p]
        /\ \A p \in Id : p # lk /\ p # s => h'.nx[p] = h.nx[p]
    BY <1>1, <1>3, <2>1, LinkToTopLemma
  <2>3. lk \in Id /\ lk \in Pos /\ lk \in Nat /\ lk # Null
    BY <1>1, LinkingFacts, NullOutside
  <2>4. stack \in Seq(Pos) /\ s = stack[n]
    BY DEF IInv, TypeOK, Last
  <2> HIDE DEF s, n
  <2>5. /\ stack' \in Seq(Pos) /\ DOMAIN stack' = DOMAIN stack
        /\ stack'[n] = lk
        /\ \A i \in DOMAIN stack : i # n => stack'[i] = stack[i]
    BY <2>1, <2>2, <2>3, <2>4
  <2>6. \A i \in DOMAIN stack :
           /\ stack[i] \in Id /\ stack[i] \in Nat /\ stack[i] < lk
           /\ stack[i] # lk /\ h.par[stack[i]] # Null
           /\ h.nx[stack[i]] = Null /\ h.kind[stack[i]] \in {"if", "else"}
    <3>1. \A i \in DOMAIN stack : stack[i] \in Id /\ stack[i] \in Nat
      BY <2>4, ElementsOf, NullOutside
    <3>2. \A i \in DOMAIN stack :
             /\ stack[i] < lk /\ h.par[stack[i]] # Null
             /\ h.nx[stack[i]] = Null /\ h.kind[stack[i]] \in {"if", "else"}
      BY DEF IInv, StackOK
    <3>3. QED
      BY <2>3, <3>1, <3>2
  <2>7. \A i \in DOMAIN stack : i # n => stack[i] # s
    BY <2>2, <2>4 DEF IInv, StackOK, Distinct
  <2>8. StackOK'
    <3>1. \A i \in DOMAIN stack' :
             /\ stack'[i] < lk + 1 /\ h'.par[stack'[i]] # Null
             /\ h'.nx[stack'[i]] = Null
             /\ h'.kind[stack'[i]] \in {"if", "else"}
      BY <1>1, <2>2, <2>3, <2>5, <2>6, <2>7
    <3>2. Distinct(stack')
      BY <2>5, <2>6 DEF IInv, StackOK, Distinct
    <3>3. ASSUME NEW p \in Id, h'.par[p] # Null, h'.nx[p] = Null,
                 h'.kind[p] \in {"if", "else"}
          PROVE  \E i \in DOMAIN stack' : stack'[i] = p
      <4>1. CASE p = lk
        BY <2>2, <2>5, <4>1
      <4>2. CASE p # lk
        <5>1. p # s
          BY <2>2, <2>3, <3>3
        <5>2. PICK i \in DOMAIN stack : stack[i] = p
          BY <1>1, <2>2, <3>3, <4>2, <5>1 DEF IInv, StackOK
        <5>3. i # n
          BY <2>4, <5>1, <5>2
        <5>4. QED
          BY <2>5, <5>2, <5>3
      <4>3. QED
        BY <4>1, <4>2
    <3>4. QED
      BY <1>1, <3>1, <3>2, <3>3 DEF StackOK
  <2>9. QED
    BY <1>1, <2>2, <2>5, <2>8, LinkStep
<1>4. QED
  BY <1>2, <1>3

LEMMA BranchLeaveStep ==
  ASSUME IInv, BranchLeave
  PROVE  IInv'
<1>1. /\ phase = "read" /\ lk < tk /\ h.kind[lk] = "endif"
      /\ phase' = phase /\ rd' = rd /\ lo' = lo /\ tk' = tk /\ lk' = lk + 1
  BY DEF BranchLeave, Linking
<1>2. CASE stack = <<>>
  BY <1>1, <1>2, OrphanStep DEF BranchLeave
<1>3. CASE stack # <<>>
  <2> DEFINE s == Last(stack)
             n == Len(stack)
             g == LinkToTop(h)
             T == ParentsOf(g, Back(g, {lk}))
  <2>1. h' = UpdateFlagsOf(g, T) /\ stack' = Front(stack)
    BY <1>3 DEF BranchLeave
  <2>2. /\ g \in Heap /\ SameLists(h, g) /\ LinksInOrder(g)
        /\ ParentsHoldIn(g)
        /\ n \in DOMAIN stack /\ s \in Id /\ s # lk
        /\ g.kind = h.kind
        /\ g.par[lk] = tk /\ tk # Null /\ g.nx[lk] = Null
        /\ g.nx[s] = lk
        /\ \A p \in Id : p # lk => g.par[p] = h.par[p]
        /\ \A p \in Id : p # lk /\ p # s => g.nx[p] = h.nx[p]
    BY <1>1, <1>3, LinkToTopLemma
  <2> HIDE DEF g
  <2>3. /\ lk \in Id /\ lk \in Pos /\ lk \in Nat /\ lk # Null
        /\ {lk} \in SUBSET Pos
    BY <1>1, LinkingFacts, NullOutside
  <2>4. Back(g, {lk}) \subseteq Id
    BY <2>2, <2>3, BackLemma, NullOutside
  <2>5. T \in SUBSET Id
    BY <2>2, <2>4, ParentsOfType
  <2> HIDE DEF T
  <2>6. h' \in Heap /\ SameLinks(g, h') /\ SameLists(g, h')
    BY <2>1, <2>2, <2>5, UpdateFlagsOfLemma
  <2>7. /\ SameLists(h, h') /\ LinksInOrder(h') /\ ParentsHoldIn(h')
        /\ h'.kind = h.kind
        /\ h'.par[lk] = tk /\ h'.nx[lk] = Null /\ h'.nx[s] = lk
        /\ \A p \in Id : p # lk => h'.par[p] = h.par[p]
        /\ \A p \in Id : p # lk /\ p # s => h'.nx[p] = h.nx[p]
    BY <2>2, <2>6
       DEF SameLinks, SameLists, LinksInOrder, ParentsHoldIn
  <2>8. stack \in Seq(Pos) /\ s = stack[n]
    BY DEF IInv, TypeOK, Last
  <2>9. /\ n \in Nat /\ DOMAIN stack = 1..n
        /\ stack' \in Seq(Pos) /\ DOMAIN stack' = 1..(n - 1)
        /\ \A i \in 1..(n - 1) : stack'[i] = stack[i]
    BY <2>1, <2>2, <2>8 DEF Front
  <2> HIDE DEF s, n
  <2>10. \A i \in DOMAIN stack' :
            i \in DOMAIN stack /\ i # n /\ stack'[i] = stack[i]
    BY <2>9
  <2>11. \A i \in DOMAIN stack :
            /\ stack[i] \in Id /\ stack[i] \in Nat /\ stack[i] < lk
            /\ stack[i] # lk /\ h.par[stack[i]] # Null
            /\ h.nx[stack[i]] = Null /\ h.kind[stack[i]] \in {"if", "else"}
    <3>1. \A i \in DOMAIN stack : stack[i] \in Id /\ stack[i] \in Nat
      BY <2>8, ElementsOf, NullOutside
    <3>2. \A i \in DOMAIN stack :
             /\ stack[i] < lk /\ h.par[stack[i]] # Null
             /\ h.nx[stack[i]] = Null /\ h.kind[stack[i]] \in {"if", "else"}
      BY DEF IInv, StackOK
    <3>3. QED
      BY <2>3, <3>1, <3>2
  <2>12. \A i \in DOMAIN stack : i # n => stack[i] # s
    BY <2>2, <2>8 DEF IInv, StackOK, Distinct
  <2>13. StackOK'
    <3>1. \A i \in DOMAIN stack' :
             /\ stack'[i] < lk + 1 /\ h'.par[stack'[i]] # Null
             /\ h'.nx[stack'[i]] = Null
             /\ h'.kind[stack'[i]] \in {"if", "else"}
      BY <2>3, <2>7, <2>10, <2>11, <2>12
    <3>2. Distinct(stack')
      BY <2>10 DEF IInv, StackOK, Distinct
    <3>3. ASSUME NEW p \in Id, h'.par[p] # Null, h'.nx[p] = Null,
                 h'.kind[p] \in {"if", "else"}
          PROVE  \E i \in DOMAIN stack' : stack'[i] = p
      <4>1. p # lk
        BY <1>1, <2>7, <3>3
      <4>2. p # s
        BY <2>3, <2>7, <3>3
      <4>3. PICK i \in DOMAIN stack : stack[i] = p
        BY <1>1, <2>7, <3>3, <4>1, <4>2 DEF IInv, StackOK
      <4>4. i # n
        BY <2>8, <4>2, <4>3
      <4>5. QED
        BY <2>9, <4>3, <4>4
    <3>4. QED
      BY <1>1, <3>1, <3>2, <3>3 DEF StackOK
  <2>14. h'.par[lk] # Null
    BY <2>2, <2>7
  <2>15. QED
    BY <1>1, <2>6, <2>7, <2>9, <2>13, <2>14, LinkStep
<1>4. QED
  BY <1>2, <1>3

-----------------------------------------------------------------------------
(* The theorems.                                                             *)

LEMMA NextInv == IInv /\ [Next]_vars => IInv'
<1> SUFFICES ASSUME IInv, [Next]_vars PROVE IInv'
  OBVIOUS
<1>1. ASSUME NEW kind \in BranchKinds \cup {"cpp"}, ReadPrefix(kind)
      PROVE  IInv'
  BY <1>1, PrefixStep
<1>2. ASSUME NEW kind \in {"tok", "eof"}, ReadToken(kind)
      PROVE  IInv'
  BY <1>2, TokenStep
<1>3. CASE BranchEnter
  BY <1>3, EnterStep
<1>4. CASE BranchLink
  BY <1>4, BranchLinkStep
<1>5. CASE BranchLeave
  BY <1>5, BranchLeaveStep
<1>6. CASE SkipPrefix
  BY <1>6, SkipStep
<1>7. CASE EndOfFile
  BY <1>7, EofStep
<1>8. ASSUME NEW t \in Pos, Discard(t)
      PROVE  IInv'
  BY <1>8, RemoveStep DEF Discard
<1>9. CASE BranchPurge
  BY <1>9, PurgeStep
<1>10. ASSUME NEW p \in Pos, UnlinkPrefix(p)
       PROVE  IInv'
  BY <1>10, UnlinkStep
<1>11. ASSUME NEW t \in Pos, NEW p \in Pos, DropPrefix(t, p)
       PROVE  IInv'
  BY <1>11, DropStep
<1>12. ASSUME NEW src \in Pos, NEW dst \in Pos, LexerMovePrefixes(src, dst)
       PROVE  IInv'
  BY <1>12, MoveStep
<1>13. ASSUME NEW t \in Pos, RemoveToken(t)
       PROVE  IInv'
  BY <1>13, RemoveStep DEF RemoveToken
<1>14. CASE UNCHANGED vars
  BY <1>14
     DEF vars, readVars, IInv, TypeOK, ChainsWellFormed, ListOK, ReadOK,
         StackOK, AtEof
<1>15. QED
  BY <1>1, <1>2, <1>3, <1>4, <1>5, <1>6, <1>7, <1>8, <1>9, <1>10, <1>11,
     <1>12, <1>13, <1>14 DEF Next, Read

\* The inductive invariant holds throughout.
LEMMA InvHolds == Spec => []IInv
  BY InitInv, NextInv, PTL DEF Spec

\* The state keeps its types: positions, lists and links stay within the file
\* whatever lexer_tokenize(), the parser and the simplifications do.
THEOREM TypeCorrect == Spec => []TypeOK
<1>1. IInv => TypeOK
  BY DEF IInv
<1>2. QED
  BY <1>1, InvHolds, PTL

\* branch.pv and branch.nx are those of well formed chains, and from
\* clang_branch_purge() on every #if, #else and #endif that is still a branch
\* is part of a complete one: token_branch_unlink_if(), _else() and _endif()
\* never follow a link that is not there.
THEOREM ChainsAlwaysWellFormed == Spec => []ChainsWellFormed
<1>1. IInv => ChainsWellFormed
  BY DEF IInv
<1>2. QED
  BY <1>1, InvHolds, PTL

\* branch.parent always is the token of lx_tokens the branch is a prefix of,
\* although tokens are removed and prefixes move: clang_branch() and
\* clang_recover() seek to, and remove up to, tokens that are in the list.
THEOREM ParentsAlwaysHold == Spec => []ParentsHold
<1>1. IInv => ParentsHold
  BY DEF IInv, ParentsHoldIn, ParentsHold, InList
<1>2. QED
  BY <1>1, InvHolds, PTL

-----------------------------------------------------------------------------
(* Which tokens the prefixes hang of: no prefix of two of them, and none of  *)
(* a token that is not in the list.                                          *)

PrefixesApart(g) ==
    \A t, u \in Id : t # u => ToSet(g.pfx[t]) \cap ToSet(g.pfx[u]) = {}

PrefixesListed(g) == \A t \in Id : g.pfx[t] # <<>> => t \in ToSet(g.toks)

PrefixesRead(g) == \A t \in Id : \A p \in ToSet(g.pfx[t]) : p <= tk

PrefixesOK(g) == PrefixesApart(g) /\ PrefixesListed(g) /\ PrefixesRead(g)

LEMMA ToSetOfConcat ==
  ASSUME NEW S, NEW s \in Seq(S), NEW t \in Seq(S)
  PROVE  ToSet(s \o t) = ToSet(s) \cup ToSet(t)
<1>1. ASSUME NEW i \in DOMAIN (s \o t)
      PROVE  (s \o t)[i] \in ToSet(s) \cup ToSet(t)
  <2>1. CASE i <= Len(s)
    <3>1. i \in DOMAIN s /\ (s \o t)[i] = s[i]
      BY <2>1
    <3>2. QED
      BY <3>1 DEF ToSet
  <2>2. CASE i > Len(s)
    <3>1. i - Len(s) \in DOMAIN t /\ (s \o t)[i] = t[i - Len(s)]
      BY <2>2
    <3>2. QED
      BY <3>1 DEF ToSet
  <2>3. i \in Nat /\ Len(s) \in Nat
    OBVIOUS
  <2>4. QED
    BY <2>1, <2>2, <2>3
<1>2. ToSet(s \o t) \subseteq ToSet(s) \cup ToSet(t)
  BY <1>1 DEF ToSet
<1>3. QED
  BY <1>2, ToSetConcat

LEMMA ToSetOfRemoveAt ==
  ASSUME NEW S, NEW s \in Seq(S), NEW i \in 1..Len(s)
  PROVE  ToSet(RemoveAt(s, i)) \subseteq ToSet(s)
<1>1. /\ RemoveAt(s, i) \in Seq(S) /\ Len(RemoveAt(s, i)) = Len(s) - 1
      /\ \A j \in 1..(Len(s) - 1) :
             RemoveAt(s, i)[j] = IF j < i THEN s[j] ELSE s[j + 1]
  BY RemoveAtLemma
<1>2. DOMAIN RemoveAt(s, i) = 1..(Len(s) - 1) /\ Len(s) \in Nat /\ DOMAIN s = 1..Len(s)
  BY <1>1
<1>3. ASSUME NEW j \in DOMAIN RemoveAt(s, i)
      PROVE  RemoveAt(s, i)[j] \in ToSet(s)
  <2>1. j \in DOMAIN s /\ j + 1 \in DOMAIN s
    BY <1>2
  <2>2. RemoveAt(s, i)[j] = s[j] \/ RemoveAt(s, i)[j] = s[j + 1]
    BY <1>1, <1>2
  <2>3. QED
    BY <2>1, <2>2 DEF ToSet
<1>4. QED
  BY <1>3 DEF ToSet

-----------------------------------------------------------------------------
(* The operators of CppBranch once more: what they do to the parents, the    *)
(* references and the flags.                                                 *)

\* token_branch_find() depends on the prefixes and links only.
LEMMA FoundAlike ==
  ASSUME NEW g, NEW k, SameLinks(g, k), k.pfx = g.pfx, NEW t
  PROVE  HasBranch(k, t) <=> HasBranch(g, t)
  BY DEF SameLinks, HasBranch, IsAlternative

LEMMA UpdateFlagsOfFields ==
  ASSUME NEW g \in Heap, NEW T \in SUBSET Id, NEW k, k = UpdateFlagsOf(g, T)
  PROVE  /\ k.refs = g.refs
         /\ \A t \in Id \ T : t \in k.flag <=> t \in g.flag
         /\ \A t \in T : t \in k.flag <=> HasBranch(k, t)
<1>1. k = [g EXCEPT !.flag = (g.flag \ T) \cup {t \in T : HasBranch(g, t)}]
  BY DEF UpdateFlagsOf
<1>2. /\ k.refs = g.refs /\ k.pfx = g.pfx /\ SameLinks(g, k)
      /\ k.flag = (g.flag \ T) \cup {t \in T : HasBranch(g, t)}
  BY <1>1 DEF Heap, SameLinks
<1>3. \A t \in T : HasBranch(k, t) <=> HasBranch(g, t)
  BY <1>2, FoundAlike
<1>4. QED
  BY <1>2, <1>3

LEMMA UpdateFlagsFields ==
  ASSUME NEW g \in Heap, NEW u \in Id, NEW k, k = UpdateFlags(g, u)
  PROVE  /\ k.refs = g.refs
         /\ \A t \in Id \ {u} : t \in k.flag <=> t \in g.flag
         /\ u \in k.flag <=> HasBranch(k, u)
<1>1. k = [g EXCEPT !.flag = IF HasBranch(g, u) THEN g.flag \cup {u} ELSE g.flag \ {u}]
  BY DEF UpdateFlags
<1>2. /\ k.refs = g.refs /\ k.pfx = g.pfx /\ SameLinks(g, k)
      /\ k.flag = IF HasBranch(g, u) THEN g.flag \cup {u} ELSE g.flag \ {u}
  BY <1>1 DEF Heap, SameLinks
<1>3. HasBranch(k, u) <=> HasBranch(g, u)
  BY <1>2, FoundAlike
<1>4. QED
  BY <1>2, <1>3

BranchesOf(g, s) == {p \in ToSet(s) : g.kind[p] \in BranchKinds}

\* What moving prefixes makes of the heap, field by field: of those of src, the
\* first ones are moved to dst and the others kept.
Moved(g, k, moved, kept, src, dst) ==
    /\ moved \in Seq(Id) /\ kept \in Seq(Id)
    /\ ToSet(g.pfx[src]) = ToSet(moved) \cup ToSet(kept)
    /\ k \in Heap /\ k.kind = g.kind /\ k.pv = g.pv /\ k.nx = g.nx /\ k.toks = g.toks
    /\ k.pfx[src] = kept /\ k.pfx[dst] = moved \o g.pfx[dst]
    /\ \A t \in Id \ {src, dst} : k.pfx[t] = g.pfx[t]
    /\ \A p \in Id : k.par[p] = IF p \in BranchesOf(g, moved) THEN dst ELSE g.par[p]
    /\ k.refs[dst] = g.refs[dst] + Cardinality(BranchesOf(g, moved))
    /\ k.refs[src] = g.refs[src] - Cardinality({p \in BranchesOf(g, moved) : g.par[p] = src})
    /\ \A t \in Id \ {src, dst} : k.refs[t] = g.refs[t]
    /\ \A t \in Id \ {src, dst} : t \in k.flag <=> t \in g.flag
    /\ BranchesOf(g, moved) = {} => k.flag = g.flag
    /\ BranchesOf(g, moved) # {} => \A t \in {src, dst} : t \in k.flag <=> HasBranch(k, t)

LEMMA MoveFirstFields ==
  ASSUME NEW g \in Heap, NEW src \in Id, NEW dst \in Id, src # dst,
         NEW n \in 0..Len(g.pfx[src]), NEW k, k = MoveFirstPrefixes(g, n, src, dst)
  PROVE  Moved(g, k, SubSeq(g.pfx[src], 1, n),
                     SubSeq(g.pfx[src], n + 1, Len(g.pfx[src])), src, dst)
<1> DEFINE moved == SubSeq(g.pfx[src], 1, n)
           kept == SubSeq(g.pfx[src], n + 1, Len(g.pfx[src]))
           branches == {p \in ToSet(moved) : g.kind[p] \in BranchKinds}
           pfx == [g.pfx EXCEPT ![dst] = moved \o @, ![src] = kept]
           par == [p \in Id |-> IF p \in branches THEN dst ELSE g.par[p]]
           refs == [g.refs EXCEPT
                      ![dst] = @ + Cardinality(branches),
                      ![src] = @ - Cardinality({p \in branches : g.par[p] = src})]
           taken == [g EXCEPT !.pfx = pfx, !.par = par, !.refs = refs]
<1>1. k = IF branches = {} THEN taken ELSE UpdateFlagsOf(taken, {src, dst})
  BY DEF MoveFirstPrefixes
<1>2. /\ g.pfx[src] \in Seq(Id) /\ g.pfx[dst] \in Seq(Id) /\ g.pfx \in [Id -> Seq(Id)]
      /\ g.refs \in [Id -> Int] /\ g.par \in [Id -> Id \cup {Null}]
  BY HeapFields
<1>3. moved \in Seq(Id) /\ kept \in Seq(Id) /\ g.pfx[src] = moved \o kept
  <2>1. ASSUME NEW s \in Seq(Id), n \in 0..Len(s)
        PROVE  /\ SubSeq(s, 1, n) \in Seq(Id) /\ SubSeq(s, n + 1, Len(s)) \in Seq(Id)
               /\ s = SubSeq(s, 1, n) \o SubSeq(s, n + 1, Len(s))
    <3> DEFINE a == SubSeq(s, 1, n)
               b == SubSeq(s, n + 1, Len(s))
    <3>1. a \in Seq(Id) /\ Len(a) = n /\ \A i \in 1..n : a[i] = s[i]
      BY <2>1
    <3>2. b \in Seq(Id) /\ Len(b) = Len(s) - n /\ \A i \in 1..(Len(s) - n) : b[i] = s[n + i]
      BY <2>1
    <3> HIDE DEF a, b
    <3>3. a \o b \in Seq(Id) /\ Len(a \o b) = Len(s)
      BY <2>1, <3>1, <3>2
    <3>4. ASSUME NEW i \in 1..Len(s)
          PROVE  (a \o b)[i] = s[i]
      <4>1. CASE i <= n
        BY <2>1, <3>1, <3>2, <4>1
      <4>2. CASE i > n
        <5>1. (a \o b)[i] = b[i - n] /\ i - n \in 1..(Len(s) - n)
          BY <2>1, <3>1, <3>2, <4>2
        <5>2. b[i - n] = s[n + (i - n)] /\ n + (i - n) = i
          BY <2>1, <3>2, <5>1
        <5>3. QED
          BY <5>1, <5>2
      <4>3. i <= n \/ i > n
        BY <2>1
      <4>4. QED
        BY <4>1, <4>2, <4>3
    <3>5. s = a \o b
      <4>1. DOMAIN s = 1..Len(s) /\ s = [i \in 1..Len(s) |-> s[i]]
        OBVIOUS
      <4> DEFINE c == a \o b
      <4> HIDE DEF c
      <4>2. c \in Seq(Id) /\ Len(c) = Len(s) /\ \A i \in 1..Len(s) : c[i] = s[i]
        BY <3>3, <3>4 DEF c
      <4>3. c = [i \in 1..Len(s) |-> c[i]]
        BY <4>2
      <4>4. c = s
        BY <4>1, <4>2, <4>3
      <4>5. QED
        BY <4>4 DEF c
    <3>6. QED
      BY <3>1, <3>2, <3>5 DEF a, b
  <2>2. QED
    BY <1>2, <2>1
<1> HIDE DEF moved, kept
<1>4. branches = BranchesOf(g, moved) /\ branches \in SUBSET Id
  BY <1>2, <1>3, ToSetType DEF BranchesOf
<1>13. ToSet(g.pfx[src]) = ToSet(moved) \cup ToSet(kept)
  BY <1>3, ToSetOfConcat
<1>5. /\ pfx[src] = kept /\ pfx[dst] = moved \o g.pfx[dst]
      /\ \A t \in Id \ {src, dst} : pfx[t] = g.pfx[t]
      /\ pfx \in [Id -> Seq(Id)]
  <2>1. moved \o g.pfx[dst] \in Seq(Id)
    BY <1>2, <1>3
  <2>2. pfx = [[g.pfx EXCEPT ![dst] = moved \o g.pfx[dst]] EXCEPT ![src] = kept]
    BY <1>2
  <2>3. QED
    BY <1>2, <1>3, <2>1, <2>2
<1>6. /\ Cardinality(branches) \in Int
      /\ Cardinality({p \in branches : g.par[p] = src}) \in Int
  BY <1>4, CountOfIds
<1> HIDE DEF branches
<1>7. /\ refs \in [Id -> Int]
      /\ refs[dst] = g.refs[dst] + Cardinality(branches)
      /\ refs[src] = g.refs[src] - Cardinality({p \in branches : g.par[p] = src})
      /\ \A t \in Id \ {src, dst} : refs[t] = g.refs[t]
  BY <1>2, <1>6
<1>8. par \in [Id -> Id \cup {Null}]
  BY <1>2
<1> HIDE DEF pfx, refs, par
<1>9. /\ taken \in Heap /\ taken.kind = g.kind /\ taken.pv = g.pv /\ taken.nx = g.nx
      /\ taken.toks = g.toks /\ taken.pfx = pfx /\ taken.par = par /\ taken.refs = refs
      /\ taken.flag = g.flag
  BY <1>5, <1>7, <1>8 DEF Heap
<1> HIDE DEF taken
<1>10. /\ k \in Heap /\ SameLinks(taken, k) /\ SameLists(taken, k) /\ k.refs = taken.refs
       /\ \A t \in Id \ {src, dst} : t \in k.flag <=> t \in taken.flag
       /\ branches = {} => k.flag = taken.flag
       /\ branches # {} => \A t \in {src, dst} : t \in k.flag <=> HasBranch(k, t)
  <2>1. CASE branches = {}
    BY <1>1, <1>9, <2>1 DEF SameLinks, SameLists
  <2>2. CASE branches # {}
    <3>1. k = UpdateFlagsOf(taken, {src, dst})
      BY <1>1, <2>2
    <3>2. QED
      BY <1>9, <2>2, <3>1, UpdateFlagsOfLemma, UpdateFlagsOfFields
  <2>3. QED
    BY <2>1, <2>2
<1>11. \A p \in Id : par[p] = IF p \in branches THEN dst ELSE g.par[p]
  BY DEF par
<1>12. QED
  <2>1. Moved(g, k, moved, kept, src, dst)
    BY <1>3, <1>4, <1>5, <1>7, <1>9, <1>10, <1>11, <1>13 DEF SameLinks, SameLists, Moved
  <2>2. QED
    BY <2>1 DEF moved, kept

LEMMA MoveFields ==
  ASSUME NEW g \in Heap, NEW src \in Id, NEW dst \in Id, src # dst,
         NEW k, k = MovePrefixes(g, src, dst)
  PROVE  Moved(g, k, g.pfx[src], <<>>, src, dst)
<1> DEFINE n == Len(g.pfx[src])
<1>1. g.pfx[src] \in Seq(Id)
  BY HeapFields
<1>2. /\ n \in 0..n /\ SubSeq(g.pfx[src], 1, n) = g.pfx[src]
      /\ SubSeq(g.pfx[src], n + 1, n) = <<>>
  BY <1>1
<1>3. k = MoveFirstPrefixes(g, n, src, dst)
  BY DEF MovePrefixes
<1>4. Moved(g, k, SubSeq(g.pfx[src], 1, n), SubSeq(g.pfx[src], n + 1, n), src, dst)
  BY <1>2, <1>3, MoveFirstFields
<1>5. QED
  BY <1>2, <1>4

-----------------------------------------------------------------------------
(* References: all but the ones held by branches.                            *)

Kids(g, t) == {p \in Id : g.par[p] = t}
Held(g, t) == g.refs[t] - Cardinality(Kids(g, t))
SameHeld(g, k) == \A t \in Id : Held(k, t) = Held(g, t)

LEMMA KidsCount ==
  ASSUME NEW g, NEW t
  PROVE  IsFiniteSet(Kids(g, t)) /\ Cardinality(Kids(g, t)) \in Nat
<1>1. Kids(g, t) \in SUBSET Id
  BY DEF Kids
<1>2. QED
  BY <1>1, FiniteIds, FS_Subset, FS_CardinalityType

\* One prefix gets another parent, which is referenced in place of the former one.
Shifted(g, k, p, x) ==
    \A t \in Id : k.refs[t] = g.refs[t] + (IF t = x THEN 1 ELSE 0)
                                        - (IF t = g.par[p] THEN 1 ELSE 0)

LEMMA HeldOne ==
  ASSUME NEW g \in Heap, NEW k \in Heap, NEW p \in Id, NEW x \in Id \cup {Null},
         k.par = [g.par EXCEPT ![p] = x], Shifted(g, k, p, x)
  PROVE  SameHeld(g, k)
<1> SUFFICES ASSUME NEW t \in Id
             PROVE  Held(k, t) = Held(g, t)
  BY DEF SameHeld
<1>1. g.refs[t] \in Int /\ g.par \in [Id -> Id \cup {Null}]
  BY HeapFields
<1>2. /\ IsFiniteSet(Kids(g, t)) /\ Cardinality(Kids(g, t)) \in Nat
      /\ IsFiniteSet(Kids(g, t) \ {p})
      /\ Cardinality(Kids(g, t) \ {p}) =
             Cardinality(Kids(g, t)) - (IF t = g.par[p] THEN 1 ELSE 0)
  <2>1. p \in Kids(g, t) <=> t = g.par[p]
    BY DEF Kids
  <2>2. IsFiniteSet(Kids(g, t)) /\ Cardinality(Kids(g, t)) \in Nat
    BY KidsCount
  <2>3. /\ IsFiniteSet(Kids(g, t) \ {p})
        /\ Cardinality(Kids(g, t) \ {p}) =
               IF p \in Kids(g, t) THEN Cardinality(Kids(g, t)) - 1 ELSE Cardinality(Kids(g, t))
    BY <2>2, FS_RemoveElement
  <2>4. QED
    BY <2>1, <2>2, <2>3
<1>3. Kids(k, t) = (Kids(g, t) \ {p}) \cup (IF t = x THEN {p} ELSE {})
  BY <1>1 DEF Kids
<1>4. Cardinality(Kids(k, t)) = Cardinality(Kids(g, t) \ {p}) + (IF t = x THEN 1 ELSE 0)
  <2>1. CASE t = x
    <3>1. Kids(k, t) = (Kids(g, t) \ {p}) \cup {p} /\ p \notin Kids(g, t) \ {p}
      BY <1>3, <2>1
    <3>2. Cardinality((Kids(g, t) \ {p}) \cup {p}) = Cardinality(Kids(g, t) \ {p}) + 1
      BY <1>2, <3>1, FS_AddElement
    <3>3. QED
      BY <2>1, <3>1, <3>2
  <2>2. CASE t # x
    <3>1. Kids(k, t) = Kids(g, t) \ {p}
      BY <1>3, <2>2
    <3>2. Cardinality(Kids(g, t) \ {p}) \in Int
      BY <1>2
    <3>3. QED
      BY <2>2, <3>1, <3>2
  <2>3. QED
    BY <2>1, <2>2
<1>5. QED
  BY <1>1, <1>2, <1>4 DEF Held, Shifted

LEMMA HeldAlike ==
  ASSUME NEW g, NEW k, k.refs = g.refs, k.par = g.par
  PROVE  SameHeld(g, k)
  BY DEF SameHeld, Held, Kids

LEMMA HeldThrough ==
  ASSUME NEW f, NEW g, NEW k, SameHeld(f, g), SameHeld(g, k)
  PROVE  SameHeld(f, k)
  BY DEF SameHeld

LEMMA RefFields ==
  ASSUME NEW g \in Heap, NEW u \in Id
  PROVE  /\ \A t \in Id : Ref(g, u).refs[t] = g.refs[t] + (IF t = u THEN 1 ELSE 0)
         /\ \A t \in Id : Rele(g, u).refs[t] = g.refs[t] - (IF t = u THEN 1 ELSE 0)
         /\ Ref(g, u).flag = g.flag /\ Rele(g, u).flag = g.flag
<1>1. g.refs \in [Id -> Int]
  BY HeapFields
<1>2. /\ Ref(g, u).refs = [g.refs EXCEPT ![u] = @ + 1] /\ Ref(g, u).flag = g.flag
      /\ Rele(g, u).refs = [g.refs EXCEPT ![u] = @ - 1] /\ Rele(g, u).flag = g.flag
  BY DEF Heap, Ref, Rele
<1>3. QED
  BY <1>1, <1>2

LEMMA SetParentHeld ==
  ASSUME NEW g \in Heap, NEW p \in Id, NEW u \in Id
  PROVE  SameHeld(g, SetParent(g, p, u)) /\ SetParent(g, p, u).flag = g.flag
<1> DEFINE left == IF g.par[p] # Null THEN Rele(g, g.par[p]) ELSE g
           held == Ref(left, u)
           k == SetParent(g, p, u)
<1>0. g.par[p] \in Id \cup {Null} /\ \A t \in Id : g.refs[t] \in Int
  BY HeapFields
<1>1. left \in Heap
  BY <1>0, ReleLemma
<1>2. /\ \A t \in Id : left.refs[t] = g.refs[t] - (IF t = g.par[p] THEN 1 ELSE 0)
      /\ left.flag = g.flag
  <2>1. CASE g.par[p] # Null
    BY <1>0, <2>1, RefFields
  <2>2. CASE g.par[p] = Null
    BY <1>0, <2>2, NullOutside
  <2>3. QED
    BY <2>1, <2>2
<1> HIDE DEF left
<1>3. /\ held \in Heap
      /\ \A t \in Id : held.refs[t] = left.refs[t] + (IF t = u THEN 1 ELSE 0)
      /\ held.flag = left.flag
  BY <1>1, RefFields, RefLemma
<1>4. k = [held EXCEPT !.par[p] = u]
  BY DEF SetParent, left
<1> HIDE DEF held
<1>5. k.refs = held.refs /\ k.flag = held.flag
  <2>1. k = [held EXCEPT !.par = [held.par EXCEPT ![p] = u]]
    BY <1>4
  <2>2. QED
    BY <1>3, <2>1 DEF Heap
<1>6. k \in Heap /\ k.par = [g.par EXCEPT ![p] = u]
  BY SetParentLemma
<1> HIDE DEF k
<1>7. SameHeld(g, k)
  <2>1. Shifted(g, k, p, u)
    BY <1>0, <1>2, <1>3, <1>5 DEF Shifted
  <2>2. QED
    BY <1>6, <2>1, HeldOne
<1>8. QED
  BY <1>2, <1>3, <1>5, <1>7 DEF k
\* The branches of a chain are those whose flags tell something.
Settled(g, t) == t \in g.flag <=> HasBranch(g, t)

\* A branch is exhausted that no alternative comes from.
LEMMA ExhaustFields ==
  ASSUME NEW g \in Heap, NEW p \in Id, g.par[p] # Null,
         \A q \in Id : g.kind[q] = "else" /\ q # p => g.pv[q] # p,
         \A t \in Id : p \in ToSet(g.pfx[t]) => t = g.par[p],
         NEW k, k = Exhaust(g, p)
  PROVE  /\ SameHeld(g, k)
         /\ \A t \in Id : Settled(g, t) \/ t = g.par[p] => Settled(k, t)
<1> DEFINE u == g.par[p]
           cut == [g EXCEPT !.kind[p] = "cpp", !.pv[p] = Null, !.nx[p] = Null]
           flagged == UpdateFlags(cut, u)
           released == Rele(flagged, u)
<1>1. u \in Id /\ g.par \in [Id -> Id \cup {Null}] /\ g.kind \in [Id -> Kinds]
      /\ g.pv \in [Id -> Id \cup {Null}] /\ \A t \in Id : g.refs[t] \in Int
  BY HeapFields
<1>2. /\ cut \in Heap /\ cut.par = g.par /\ SameLists(g, cut) /\ cut.refs = g.refs
      /\ cut.flag = g.flag
      /\ cut.kind = [g.kind EXCEPT ![p] = "cpp"] /\ cut.pv = [g.pv EXCEPT ![p] = Null]
  <2>1. /\ [g.kind EXCEPT ![p] = "cpp"] \in [Id -> Kinds]
        /\ [g.pv EXCEPT ![p] = Null] \in [Id -> Id \cup {Null}]
        /\ [g.nx EXCEPT ![p] = Null] \in [Id -> Id \cup {Null}]
    BY HeapFields DEF Kinds
  <2>2. cut = [g EXCEPT !.kind = [g.kind EXCEPT ![p] = "cpp"], !.pv = [g.pv EXCEPT ![p] = Null],
                        !.nx = [g.nx EXCEPT ![p] = Null]]
    OBVIOUS
  <2> HIDE DEF cut
  <2>3. QED
    BY <2>1, <2>2 DEF Heap, SameLists
<1>3. k = [released EXCEPT !.par = [released.par EXCEPT ![p] = Null]]
  BY DEF Exhaust
<1> HIDE DEF cut
<1>4. /\ flagged \in Heap /\ flagged.par = g.par /\ flagged.refs = g.refs
      /\ \A t \in Id \ {u} : t \in flagged.flag <=> t \in g.flag
      /\ u \in flagged.flag <=> HasBranch(flagged, u)
      /\ SameLinks(cut, flagged) /\ flagged.pfx = g.pfx
  <2>1. flagged \in Heap /\ SameLinks(cut, flagged) /\ SameLists(cut, flagged)
    BY <1>1, <1>2, UpdateFlagsLemma
  <2>2. /\ flagged.refs = cut.refs
        /\ \A t \in Id \ {u} : t \in flagged.flag <=> t \in cut.flag
        /\ u \in flagged.flag <=> HasBranch(flagged, u)
    BY <1>1, <1>2, UpdateFlagsFields
  <2>3. QED
    BY <1>2, <2>1, <2>2 DEF SameLinks, SameLists
<1> HIDE DEF flagged
<1>5. /\ released \in Heap /\ SameLinks(flagged, released) /\ released.pfx = flagged.pfx
      /\ \A t \in Id : released.refs[t] = g.refs[t] - (IF t = u THEN 1 ELSE 0)
      /\ released.flag = flagged.flag
  <2>1. released \in Heap /\ SameLinks(flagged, released) /\ SameLists(flagged, released)
    BY <1>1, <1>4, ReleLemma
  <2>2. /\ \A t \in Id : released.refs[t] = flagged.refs[t] - (IF t = u THEN 1 ELSE 0)
        /\ released.flag = flagged.flag
    BY <1>1, <1>4, RefFields
  <2>3. QED
    BY <1>4, <2>1, <2>2 DEF SameLists
<1> HIDE DEF released
<1>6. /\ k.refs = released.refs /\ k.flag = released.flag /\ k.pfx = g.pfx
  BY <1>2, <1>3, <1>4, <1>5 DEF Heap
<1>7. /\ k \in Heap /\ k.par = [g.par EXCEPT ![p] = Null]
      /\ k.kind = [g.kind EXCEPT ![p] = "cpp"] /\ k.pv = [g.pv EXCEPT ![p] = Null]
  BY ExhaustLemma
<1> HIDE DEF u
<1>8. SameHeld(g, k)
  <2>0. u = g.par[p]
    BY DEF u
  <2>1. Shifted(g, k, p, Null)
    BY <1>1, <1>5, <1>6, <2>0, NullOutside DEF Shifted
  <2>2. Null \in Id \cup {Null}
    OBVIOUS
  <2>3. QED
    BY <1>7, <2>1, <2>2, HeldOne
<1>9. \A q \in Id : q # p => (IsAlternative(k, q) <=> IsAlternative(g, q))
  BY <1>1, <1>7 DEF IsAlternative
<1>10. ~IsAlternative(k, p) /\ ~IsAlternative(flagged, p)
  BY <1>1, <1>2, <1>4, <1>7 DEF IsAlternative, SameLinks
<1>11. \A q \in Id : q # p => (IsAlternative(flagged, q) <=> IsAlternative(g, q))
  BY <1>1, <1>2, <1>4 DEF IsAlternative, SameLinks
<1>12. \A t \in Id : ToSet(g.pfx[t]) \subseteq Id
  BY HeapFields, ToSetType
<1> USE DEF u
<1>13. HasBranch(k, u) <=> HasBranch(flagged, u)
  BY <1>1, <1>2, <1>4, <1>6, <1>9, <1>10, <1>11, <1>12 DEF HasBranch
<1>14. \A t \in Id \ {u} : HasBranch(k, t) <=> HasBranch(g, t)
  BY <1>6, <1>9, <1>12 DEF HasBranch
<1>15. QED
  BY <1>1, <1>4, <1>5, <1>6, <1>8, <1>13, <1>14 DEF Settled

-----------------------------------------------------------------------------
(* Unlinking a branch releases its parent, and keeps all flags settled.      *)

ParentExact(g) ==
    \A t, p \in Id : p \in ToSet(g.pfx[t]) /\ g.par[p] # Null => t = g.par[p]

AllSettled(g) == \A t \in Id : Settled(g, t)

LEMMA ParentsAreExact ==
  ASSUME NEW g \in Heap, ParentsHoldIn(g), PrefixesApart(g)
  PROVE  ParentExact(g)
<1> SUFFICES ASSUME NEW t \in Id, NEW p \in Id, p \in ToSet(g.pfx[t]), g.par[p] # Null
             PROVE  t = g.par[p]
  BY DEF ParentExact
<1>1. g.par[p] \in Id /\ p \in ToSet(g.pfx[g.par[p]])
  BY HeapFields DEF ParentsHoldIn
<1>2. QED
  BY <1>1 DEF PrefixesApart

\* Alternatives came or went: the tokens they hang of are to be settled.
LEMMA SettledBut ==
  ASSUME NEW g \in Heap, NEW k, k.pfx = g.pfx, k.flag = g.flag, NEW D \in SUBSET Id,
         \A q \in Id \ D : IsAlternative(k, q) <=> IsAlternative(g, q),
         NEW t \in Id, Settled(g, t), \A q \in D : q \notin ToSet(g.pfx[t])
  PROVE  Settled(k, t)
<1>1. ToSet(g.pfx[t]) \subseteq Id
  BY HeapFields, ToSetType
<1>2. HasBranch(k, t) <=> HasBranch(g, t)
  BY <1>1 DEF HasBranch
<1>3. QED
  BY <1>2 DEF Settled

LEMMA UpdateSettles ==
  ASSUME NEW g \in Heap, NEW u \in Id, NEW k, k = UpdateFlags(g, u)
  PROVE  /\ SameHeld(g, k)
         /\ \A t \in Id : Settled(g, t) \/ t = u => Settled(k, t)
<1>1. k \in Heap /\ SameLinks(g, k) /\ SameLists(g, k)
  BY UpdateFlagsLemma
<1>2. /\ k.refs = g.refs
      /\ \A t \in Id \ {u} : t \in k.flag <=> t \in g.flag
      /\ u \in k.flag <=> HasBranch(k, u)
  BY UpdateFlagsFields
<1>3. \A t \in Id : HasBranch(k, t) <=> HasBranch(g, t)
  BY <1>1, FoundAlike DEF SameLists
<1>4. k.par = g.par
  BY <1>1 DEF SameLinks
<1>5. SameHeld(g, k)
  BY <1>2, <1>4, HeldAlike
<1>6. QED
  BY <1>2, <1>3, <1>5 DEF Settled

LEMMA UpdateAllSettles ==
  ASSUME NEW g \in Heap, NEW T \in SUBSET Id, NEW k, k = UpdateFlagsOf(g, T)
  PROVE  /\ SameHeld(g, k)
         /\ \A t \in Id : Settled(g, t) \/ t \in T => Settled(k, t)
<1>1. k \in Heap /\ SameLinks(g, k) /\ SameLists(g, k)
  BY UpdateFlagsOfLemma
<1>2. /\ k.refs = g.refs
      /\ \A t \in Id \ T : t \in k.flag <=> t \in g.flag
      /\ \A t \in T : t \in k.flag <=> HasBranch(k, t)
  BY UpdateFlagsOfFields
<1>3. \A t \in Id : HasBranch(k, t) <=> HasBranch(g, t)
  BY <1>1, FoundAlike DEF SameLists
<1>4. k.par = g.par
  BY <1>1 DEF SameLinks
<1>5. SameHeld(g, k)
  BY <1>2, <1>4, HeldAlike
<1>6. QED
  BY <1>2, <1>3, <1>5 DEF Settled

LEMMA ExhaustSettles ==
  ASSUME NEW g \in Heap, NEW p \in Id, g.par[p] # Null, ParentExact(g), AllSettled(g),
         \A q \in Id : g.kind[q] = "else" /\ q # p => g.pv[q] # p,
         NEW k, k = Exhaust(g, p)
  PROVE  SameHeld(g, k) /\ AllSettled(k) /\ ParentExact(k)
<1>1. \A t \in Id : p \in ToSet(g.pfx[t]) => t = g.par[p]
  BY DEF ParentExact
<1>2. /\ SameHeld(g, k)
      /\ \A t \in Id : Settled(g, t) \/ t = g.par[p] => Settled(k, t)
  BY <1>1, ExhaustFields
<1>3. k.par = [g.par EXCEPT ![p] = Null] /\ SameLists(g, k)
  BY ExhaustLemma
<1>4. ParentExact(k)
  BY <1>3, HeapFields DEF ParentExact, SameLists
<1>5. QED
  BY <1>2, <1>4 DEF AllSettled

\* Two branches that follow each other are the whole chain.
LEMMA ExhaustTwoSettles ==
  ASSUME NEW g \in Heap, NEW p \in Id, NEW q \in Id, p # q,
         g.par[p] # Null, g.par[q] # Null, ParentExact(g), AllSettled(g),
         \A o \in Id : g.kind[o] = "else" => g.pv[o] # p /\ g.pv[o] # q,
         NEW k, k = Exhaust(Exhaust(g, p), q)
  PROVE  SameHeld(g, k) /\ AllSettled(k)
<1> DEFINE one == Exhaust(g, p)
<1>1. /\ one \in Heap
      /\ one.kind = [g.kind EXCEPT ![p] = "cpp"] /\ one.pv = [g.pv EXCEPT ![p] = Null]
      /\ one.par = [g.par EXCEPT ![p] = Null]
  BY ExhaustLemma
<1>2. SameHeld(g, one) /\ AllSettled(one) /\ ParentExact(one)
  BY ExhaustSettles
<1>3. k = Exhaust(one, q)
  OBVIOUS
<1> HIDE DEF one
<1>4. one.par[q] # Null
  BY <1>1, HeapFields
<1>5. \A o \in Id : one.kind[o] = "else" /\ o # q => one.pv[o] # q
  BY <1>1, HeapFields, NullOutside
<1>6. SameHeld(one, k) /\ AllSettled(k)
  BY <1>1, <1>2, <1>3, <1>4, <1>5, ExhaustSettles
<1>7. QED
  BY <1>2, <1>6, HeldThrough

\* An alternative turned into an #if or an #endif, or linked over another one:
\* its token is settled before the neighbour is exhausted.
LEMMA CutSettles ==
  ASSUME NEW g \in Heap, AllSettled(g), ParentExact(g), NEW n \in Id, g.par[n] \in Id,
         NEW cut \in Heap, SameLists(g, cut), cut.flag = g.flag, cut.refs = g.refs,
         cut.par = g.par,
         \A q \in Id \ {n} : IsAlternative(cut, q) <=> IsAlternative(g, q)
  PROVE  /\ SameHeld(g, cut)
         /\ \A t \in Id : t # g.par[n] => Settled(cut, t)
<1>1. SameHeld(g, cut)
  BY HeldAlike
<1>2. ASSUME NEW t \in Id, t # g.par[n]
      PROVE  Settled(cut, t)
  <2>1. n \notin ToSet(g.pfx[t])
    BY <1>2, NullOutside DEF ParentExact
  <2>2. {n} \in SUBSET Id /\ cut.pfx = g.pfx /\ Settled(g, t)
    BY DEF SameLists, AllSettled
  <2>3. \A q \in {n} : q \notin ToSet(g.pfx[t])
    BY <2>1
  <2>4. QED
    BY <2>2, <2>3, SettledBut
<1>3. QED
  BY <1>1, <1>2

LEMMA UnlinkIfSettles ==
  ASSUME NEW g \in Heap, NEW p \in Id, g.kind[p] = "if", InShape(g),
         ParentExact(g), AllSettled(g), NEW k, k = UnlinkIf(g, p)
  PROVE  SameHeld(g, k) /\ AllSettled(k)
<1> DEFINE n == g.nx[p]
<1>0. LinksInOrder(g) /\ BranchesLinked(g)
  BY DEF InShape
<1>1. /\ n \in Id /\ n # p /\ g.pv[n] = p
      /\ g.kind[n] \in {"else", "endif"}
      /\ g.par[p] \in Id /\ g.par[n] \in Id
  <2>1. n # Null /\ g.par[p] # Null
    BY <1>0 DEF BranchesLinked, BranchKinds
  <2>2. n \in Id /\ g.par[p] \in Id
    BY <2>1, HeapFields
  <2>3. p < n /\ g.pv[n] = p /\ g.pv[n] # Null
    BY <1>0, <2>1, NullOutside DEF LinksInOrder
  <2>4. g.kind[n] \in {"else", "endif"} /\ g.par[n] # Null
    BY <1>0, <2>2, <2>3 DEF LinksInOrder
  <2>5. g.par[n] \in Id
    BY <2>2, <2>4, HeapFields
  <2>6. QED
    BY <2>2, <2>3, <2>4, <2>5, NullOutside
<1>2. \A o \in Id : /\ g.pv[o] = p => o = n
                    /\ g.pv[o] = n => g.nx[n] = o /\ g.kind[n] # "endif"
  BY <1>0, <1>1, NullOutside DEF LinksInOrder
<1>3. CASE g.kind[n] = "endif"
  <2>1. k = Exhaust(Exhaust(g, n), p)
    BY <1>3 DEF UnlinkIf
  <2>2. \A o \in Id : g.kind[o] = "else" => g.pv[o] # n /\ g.pv[o] # p
    BY <1>2, <1>3
  <2> HIDE DEF n
  <2>3. g.par[n] # Null /\ g.par[p] # Null
    BY <1>1, NullOutside
  <2>4. QED
    BY <1>1, <2>1, <2>2, <2>3, ExhaustTwoSettles
<1>4. CASE g.kind[n] = "else"
  <2> DEFINE cut == [g EXCEPT !.pv[n] = Null, !.kind[n] = "if"]
             flagged == UpdateFlags(cut, g.par[n])
  <2>1. k = Exhaust(flagged, p)
    BY <1>4 DEF UnlinkIf
  <2>2. /\ cut \in Heap /\ cut.kind = [g.kind EXCEPT ![n] = "if"]
        /\ cut.pv = [g.pv EXCEPT ![n] = Null] /\ cut.par = g.par
        /\ SameLists(g, cut) /\ cut.flag = g.flag /\ cut.refs = g.refs
    BY <1>1 DEF Heap, Kinds, BranchKinds, SameLists
  <2> HIDE DEF cut, n
  <2>3. \A q \in Id \ {n} : IsAlternative(cut, q) <=> IsAlternative(g, q)
    BY <1>1, <2>2, HeapFields DEF IsAlternative
  <2>4. SameHeld(g, cut) /\ \A t \in Id : t # g.par[n] => Settled(cut, t)
    BY <1>1, <2>2, <2>3, CutSettles
  <2>5. /\ flagged \in Heap /\ SameLinks(cut, flagged) /\ SameLists(cut, flagged)
        /\ SameHeld(cut, flagged) /\ AllSettled(flagged)
    BY <1>1, <2>2, <2>4, UpdateFlagsLemma, UpdateSettles DEF AllSettled
  <2> HIDE DEF flagged
  <2>6. /\ flagged.par[p] # Null /\ ParentExact(flagged)
        /\ \A q \in Id : flagged.kind[q] = "else" /\ q # p => flagged.pv[q] # p
    BY <1>1, <1>2, <2>2, <2>5, HeapFields, NullOutside
       DEF SameLinks, SameLists, ParentExact
  <2>7. SameHeld(flagged, k) /\ AllSettled(k)
    BY <2>1, <2>5, <2>6, ExhaustSettles
  <2>8. QED
    BY <2>4, <2>5, <2>7, HeldThrough
<1>5. QED
  BY <1>1, <1>3, <1>4

LEMMA UnlinkEndifSettles ==
  ASSUME NEW g \in Heap, NEW p \in Id, g.kind[p] = "endif", InShape(g),
         ParentExact(g), AllSettled(g), NEW k, k = UnlinkEndif(g, p)
  PROVE  SameHeld(g, k) /\ AllSettled(k)
<1> DEFINE v == g.pv[p]
<1>0. LinksInOrder(g) /\ BranchesLinked(g)
  BY DEF InShape
<1>1. /\ v \in Id /\ v # p /\ g.nx[v] = p /\ g.nx[p] = Null
      /\ g.kind[v] \in {"if", "else"}
      /\ g.par[p] \in Id /\ g.par[v] \in Id
  <2>1. g.par[p] # Null
    BY <1>0 DEF BranchesLinked, BranchKinds
  <2>2. v # Null /\ g.nx[p] = Null
    BY <1>0, <2>1 DEF LinksInOrder
  <2>3. v \in Id /\ g.par[p] \in Id
    BY <2>1, <2>2, HeapFields
  <2>4. v < p /\ g.nx[v] = p
    BY <1>0, <2>2 DEF LinksInOrder
  <2>5. g.kind[v] \in {"if", "else"} /\ g.par[v] # Null
    BY <1>0, <2>3, <2>4, NullOutside DEF LinksInOrder
  <2>6. g.par[v] \in Id
    BY <2>3, <2>5, HeapFields
  <2>7. QED
    BY <2>2, <2>3, <2>4, <2>5, <2>6, NullOutside
<1>2. \A o \in Id : g.pv[o] # p /\ (g.pv[o] = v => o = p)
  BY <1>0, <1>1, NullOutside DEF LinksInOrder
<1>3. CASE g.kind[v] = "if"
  <2>1. k = Exhaust(Exhaust(g, v), p)
    BY <1>3 DEF UnlinkEndif
  <2>2. \A o \in Id : g.kind[o] = "else" => g.pv[o] # v /\ g.pv[o] # p
    BY <1>2
  <2> HIDE DEF v
  <2>3. g.par[v] # Null /\ g.par[p] # Null
    BY <1>1, NullOutside
  <2>4. QED
    BY <1>1, <2>1, <2>2, <2>3, ExhaustTwoSettles
<1>4. CASE g.kind[v] = "else"
  <2> DEFINE cut == [g EXCEPT !.nx[v] = Null, !.kind[v] = "endif"]
             flagged == UpdateFlags(cut, g.par[v])
  <2>1. k = Exhaust(flagged, p)
    BY <1>4 DEF UnlinkEndif
  <2>2. /\ cut \in Heap /\ cut.kind = [g.kind EXCEPT ![v] = "endif"]
        /\ cut.pv = g.pv /\ cut.par = g.par
        /\ SameLists(g, cut) /\ cut.flag = g.flag /\ cut.refs = g.refs
    BY <1>1 DEF Heap, Kinds, BranchKinds, SameLists
  <2> HIDE DEF cut, v
  <2>3. \A q \in Id \ {v} : IsAlternative(cut, q) <=> IsAlternative(g, q)
    BY <1>1, <2>2, HeapFields DEF IsAlternative
  <2>4. SameHeld(g, cut) /\ \A t \in Id : t # g.par[v] => Settled(cut, t)
    BY <1>1, <2>2, <2>3, CutSettles
  <2>5. /\ flagged \in Heap /\ SameLinks(cut, flagged) /\ SameLists(cut, flagged)
        /\ SameHeld(cut, flagged) /\ AllSettled(flagged)
    BY <1>1, <2>2, <2>4, UpdateFlagsLemma, UpdateSettles DEF AllSettled
  <2> HIDE DEF flagged
  <2>6. /\ flagged.par[p] # Null /\ ParentExact(flagged)
        /\ \A q \in Id : flagged.kind[q] = "else" /\ q # p => flagged.pv[q] # p
    BY <1>1, <1>2, <2>2, <2>5, HeapFields, NullOutside
       DEF SameLinks, SameLists, ParentExact
  <2>7. SameHeld(flagged, k) /\ AllSettled(k)
    BY <2>1, <2>5, <2>6, ExhaustSettles
  <2>8. QED
    BY <2>4, <2>5, <2>7, HeldThrough
<1>5. QED
  BY <1>1, <1>3, <1>4

LEMMA UnlinkElseSettles ==
  ASSUME NEW g \in Heap, NEW p \in Id, g.kind[p] = "else", InShape(g),
         ParentExact(g), AllSettled(g), NEW k, k = UnlinkElse(g, p)
  PROVE  SameHeld(g, k) /\ AllSettled(k)
<1> DEFINE v == g.pv[p]
           n == g.nx[p]
<1>0. LinksInOrder(g) /\ BranchesLinked(g)
  BY DEF InShape
<1>1. /\ v \in Id /\ n \in Id /\ v # p /\ n # p
      /\ g.nx[v] = p /\ g.pv[n] = p
      /\ g.par[p] \in Id /\ g.par[v] \in Id /\ g.par[n] \in Id
  <2>1. g.par[p] # Null /\ n # Null
    BY <1>0 DEF BranchesLinked, BranchKinds
  <2>2. v # Null
    BY <1>0, <2>1 DEF LinksInOrder
  <2>3. v \in Id /\ n \in Id /\ g.par[p] \in Id
    BY <2>1, <2>2, HeapFields
  <2>4. v < p /\ g.nx[v] = p /\ p < n /\ g.pv[n] = p
    BY <1>0, <2>1, <2>2 DEF LinksInOrder
  <2>5. g.par[v] # Null /\ g.par[n] # Null
    BY <1>0, <2>3, <2>4, NullOutside DEF LinksInOrder
  <2>6. g.par[v] \in Id /\ g.par[n] \in Id
    BY <2>3, <2>5, HeapFields
  <2>7. QED
    BY <2>3, <2>4, <2>6, NullOutside
<1>2. \A o \in Id : g.pv[o] = p => o = n
  BY <1>0, <1>1, NullOutside DEF LinksInOrder
<1> DEFINE cut == [g EXCEPT !.nx[v] = n, !.pv[n] = v]
           once == UpdateFlags(cut, g.par[v])
           twice == UpdateFlags(once, g.par[n])
<1>3. k = Exhaust(twice, p)
  BY DEF UnlinkElse
<1>4. /\ cut \in Heap /\ cut.kind = g.kind
      /\ cut.pv = [g.pv EXCEPT ![n] = v] /\ cut.par = g.par
      /\ SameLists(g, cut) /\ cut.flag = g.flag /\ cut.refs = g.refs
  BY <1>1 DEF Heap, SameLists
<1> HIDE DEF cut, n, v
<1>5. \A q \in Id \ {n} : IsAlternative(cut, q) <=> IsAlternative(g, q)
  BY <1>1, <1>4, HeapFields DEF IsAlternative
<1>6. SameHeld(g, cut) /\ \A t \in Id : t # g.par[n] => Settled(cut, t)
  BY <1>1, <1>4, <1>5, CutSettles
<1>7. /\ once \in Heap /\ SameLinks(cut, once) /\ SameLists(cut, once)
      /\ SameHeld(cut, once) /\ \A t \in Id : t # g.par[n] => Settled(once, t)
  <2>1. once \in Heap /\ SameLinks(cut, once) /\ SameLists(cut, once)
    BY <1>1, <1>4, UpdateFlagsLemma
  <2>2. /\ SameHeld(cut, once)
        /\ \A t \in Id : Settled(cut, t) \/ t = g.par[v] => Settled(once, t)
    BY <1>1, <1>4, UpdateSettles
  <2>3. QED
    BY <1>6, <2>1, <2>2
<1> HIDE DEF once
<1>8. /\ twice \in Heap /\ SameLinks(once, twice) /\ SameLists(once, twice)
      /\ SameHeld(once, twice) /\ AllSettled(twice)
  <2>1. twice \in Heap /\ SameLinks(once, twice) /\ SameLists(once, twice)
    BY <1>1, <1>7, UpdateFlagsLemma
  <2>2. /\ SameHeld(once, twice)
        /\ \A t \in Id : Settled(once, t) \/ t = g.par[n] => Settled(twice, t)
    BY <1>1, <1>7, UpdateSettles
  <2>3. QED
    BY <1>7, <2>1, <2>2 DEF AllSettled
<1> HIDE DEF twice
<1>9. /\ twice.par = g.par /\ twice.pfx = g.pfx /\ twice.pv = [g.pv EXCEPT ![n] = v]
  BY <1>4, <1>7, <1>8 DEF SameLinks, SameLists
<1>10. /\ twice.par[p] # Null /\ ParentExact(twice)
       /\ \A q \in Id : twice.kind[q] = "else" /\ q # p => twice.pv[q] # p
  BY <1>1, <1>2, <1>9, HeapFields, NullOutside DEF ParentExact
<1>11. SameHeld(twice, k) /\ AllSettled(k)
  BY <1>3, <1>8, <1>10, ExhaustSettles
<1>12. QED
  BY <1>6, <1>7, <1>8, <1>11, HeldThrough

LEMMA UnlinkSettles ==
  ASSUME NEW g \in Heap, NEW p \in Id, InShape(g), ParentExact(g), AllSettled(g)
  PROVE  SameHeld(g, Unlink(g, p)) /\ AllSettled(Unlink(g, p))
<1>1. CASE g.kind[p] = "if"
  BY <1>1, UnlinkIfSettles DEF Unlink
<1>2. CASE g.kind[p] = "else"
  BY <1>2, UnlinkElseSettles DEF Unlink
<1>3. CASE g.kind[p] = "endif"
  BY <1>3, UnlinkEndifSettles DEF Unlink
<1>4. CASE g.kind[p] \notin BranchKinds
  BY <1>4, HeldAlike DEF Unlink, BranchKinds
<1>5. QED
  BY <1>1, <1>2, <1>3, <1>4 DEF BranchKinds

-----------------------------------------------------------------------------
(* Reverting branches, and moving prefixes.                                  *)

LEMMA RevertFields ==
  ASSUME NEW g \in Heap, NEW S \in SUBSET Id, NEW k, k = RevertAll(g, S)
  PROVE  /\ SameHeld(g, k)
         /\ \A t \in ParentsOf(g, S) : Settled(k, t)
         /\ \A t \in Id \ ParentsOf(g, S) : t \in k.flag <=> t \in g.flag
<1> DEFINE kind == [p \in Id |-> IF p \in S THEN "cpp" ELSE g.kind[p]]
           pv == [p \in Id |-> IF p \in S THEN Null ELSE g.pv[p]]
           nx == [p \in Id |-> IF p \in S THEN Null ELSE g.nx[p]]
           par == [p \in Id |-> IF p \in S THEN Null ELSE g.par[p]]
           refs == [t \in Id |-> g.refs[t] - Cardinality({p \in S : g.par[p] = t})]
           cut == [g EXCEPT !.kind = kind, !.pv = pv, !.nx = nx, !.par = par,
                            !.refs = refs]
           T == ParentsOf(g, S)
<1>1. k = UpdateFlagsOf(cut, T)
  BY DEF RevertAll
<1>2. /\ kind \in [Id -> Kinds]
      /\ pv \in [Id -> Id \cup {Null}] /\ nx \in [Id -> Id \cup {Null}]
      /\ par \in [Id -> Id \cup {Null}]
  BY HeapFields DEF Kinds
<1>3. /\ refs \in [Id -> Int]
      /\ \A t \in Id : refs[t] = g.refs[t] - Cardinality({p \in S : g.par[p] = t})
  <2>1. ASSUME NEW t \in Id
        PROVE  Cardinality({p \in S : g.par[p] = t}) \in Int
    BY CountOfIds
  <2>2. \A t \in Id : g.refs[t] \in Int
    BY HeapFields
  <2>3. QED
    BY <2>1, <2>2
<1>4. \A t \in Id : {p \in Id : par[p] = t} = Kids(g, t) \ {p \in S : g.par[p] = t}
  BY NullOutside DEF Kids
<1> HIDE DEF kind, pv, nx, par, refs
<1>5. /\ cut \in Heap /\ cut.flag = g.flag /\ cut.refs = refs /\ cut.par = par
  BY <1>2, <1>3 DEF Heap
<1> HIDE DEF cut
<1>6. T \in SUBSET Id
  BY ParentsOfType
<1> HIDE DEF T
<1>7. /\ SameHeld(cut, k)
      /\ \A t \in Id : Settled(cut, t) \/ t \in T => Settled(k, t)
      /\ \A t \in Id \ T : t \in k.flag <=> t \in cut.flag
  BY <1>1, <1>5, <1>6, UpdateAllSettles, UpdateFlagsOfFields
<1>8. SameHeld(g, cut)
  <2> SUFFICES ASSUME NEW t \in Id
               PROVE  Held(cut, t) = Held(g, t)
    BY DEF SameHeld
  <2> DEFINE gone == {p \in S : g.par[p] = t}
  <2>1. /\ IsFiniteSet(Kids(g, t)) /\ Cardinality(Kids(g, t)) \in Nat
        /\ Cardinality(gone) \in Nat /\ g.refs[t] \in Int
    BY KidsCount, CountOfIds, HeapFields
  <2>2. Cardinality(Kids(g, t) \ gone)
            = Cardinality(Kids(g, t)) - Cardinality(Kids(g, t) \cap gone)
    BY <2>1, FS_Difference
  <2>3. Kids(g, t) \cap gone = gone
    BY DEF Kids
  <2>4. Kids(cut, t) = Kids(g, t) \ gone
    BY <1>4, <1>5 DEF Kids
  <2>5. cut.refs[t] = g.refs[t] - Cardinality(gone)
    BY <1>3, <1>5
  <2>6. Cardinality(Kids(cut, t)) = Cardinality(Kids(g, t)) - Cardinality(gone)
    BY <2>2, <2>3, <2>4
  <2> HIDE DEF gone
  <2>7. QED
    BY <2>1, <2>5, <2>6 DEF Held
<1>9. QED
  BY <1>5, <1>6, <1>7, <1>8, HeldThrough DEF T

\* The chains reverted are whole, or are branches that never got linked.
LEMMA RevertSettles ==
  ASSUME NEW g \in Heap, LinksInOrder(g), ParentExact(g), NEW S \in SUBSET Id,
         \A p \in S : g.nx[p] # Null => g.nx[p] \in S,
         NEW k, k = RevertAll(g, S),
         NEW t \in Id, Settled(g, t) \/ t \in ParentsOf(g, S)
  PROVE  Settled(k, t)
<1>1. CASE t \in ParentsOf(g, S)
  BY <1>1, RevertFields
<1>2. CASE t \notin ParentsOf(g, S)
  <2>1. Settled(g, t) /\ (t \in k.flag <=> t \in g.flag)
    BY <1>2, RevertFields
  <2>2. k \in Heap /\ SameLists(g, k) /\ CutFrom(g, k, S)
    BY RevertAllLemma
  <2>3. ToSet(g.pfx[t]) \subseteq Id
    BY HeapFields, ToSetType
  <2>4. ASSUME NEW q \in Id, q \in S, q \in ToSet(g.pfx[t])
        PROVE  ~IsAlternative(g, q) /\ ~IsAlternative(k, q)
    <3>1. g.par[q] = Null
      BY <1>2, <2>4 DEF ParentExact, ParentsOf
    <3>2. g.pv[q] = Null
      BY <3>1 DEF LinksInOrder
    <3>3. QED
      BY <2>2, <2>4, <3>2 DEF CutFrom, IsAlternative
  <2>5. ASSUME NEW q \in Id, q \notin S
        PROVE  IsAlternative(k, q) <=> IsAlternative(g, q)
    <3>1. k.kind[q] = g.kind[q] /\ k.pv[q] = g.pv[q] /\ k.par[q] = g.par[q]
      BY <2>2, <2>5 DEF CutFrom
    <3>2. CASE g.pv[q] = Null
      BY <3>1, <3>2 DEF IsAlternative
    <3>3. CASE g.pv[q] # Null
      <4>1. g.pv[q] \in Id /\ g.nx[g.pv[q]] = q /\ q # Null
        BY <3>3, HeapFields, NullOutside DEF LinksInOrder
      <4>2. g.pv[q] \notin S
        BY <2>5, <4>1
      <4>3. k.par[g.pv[q]] = g.par[g.pv[q]]
        BY <2>2, <4>1, <4>2 DEF CutFrom
      <4>4. QED
        BY <3>1, <4>3 DEF IsAlternative
    <3>4. QED
      BY <3>2, <3>3
  <2>6. \A q \in ToSet(g.pfx[t]) : IsAlternative(k, q) <=> IsAlternative(g, q)
    BY <2>3, <2>4, <2>5
  <2>7. HasBranch(k, t) <=> HasBranch(g, t)
    BY <2>2, <2>6 DEF HasBranch, SameLists
  <2>8. QED
    BY <2>1, <2>7 DEF Settled
<1>3. QED
  BY <1>1, <1>2

\* All tokens are settled but those having a prefix among B.
FlagsBut(g, B) ==
    \A t \in Id : (\A p \in ToSet(g.pfx[t]) : p \notin B) => Settled(g, t)

LEMMA MovedHeld ==
  ASSUME NEW g \in Heap, NEW src \in Id, NEW dst \in Id, src # dst,
         ParentExact(g), BranchesParented(g),
         NEW k, NEW moved, NEW kept, Moved(g, k, moved, kept, src, dst)
  PROVE  SameHeld(g, k)
<1> SUFFICES ASSUME NEW t \in Id
             PROVE  Held(k, t) = Held(g, t)
  BY DEF SameHeld
<1> DEFINE B == BranchesOf(g, moved)
<1>1. /\ \A p \in Id : k.par[p] = IF p \in B THEN dst ELSE g.par[p]
      /\ k.refs[dst] = g.refs[dst] + Cardinality(B)
      /\ k.refs[src] = g.refs[src] - Cardinality({p \in B : g.par[p] = src})
      /\ \A u \in Id \ {src, dst} : k.refs[u] = g.refs[u]
  BY DEF Moved
<1>2. B \in SUBSET Id /\ \A p \in B : g.par[p] = src
  <2>1. B \in SUBSET Id /\ B \subseteq ToSet(g.pfx[src])
    BY ToSetType DEF BranchesOf, Moved
  <2>2. QED
    BY <2>1 DEF BranchesOf, ParentExact, BranchesParented
<1> HIDE DEF B
<1>3. /\ IsFiniteSet(Kids(g, t)) /\ Cardinality(Kids(g, t)) \in Nat /\ g.refs[t] \in Int
      /\ IsFiniteSet(B) /\ Cardinality(B) \in Nat
  <2>1. IsFiniteSet(B)
    BY <1>2, FiniteIds, FS_Subset
  <2>2. QED
    BY <1>2, <2>1, KidsCount, CountOfIds, HeapFields
<1>4. CASE t = dst
  <2>1. Kids(k, t) = Kids(g, t) \cup B /\ Kids(g, t) \cap B = {}
    BY <1>1, <1>2, <1>4 DEF Kids
  <2>2. Cardinality(Kids(g, t) \cup B)
            = Cardinality(Kids(g, t)) + Cardinality(B) - Cardinality(Kids(g, t) \cap B)
    BY <1>3, FS_Union
  <2>3. Cardinality(Kids(g, t) \cap B) = 0
    BY <2>1, FS_EmptySet
  <2>4. QED
    BY <1>1, <1>3, <1>4, <2>1, <2>2, <2>3 DEF Held
<1>5. CASE t = src
  <2>1. /\ Kids(k, t) = Kids(g, t) \ B /\ Kids(g, t) \cap B = B
        /\ {p \in B : g.par[p] = src} = B
    BY <1>1, <1>2, <1>5 DEF Kids
  <2>2. Cardinality(Kids(g, t) \ B) = Cardinality(Kids(g, t)) - Cardinality(Kids(g, t) \cap B)
    BY <1>3, FS_Difference
  <2>3. Cardinality(Kids(k, t)) = Cardinality(Kids(g, t)) - Cardinality(B)
    BY <2>1, <2>2
  <2>4. k.refs[t] = g.refs[t] - Cardinality(B)
    BY <1>1, <1>5, <2>1
  <2>5. QED
    BY <1>3, <2>3, <2>4 DEF Held
<1>6. CASE t \notin {src, dst}
  <2>1. Kids(k, t) = Kids(g, t)
    BY <1>1, <1>2, <1>6 DEF Kids
  <2>2. QED
    BY <1>1, <1>6, <2>1 DEF Held
<1>7. QED
  BY <1>4, <1>5, <1>6

LEMMA MoveHeld ==
  ASSUME NEW g \in Heap, NEW src \in Id, NEW dst \in Id, src # dst,
         ParentExact(g), BranchesParented(g), NEW k, k = MovePrefixes(g, src, dst)
  PROVE  SameHeld(g, k)
<1>1. Moved(g, k, g.pfx[src], <<>>, src, dst)
  BY MoveFields
<1>2. QED
  BY <1>1, MovedHeld

\* A branch that came from another token still does, unless it moved.
LEMMA MovedSettles ==
  ASSUME NEW g \in Heap, NEW src \in Id, NEW dst \in Id, src # dst,
         LinksInOrder(g), ParentExact(g), BranchesParented(g),
         NEW k, NEW moved, NEW kept, Moved(g, k, moved, kept, src, dst),
         NEW B \in SUBSET Id, \A p \in B : g.kind[p] \in BranchKinds, FlagsBut(g, B)
  PROVE  FlagsBut(k, B)
<1> SUFFICES ASSUME NEW t \in Id, \A p \in ToSet(k.pfx[t]) : p \notin B
             PROVE  Settled(k, t)
  BY DEF FlagsBut
<1> DEFINE M == BranchesOf(g, moved)
<1>1. /\ k \in Heap /\ k.kind = g.kind /\ k.pv = g.pv
      /\ k.pfx[src] = kept /\ k.pfx[dst] = moved \o g.pfx[dst]
      /\ moved \in Seq(Id) /\ kept \in Seq(Id)
      /\ ToSet(g.pfx[src]) = ToSet(moved) \cup ToSet(kept)
      /\ \A u \in Id \ {src, dst} : k.pfx[u] = g.pfx[u]
      /\ \A p \in Id : k.par[p] = IF p \in M THEN dst ELSE g.par[p]
      /\ \A u \in Id \ {src, dst} : u \in k.flag <=> u \in g.flag
      /\ M = {} => k.flag = g.flag
      /\ M # {} => \A u \in {src, dst} : u \in k.flag <=> HasBranch(k, u)
  BY DEF Moved
<1>2. M = {p \in ToSet(moved) : g.kind[p] \in BranchKinds}
  BY DEF BranchesOf
<1> HIDE DEF M
<1>3. /\ ToSet(g.pfx[src]) \subseteq Id /\ ToSet(g.pfx[dst]) \subseteq Id
      /\ ToSet(g.pfx[t]) \subseteq Id
      /\ ToSet(k.pfx[src]) = ToSet(kept)
      /\ ToSet(k.pfx[dst]) = ToSet(moved) \cup ToSet(g.pfx[dst])
  <2>1. \A u \in Id : g.pfx[u] \in Seq(Id)
    BY HeapFields
  <2>2. ToSet(moved \o g.pfx[dst]) = ToSet(moved) \cup ToSet(g.pfx[dst])
    BY <1>1, <2>1, ToSetOfConcat
  <2>3. QED
    BY <1>1, <2>1, <2>2, ToSetType
<1>4. CASE t \in {src, dst} /\ M # {}
  BY <1>1, <1>4 DEF Settled
<1>5. CASE t \in {src, dst} /\ M = {}
  <2>1. k.flag = g.flag /\ \A p \in Id : k.par[p] = g.par[p] /\ g.pv[p] \in Id \cup {Null}
    BY <1>1, <1>5, HeapFields
  <2>2. \A q \in Id : IsAlternative(k, q) <=> IsAlternative(g, q)
    BY <1>1, <2>1 DEF IsAlternative
  <2>3. \A q \in ToSet(moved) : ~IsAlternative(g, q) /\ q \notin B
    BY <1>1, <1>2, <1>3, <1>5 DEF IsAlternative, BranchKinds
  <2>4. HasBranch(k, t) <=> HasBranch(g, t)
    BY <1>1, <1>3, <1>5, <2>2, <2>3 DEF HasBranch
  <2>5. \A p \in ToSet(g.pfx[t]) : p \notin B
    BY <1>1, <1>3, <1>5, <2>3
  <2>6. Settled(g, t)
    BY <2>5 DEF FlagsBut
  <2>7. QED
    BY <2>1, <2>4, <2>6 DEF Settled
<1>6. CASE t \notin {src, dst}
  <2>1. k.pfx[t] = g.pfx[t] /\ (t \in k.flag <=> t \in g.flag)
    BY <1>1, <1>6
  <2>2. Settled(g, t)
    BY <2>1 DEF FlagsBut
  <2>3. ASSUME NEW q \in ToSet(g.pfx[t])
        PROVE  IsAlternative(k, q) <=> IsAlternative(g, q)
    <3>1. q \in Id /\ g.pv[q] \in Id \cup {Null}
      BY <1>3, HeapFields
    <3>2. CASE g.pv[q] = Null
      BY <1>1, <3>2 DEF IsAlternative
    <3>3. CASE g.pv[q] # Null
      <4>1. g.par[q] # Null
        BY <3>1, <3>3 DEF LinksInOrder
      <4>2. g.par[q] = t
        BY <3>1, <4>1 DEF ParentExact
      <4>3. \A p \in M : g.par[p] = src
        BY <1>1, <1>2, <1>3 DEF ParentExact, BranchesParented
      <4>4. k.par[q] = t
        BY <1>1, <1>6, <3>1, <4>2, <4>3
      <4>5. k.par[g.pv[q]] = g.par[g.pv[q]] \/ (k.par[g.pv[q]] = dst /\ g.par[g.pv[q]] = src)
        BY <1>1, <3>1, <3>3, <4>3
      <4>6. QED
        BY <1>1, <1>6, <4>2, <4>4, <4>5 DEF IsAlternative
    <3>4. QED
      BY <3>2, <3>3
  <2>4. HasBranch(k, t) <=> HasBranch(g, t)
    BY <2>1, <2>3 DEF HasBranch
  <2>5. QED
    BY <2>1, <2>2, <2>4 DEF Settled
<1>7. QED
  BY <1>4, <1>5, <1>6

LEMMA MoveSettles ==
  ASSUME NEW g \in Heap, NEW src \in Id, NEW dst \in Id, src # dst,
         LinksInOrder(g), ParentExact(g), BranchesParented(g),
         NEW k, k = MovePrefixes(g, src, dst),
         NEW B \in SUBSET Id, \A p \in B : g.kind[p] \in BranchKinds, FlagsBut(g, B)
  PROVE  FlagsBut(k, B)
<1>1. Moved(g, k, g.pfx[src], <<>>, src, dst)
  BY MoveFields
<1>2. QED
  BY <1>1, MovedSettles


-----------------------------------------------------------------------------
(* Removing a token: lx_tokens does not hold it anymore.                     *)

RefsExactIn(g) ==
    \A t \in Id : Held(g, t) = (IF t \in ToSet(g.toks) THEN 1 ELSE 0)

LEMMA MoveApart ==
  ASSUME NEW g \in Heap, NEW src \in Id, NEW dst \in Id, src # dst,
         PrefixesOK(g), dst \in ToSet(g.toks), NEW k, k = MovePrefixes(g, src, dst)
  PROVE  PrefixesOK(k)
<1>1. /\ k \in Heap /\ k.toks = g.toks
      /\ k.pfx[src] = <<>> /\ k.pfx[dst] = g.pfx[src] \o g.pfx[dst]
      /\ \A u \in Id \ {src, dst} : k.pfx[u] = g.pfx[u]
  <2>1. Moved(g, k, g.pfx[src], <<>>, src, dst)
    BY MoveFields
  <2>2. QED
    BY <2>1 DEF Moved
<1>2. ToSet(k.pfx[dst]) = ToSet(g.pfx[src]) \cup ToSet(g.pfx[dst])
  <2>1. g.pfx[src] \in Seq(Id) /\ g.pfx[dst] \in Seq(Id)
    BY HeapFields
  <2>2. QED
    BY <1>1, <2>1, ToSetOfConcat
<1>3. ToSet(k.pfx[src]) = {}
  BY <1>1 DEF ToSet
<1>4. PrefixesApart(k)
  <2> SUFFICES ASSUME NEW t \in Id, NEW v \in Id, t # v
               PROVE  ToSet(k.pfx[t]) \cap ToSet(k.pfx[v]) = {}
    BY DEF PrefixesApart
  <2>1. \A a, b \in Id : a # b => ToSet(g.pfx[a]) \cap ToSet(g.pfx[b]) = {}
    BY DEF PrefixesOK, PrefixesApart
  <2>2. CASE t = dst
    BY <1>1, <1>2, <1>3, <2>1, <2>2
  <2>3. CASE v = dst
    BY <1>1, <1>2, <1>3, <2>1, <2>3
  <2>4. CASE t # dst /\ v # dst
    BY <1>1, <1>3, <2>1, <2>4
  <2>5. QED
    BY <2>2, <2>3, <2>4
<1>5. PrefixesListed(k)
  BY <1>1 DEF PrefixesOK, PrefixesListed
<1>6. PrefixesRead(k)
  BY <1>1, <1>2, <1>3 DEF PrefixesOK, PrefixesRead
<1>7. QED
  BY <1>4, <1>5, <1>6 DEF PrefixesOK

\* The list of tokens without t.
LEMMA RemoveFromList ==
  ASSUME NEW s \in Seq(Id), Distinct(s), NEW t \in ToSet(s),
         NEW r, r = RemoveAt(s, IndexOf(s, t))
  PROVE  r \in Seq(Id) /\ ToSet(r) = ToSet(s) \ {t}
<1> DEFINE i == IndexOf(s, t)
<1>1. i \in 1..Len(s) /\ s[i] = t /\ DOMAIN s = 1..Len(s) /\ Len(s) \in Nat
  BY IndexOfLemma
<1> HIDE DEF i
<1>2. /\ r \in Seq(Id) /\ Len(r) = Len(s) - 1
      /\ \A j \in 1..(Len(s) - 1) : r[j] = IF j < i THEN s[j] ELSE s[j + 1]
  BY <1>1, RemoveAtLemma DEF i
<1>3. DOMAIN r = 1..(Len(s) - 1) /\ i \in Int
  BY <1>1, <1>2
<1>4. ASSUME NEW j \in DOMAIN r
      PROVE  r[j] \in ToSet(s) \ {t}
  <2>1. j \in DOMAIN s /\ j + 1 \in DOMAIN s /\ j \in Int
    BY <1>1, <1>3
  <2>2. CASE j < i
    <3>1. r[j] = s[j] /\ j # i
      BY <1>2, <1>3, <2>1, <2>2
    <3>2. QED
      BY <1>1, <2>1, <3>1 DEF Distinct, ToSet
  <2>3. CASE ~(j < i)
    <3>1. r[j] = s[j + 1] /\ j + 1 # i
      BY <1>2, <1>3, <2>1, <2>3
    <3>2. QED
      BY <1>1, <2>1, <3>1 DEF Distinct, ToSet
  <2>4. QED
    BY <2>2, <2>3
<1>5. ASSUME NEW v \in ToSet(s), v # t
      PROVE  v \in ToSet(r)
  <2>1. PICK j \in 1..Len(s) : s[j] = v
    BY <1>1 DEF ToSet
  <2>2. j # i
    BY <1>1, <1>5, <2>1
  <2>3. \E m \in DOMAIN r : r[m] = v
    <3>1. CASE j < i
      <4>1. j \in DOMAIN r /\ r[j] = v
        BY <1>1, <1>2, <1>3, <2>1, <3>1
      <4>2. QED
        BY <4>1
    <3>2. CASE j > i
      <4>1. j - 1 \in DOMAIN r /\ r[j - 1] = v
        BY <1>1, <1>2, <1>3, <2>1, <3>2
      <4>2. QED
        BY <4>1
    <3>3. QED
      BY <1>1, <1>3, <2>1, <2>2, <3>1, <3>2
  <2>4. QED
    BY <2>3 DEF ToSet
<1>6. ToSet(r) = ToSet(s) \ {t}
  BY <1>4, <1>5 DEF ToSet
<1>7. QED
  BY <1>2, <1>6

LEMMA LexerRemoveSettles ==
  ASSUME NEW g \in Heap, NEW t \in Id, t \in ToSet(g.toks),
         Distinct(g.toks), Last(g.toks) # t,
         LinksInOrder(g), ParentExact(g), BranchesParented(g), PrefixesOK(g),
         RefsExactIn(g),
         NEW B \in SUBSET Id, \A p \in B : g.kind[p] \in BranchKinds, FlagsBut(g, B),
         NEW k, k = LexerRemove(g, t)
  PROVE  PrefixesOK(k) /\ RefsExactIn(k) /\ FlagsBut(k, B)
<1> DEFINE i == Index(g, t)
           u == TokenNext(g, t)
           moved == MovePrefixes(g, t, u)
           toks == RemoveAt(moved.toks, Index(g, t))
           cut == [moved EXCEPT !.toks = toks]
<1>1. g.toks \in Seq(Id)
  BY HeapFields
<1>2. i \in 1..Len(g.toks) /\ g.toks[i] = t /\ i < Len(g.toks)
  <2>1. i \in DOMAIN g.toks /\ g.toks[i] = t
    BY IndexOfLemma DEF Index
  <2>2. i # Len(g.toks)
    BY <2>1 DEF Last
  <2>3. QED
    BY <1>1, <2>1, <2>2
<1>3. u = g.toks[i + 1]
  BY <1>2 DEF TokenNext, InList
<1>4. u \in Id /\ u # t /\ u \in ToSet(g.toks)
  <2>1. i + 1 \in DOMAIN g.toks /\ i + 1 # i
    BY <1>1, <1>2
  <2>2. QED
    BY <1>1, <1>2, <1>3, <2>1 DEF Distinct, ToSet
<1>5. k = Rele(cut, t)
  BY DEF LexerRemove
<1> HIDE DEF u
<1>6. moved \in Heap /\ moved.toks = g.toks /\ moved.pfx[t] = <<>>
  <2>1. Moved(g, moved, g.pfx[t], <<>>, t, u)
    BY <1>4, MoveFields
  <2>2. QED
    BY <2>1 DEF Moved
<1>7. SameHeld(g, moved) /\ FlagsBut(moved, B) /\ PrefixesOK(moved)
  BY <1>4, MoveHeld, MoveSettles, MoveApart
<1> HIDE DEF moved
<1>8. toks \in Seq(Id) /\ ToSet(toks) = ToSet(g.toks) \ {t}
  BY <1>1, <1>6, RemoveFromList DEF Index
<1> HIDE DEF toks
<1>9. /\ cut \in Heap /\ SameLinks(moved, cut) /\ cut.pfx = moved.pfx
      /\ cut.toks = toks /\ cut.refs = moved.refs /\ cut.flag = moved.flag
  BY <1>6, <1>8 DEF Heap, SameLinks
<1> HIDE DEF cut
<1>10. /\ k \in Heap /\ SameLinks(cut, k) /\ SameLists(cut, k) /\ k.flag = cut.flag
       /\ \A v \in Id : k.refs[v] = cut.refs[v] - (IF v = t THEN 1 ELSE 0)
  BY <1>5, <1>9, ReleLemma, RefFields
<1>11. SameLinks(moved, k) /\ k.pfx = moved.pfx /\ k.toks = toks /\ k.flag = moved.flag
  BY <1>9, <1>10 DEF SameLinks, SameLists
<1>12. PrefixesOK(k)
  BY <1>6, <1>7, <1>8, <1>11 DEF PrefixesOK, PrefixesApart, PrefixesListed, PrefixesRead
<1>13. FlagsBut(k, B)
  <2>1. \A v : HasBranch(k, v) <=> HasBranch(moved, v)
    BY <1>11, FoundAlike
  <2>2. QED
    BY <1>7, <1>11, <2>1 DEF FlagsBut, Settled
<1>14. RefsExactIn(k)
  <2> SUFFICES ASSUME NEW v \in Id
               PROVE  Held(k, v) = (IF v \in ToSet(k.toks) THEN 1 ELSE 0)
    BY DEF RefsExactIn
  <2>1. Held(moved, v) = (IF v \in ToSet(g.toks) THEN 1 ELSE 0)
    BY <1>7 DEF SameHeld, RefsExactIn
  <2>2. Kids(k, v) = Kids(moved, v)
    BY <1>11 DEF Kids, SameLinks
  <2>3. moved.refs[v] \in Int /\ Cardinality(Kids(moved, v)) \in Nat
    BY <1>6, HeapFields, KidsCount
  <2>4. k.refs[v] = moved.refs[v] - (IF v = t THEN 1 ELSE 0)
    BY <1>9, <1>10
  <2>5. Held(k, v) = Held(moved, v) - (IF v = t THEN 1 ELSE 0)
    BY <2>2, <2>3, <2>4 DEF Held
  <2>6. v \in ToSet(k.toks) <=> v \in ToSet(g.toks) /\ v # t
    BY <1>8, <1>11
  <2>7. QED
    BY <2>1, <2>5, <2>6
<1>15. QED
  BY <1>12, <1>13, <1>14

-----------------------------------------------------------------------------
(* The inductive invariant, and what reading keeps of it.                    *)

\* The branches of the chains that are still open: their flags tell nothing yet.
Open == Back(h, ToSet(stack))

RInv ==
    /\ IInv
    /\ PrefixesOK(h)
    /\ RefsExactIn(h)
    /\ FlagsBut(h, Open)

LEMMA BackOfLinks ==
  ASSUME NEW g, NEW k, k.pv = g.pv, NEW S
  PROVE  Back(k, S) = Back(g, S)
  BY DEF Back, ClosedUnderPv

LEMMA BackOfNone ==
  ASSUME NEW g
  PROVE  Back(g, {}) = {}
<1>1. {} \in {C \in SUBSET Pos : {} \subseteq C /\ ClosedUnderPv(g, C)}
  BY DEF ClosedUnderPv
<1>2. QED
  BY <1>1 DEF Back

\* The branches of the chains of S have parents when those of S do.
LEMMA BackParented ==
  ASSUME NEW g \in Heap, LinksInOrder(g), NEW S \in SUBSET Pos,
         \A p \in S : g.par[p] # Null
  PROVE  /\ Back(g, S) \in SUBSET Id
         /\ \A p \in Back(g, S) : g.par[p] # Null /\ g.kind[p] \in BranchKinds
<1> DEFINE C == {q \in Pos : g.par[q] # Null}
<1>1. ClosedUnderPv(g, C)
  <2> SUFFICES ASSUME NEW q \in Pos, g.par[q] # Null, g.pv[q] # Null
               PROVE  g.pv[q] \in Pos /\ g.par[g.pv[q]] # Null
    BY DEF ClosedUnderPv
  <2>1. g.pv[q] \in Id /\ q \in Id /\ q # Null
    BY HeapFields, NullOutside
  <2>2. g.pv[q] < q /\ g.nx[g.pv[q]] = q
    BY <2>1 DEF LinksInOrder
  <2>3. g.pv[q] \in Pos
    BY <2>1, <2>2, MaxLenAssumption DEF Pos, Id
  <2>4. QED
    BY <2>1, <2>2, <2>3 DEF LinksInOrder
<1>2. S \subseteq C /\ C \in SUBSET Pos
  OBVIOUS
<1>3. Back(g, S) \subseteq C
  BY <1>1, <1>2, BackLemma
<1>4. QED
  BY <1>3, NullOutside DEF LinksInOrder

LEMMA OpenFacts ==
  ASSUME IInv
  PROVE  /\ ToSet(stack) \in SUBSET Pos
         /\ Open \in SUBSET Id
         /\ \A p \in Open : h.par[p] # Null /\ h.kind[p] \in BranchKinds
<1>1. h \in Heap /\ LinksInOrder(h) /\ stack \in Seq(Pos)
  BY DEF IInv, TypeOK, ChainsWellFormed
<1>2. ToSet(stack) \in SUBSET Pos
  BY <1>1, ToSetType
<1>3. \A p \in ToSet(stack) : h.par[p] # Null
  BY DEF IInv, StackOK, ToSet
<1>4. QED
  BY <1>1, <1>2, <1>3, BackParented DEF Open

LEMMA RFacts ==
  ASSUME RInv
  PROVE  h \in Heap /\ LinksInOrder(h) /\ ParentsHoldIn(h) /\ ParentExact(h)
<1>1. h \in Heap /\ LinksInOrder(h) /\ ParentsHoldIn(h)
  BY DEF RInv, IInv, TypeOK, ChainsWellFormed
<1>2. QED
  BY <1>1, ParentsAreExact DEF RInv, PrefixesOK

LEMMA RStep ==
  ASSUME IInv', tk' = tk, PrefixesOK(h'), RefsExactIn(h'),
         FlagsBut(h', Back(h', ToSet(stack')))
  PROVE  RInv'
  BY DEF RInv, Open, PrefixesOK, PrefixesRead

\* The same prefixes and tokens, and the same count: the flags are left.
LEMMA SameListsStep ==
  ASSUME RInv, IInv', tk' = tk, h' \in Heap, SameLists(h, h'), SameHeld(h, h'),
         FlagsBut(h', Back(h', ToSet(stack')))
  PROVE  RInv'
<1>1. PrefixesOK(h')
  BY DEF RInv, PrefixesOK, PrefixesApart, PrefixesListed, PrefixesRead, SameLists
<1>2. RefsExactIn(h')
  BY DEF RInv, RefsExactIn, SameHeld, SameLists
<1>3. QED
  BY <1>1, <1>2, RStep

LEMMA PrefixRefs ==
  ASSUME RInv, NEW kind \in BranchKinds \cup {"cpp"}, ReadPrefix(kind)
  PROVE  RInv'
<1>1. /\ h \in Heap /\ rd < MaxLen /\ h' = [h EXCEPT !.kind[rd] = kind]
      /\ stack' = stack /\ tk' = tk /\ IInv /\ IInv'
  BY PrefixStep, RFacts DEF ReadPrefix, RInv
<1>2. rd \in 1..(MaxLen + 1) /\ MaxLen \in Nat /\ lk \in 0..tk /\ tk < rd /\ tk \in Nat
  BY MaxLenAssumption DEF RInv, IInv, TypeOK
<1>3. rd \in Id /\ rd >= lk
  BY <1>1, <1>2 DEF Id
<1>4. /\ h' \in Heap /\ h'.pv = h.pv /\ h'.par = h.par /\ SameLists(h, h')
      /\ h'.refs = h.refs /\ h'.flag = h.flag
      /\ \A p \in Id : p # rd => h'.kind[p] = h.kind[p]
  BY <1>1, <1>3 DEF Heap, SameLists, IInv, TypeOK
<1>5. h.pv[rd] = Null
  BY <1>3 DEF RInv, IInv, ReadOK, ChainsWellFormed, LinksInOrder
<1>6. \A q \in Id : IsAlternative(h', q) <=> IsAlternative(h, q)
  BY <1>4, <1>5 DEF IsAlternative
<1>7. \A t \in Id : ToSet(h.pfx[t]) \subseteq Id
  BY <1>1, HeapFields, ToSetType
<1>8. \A t \in Id : Settled(h', t) <=> Settled(h, t)
  BY <1>4, <1>6, <1>7 DEF Settled, HasBranch, SameLists
<1>9. Back(h', ToSet(stack')) = Open
  BY <1>1, <1>4, BackOfLinks DEF Open
<1>10. FlagsBut(h', Back(h', ToSet(stack')))
  BY <1>4, <1>8, <1>9 DEF FlagsBut, RInv, SameLists
<1>11. SameHeld(h, h')
  BY <1>4, HeldAlike
<1>12. QED
  BY <1>1, <1>4, <1>10, <1>11, SameListsStep

LEMMA TokenRefs ==
  ASSUME RInv, NEW kind \in {"tok", "eof"}, ReadToken(kind)
  PROVE  RInv'
<1> DEFINE ahead == [i \in 1..(rd - lo) |-> lo + i - 1]
<1>1. /\ h \in Heap /\ rd <= MaxLen /\ tk' = rd /\ stack' = stack /\ IInv /\ IInv' /\ h' \in Heap
      /\ h' = [h EXCEPT !.kind[rd] = kind, !.pfx[rd] = ahead,
                        !.refs[rd] = 1, !.toks = Append(h.toks, rd)]
  <2>1. IInv'
    BY TokenStep DEF RInv
  <2>2. h' \in Heap
    BY <2>1 DEF IInv, TypeOK
  <2>3. QED
    BY <2>1, <2>2, RFacts DEF ReadToken, RInv
<1>2. /\ rd \in 1..(MaxLen + 1) /\ MaxLen \in Nat /\ lk \in 0..tk /\ tk < rd /\ tk \in Nat
      /\ lo = tk + 1
  BY MaxLenAssumption DEF RInv, IInv, TypeOK, ReadOK
<1>3. rd \in Id /\ rd \in Nat
  BY <1>1, <1>2 DEF Id
<1>4. \A p \in ToSet(ahead) : p \in Int /\ tk < p /\ p < rd
  BY <1>2, <1>3 DEF ToSet
<1> HIDE DEF ahead
<1>5. /\ h'.pv = h.pv /\ h'.par = h.par /\ h'.flag = h.flag
      /\ h'.kind = [h.kind EXCEPT ![rd] = kind] /\ h'.pfx = [h.pfx EXCEPT ![rd] = ahead]
      /\ h'.refs = [h.refs EXCEPT ![rd] = 1] /\ h'.toks = Append(h.toks, rd)
  <2>1. h' = [h EXCEPT !.kind = [h.kind EXCEPT ![rd] = kind],
                       !.pfx = [h.pfx EXCEPT ![rd] = ahead],
                       !.refs = [h.refs EXCEPT ![rd] = 1], !.toks = Append(h.toks, rd)]
    BY <1>1
  <2>2. QED
    BY <1>1, <2>1 DEF Heap
<1>6. /\ h'.pfx[rd] = ahead /\ h'.refs[rd] = 1
      /\ \A t \in Id : t # rd => /\ h'.pfx[t] = h.pfx[t] /\ h'.kind[t] = h.kind[t]
                                 /\ h'.refs[t] = h.refs[t]
  BY <1>1, <1>3, <1>5, HeapFields
<1>7. ToSet(h'.toks) = ToSet(h.toks) \cup {rd}
  <2>1. h.toks \in Seq(Id)
    BY <1>1, HeapFields
  <2> DEFINE last == <<rd>>
  <2>2. h'.toks = h.toks \o last /\ last \in Seq(Id)
    BY <1>3, <1>5, <2>1
  <2>3. ToSet(last) = {rd}
    BY DEF ToSet
  <2> HIDE DEF last
  <2>4. ToSet(h.toks \o last) = ToSet(h.toks) \cup ToSet(last)
    BY <2>1, <2>2, ToSetOfConcat
  <2>5. QED
    BY <2>2, <2>3, <2>4
<1>8. /\ rd \notin ToSet(h.toks)
      /\ \A t \in Id : rd \notin ToSet(h.pfx[t])
  <2>1. h.toks \in Seq(Id) /\ \A t \in Id : h.pfx[t] \in Seq(Id)
    BY <1>1, HeapFields
  <2>2. \A t \in ToSet(h.toks) : t <= tk
    BY DEF RInv, IInv, ListOK, ToSet
  <2>3. \A t \in Id : \A p \in ToSet(h.pfx[t]) : p <= tk
    BY DEF RInv, PrefixesOK, PrefixesRead
  <2>4. QED
    BY <1>2, <1>3, <2>2, <2>3
<1>9. h.pfx[rd] = <<>> /\ Kids(h, rd) = {} /\ h.par[rd] = Null /\ h.pv[rd] = Null
  <2>1. h.pfx[rd] = <<>>
    BY <1>3, <1>8 DEF RInv, PrefixesOK, PrefixesListed
  <2>2. Kids(h, rd) = {}
    BY <1>3, <1>8, NullOutside DEF Kids, RInv, IInv, ParentsHoldIn
  <2>3. h.par[rd] = Null
    BY <1>2, <1>3 DEF RInv, IInv, ReadOK
  <2>4. QED
    BY <1>3, <2>1, <2>2, <2>3, RFacts DEF LinksInOrder
<1>10. PrefixesOK(h)'
  <2>1. \A t \in Id : t # rd => ToSet(h'.pfx[t]) \cap ToSet(ahead) = {}
    <3> SUFFICES ASSUME NEW t \in Id, t # rd, NEW p \in ToSet(h.pfx[t]), p \in ToSet(ahead)
                 PROVE  FALSE
      BY <1>6
    <3>1. p <= tk /\ tk < p /\ p \in Int
      BY <1>4 DEF RInv, PrefixesOK, PrefixesRead
    <3>2. QED
      BY <1>2, <3>1
  <2>2. PrefixesApart(h')
    BY <1>6, <2>1 DEF RInv, PrefixesOK, PrefixesApart
  <2>3. PrefixesListed(h')
    BY <1>6, <1>7 DEF RInv, PrefixesOK, PrefixesListed
  <2>4. PrefixesRead(h)'
    <3> SUFFICES ASSUME NEW t \in Id, NEW p \in ToSet(h'.pfx[t])
                 PROVE  p <= rd
      BY <1>1 DEF PrefixesRead
    <3>1. CASE t = rd
      BY <1>3, <1>4, <1>6, <3>1
    <3>2. CASE t # rd
      <4>1. p \in ToSet(h.pfx[t]) /\ h.pfx[t] \in Seq(Id)
        BY <1>1, <1>6, <3>2, HeapFields
      <4>2. p <= tk /\ p \in Id
        BY <4>1, ToSetType DEF RInv, PrefixesOK, PrefixesRead
      <4>3. QED
        BY <1>2, <1>3, <4>2, NullOutside
    <3>3. QED
      BY <3>1, <3>2
  <2>5. QED
    BY <2>2, <2>3, <2>4 DEF PrefixesOK
<1>11. RefsExactIn(h')
  <2> SUFFICES ASSUME NEW t \in Id
               PROVE  Held(h', t) = (IF t \in ToSet(h'.toks) THEN 1 ELSE 0)
    BY DEF RefsExactIn
  <2>1. Kids(h', t) = Kids(h, t)
    BY <1>5 DEF Kids
  <2>2. CASE t = rd
    <3>1. Cardinality(Kids(h', t)) = 0
      BY <1>9, <2>1, <2>2, FS_EmptySet
    <3>2. QED
      BY <1>6, <1>7, <2>2, <3>1 DEF Held
  <2>3. CASE t # rd
    <3>1. Held(h', t) = Held(h, t)
      BY <1>6, <2>1, <2>3 DEF Held
    <3>2. QED
      BY <1>7, <2>3, <3>1 DEF RInv, RefsExactIn
  <2>4. QED
    BY <2>2, <2>3
<1>12. FlagsBut(h', Open)
  <2> SUFFICES ASSUME NEW t \in Id, \A p \in ToSet(h'.pfx[t]) : p \notin Open
               PROVE  Settled(h', t)
    BY DEF FlagsBut
  <2>1. \A t_ \in Id : ToSet(h.pfx[t_]) \subseteq Id
    BY <1>1, HeapFields, ToSetType
  <2>2. \A q \in Id : q # rd => (IsAlternative(h', q) <=> IsAlternative(h, q))
    BY <1>5, <1>6 DEF IsAlternative
  <2>3. CASE t = rd
    <3>1. Settled(h, rd)
      BY <1>3, <1>9 DEF RInv, FlagsBut, ToSet
    <3>2. ~HasBranch(h, rd)
      BY <1>9 DEF HasBranch, ToSet
    <3>3. ASSUME NEW q \in ToSet(ahead)
          PROVE  ~IsAlternative(h', q)
      <4>1. q \in Int /\ tk < q /\ q < rd
        BY <1>4
      <4>2. q \in Id /\ q >= lk
        BY <1>1, <1>2, <4>1 DEF Id
      <4>3. h.pv[q] = Null
        BY <4>2, RFacts DEF RInv, IInv, ReadOK, LinksInOrder
      <4>4. QED
        BY <1>5, <4>3 DEF IsAlternative
    <3>4. ~HasBranch(h', rd)
      BY <1>6, <3>3 DEF HasBranch
    <3>5. QED
      BY <1>5, <2>3, <3>1, <3>2, <3>4 DEF Settled
  <2>4. CASE t # rd
    <3>1. h'.pfx[t] = h.pfx[t] /\ Settled(h, t)
      BY <1>6, <2>4 DEF RInv, FlagsBut
    <3>2. HasBranch(h', t) <=> HasBranch(h, t)
      BY <1>8, <2>1, <2>2, <3>1 DEF HasBranch
    <3>3. QED
      BY <1>5, <3>1, <3>2 DEF Settled
  <2>5. QED
    BY <2>3, <2>4
<1>13. Open' = Open
  <2>1. Back(h', ToSet(stack)) = Back(h, ToSet(stack))
    BY <1>5, BackOfLinks
  <2>2. QED
    BY <1>1, <2>1 DEF Open
<1>14. QED
  BY <1>1, <1>10, <1>11, <1>12, <1>13 DEF RInv

-----------------------------------------------------------------------------
(* Linking.                                                                  *)

LEMMA OpenWithin ==
  ASSUME IInv, NEW k \in Heap, LinksInOrder(k), NEW S \in SUBSET Pos,
         ToSet(stack) \subseteq Back(k, S),
         \A q \in Id : h.pv[q] # Null => k.pv[q] = h.pv[q]
  PROVE  Open \subseteq Back(k, S)
<1>1. Back(k, S) \in SUBSET Pos /\ ClosedUnderPv(k, Back(k, S))
  BY BackLemma
<1>2. ClosedUnderPv(h, Back(k, S))
  BY <1>1, NullOutside DEF ClosedUnderPv
<1>3. h \in Heap /\ LinksInOrder(h) /\ ToSet(stack) \in SUBSET Pos
  BY OpenFacts DEF IInv, TypeOK, ChainsWellFormed
<1>4. QED
  BY <1>1, <1>2, <1>3, BackLemma DEF Open

LEMMA FlagsKept ==
  ASSUME NEW g \in Heap, NEW k, k.pfx = g.pfx, k.flag = g.flag,
         NEW B, NEW C, B \subseteq C, FlagsBut(g, B),
         NEW D \in SUBSET Id, D \subseteq C,
         \A q \in Id \ D : IsAlternative(k, q) <=> IsAlternative(g, q)
  PROVE  FlagsBut(k, C)
<1> SUFFICES ASSUME NEW t \in Id, \A p \in ToSet(k.pfx[t]) : p \notin C
             PROVE  Settled(k, t)
  BY DEF FlagsBut
<1>1. Settled(g, t)
  BY DEF FlagsBut
<1>2. \A q \in D : q \notin ToSet(g.pfx[t])
  OBVIOUS
<1>3. QED
  BY <1>1, <1>2, SettledBut

LEMMA EnterRefs ==
  ASSUME RInv, BranchEnter
  PROVE  RInv'
<1>1. /\ phase = "read" /\ lk < tk /\ h.kind[lk] = "if" /\ IInv /\ IInv'
      /\ h' = SetParent(h, lk, tk) /\ stack' = Append(stack, lk) /\ tk' = tk
  BY EnterStep DEF BranchEnter, Linking, RInv
<1>2. /\ lk \in Id /\ lk \in Pos /\ tk \in Id /\ h.nx[lk] = Null /\ h.pv[lk] = Null
      /\ h \in Heap /\ LinksInOrder(h) /\ stack \in Seq(Pos)
  BY <1>1, LinkingFacts, RFacts DEF IInv, TypeOK
<1>3. /\ h' \in Heap /\ h'.kind = h.kind /\ h'.pv = h.pv
      /\ h'.par = [h.par EXCEPT ![lk] = tk] /\ SameLists(h, h')
      /\ SameHeld(h, h') /\ h'.flag = h.flag
  BY <1>1, <1>2, SetParentLemma, SetParentHeld
<1>4. \A q \in Id : IsAlternative(h', q) <=> IsAlternative(h, q)
  <2> SUFFICES ASSUME NEW q \in Id, h.kind[q] = "else", h.pv[q] # Null
               PROVE  h'.par[q] = h.par[q] /\ h'.par[h.pv[q]] = h.par[h.pv[q]]
    BY <1>3 DEF IsAlternative
  <2>1. q # lk /\ h.pv[q] # lk
    BY <1>1, <1>2, NullOutside DEF LinksInOrder
  <2>2. QED
    BY <1>2, <1>3, <2>1, HeapFields
<1>5. ToSet(stack') \in SUBSET Pos /\ ToSet(stack) \subseteq ToSet(stack')
  <2>1. stack' \in Seq(Pos)
    BY <1>1, <1>2
  <2>2. \A i \in DOMAIN stack : i \in DOMAIN stack' /\ stack'[i] = stack[i]
    BY <1>1, <1>2
  <2>3. QED
    BY <2>1, <2>2, ToSetType DEF ToSet
<1>6. LinksInOrder(h')
  BY <1>1 DEF IInv, ChainsWellFormed
<1>7. ToSet(stack') \subseteq Back(h', ToSet(stack'))
  BY <1>3, <1>5, <1>6, BackLemma
<1>8. Open \subseteq Back(h', ToSet(stack'))
  BY <1>1, <1>3, <1>5, <1>6, <1>7, OpenWithin
<1>9. FlagsBut(h', Back(h', ToSet(stack')))
  <2>1. h'.pfx = h.pfx /\ FlagsBut(h, Open)
    BY <1>3 DEF SameLists, RInv
  <2>2. {} \in SUBSET Id /\ {} \subseteq Back(h', ToSet(stack'))
    OBVIOUS
  <2>3. QED
    BY <1>2, <1>3, <1>4, <1>8, <2>1, <2>2, FlagsKept
<1>10. QED
  BY <1>1, <1>3, <1>9, SameListsStep

\* The link made by BranchLink and BranchLeave, once more.
LEMMA TopFields ==
  ASSUME RInv, phase = "read", lk < tk, h.kind[lk] \in {"else", "endif"},
         stack # <<>>, NEW k, k = LinkToTop(h)
  PROVE  /\ k \in Heap /\ SameLists(h, k) /\ LinksInOrder(k) /\ ParentsHoldIn(k)
         /\ SameHeld(h, k) /\ k.flag = h.flag
         /\ k.pv[lk] = Last(stack)
         /\ \A q \in Id : q # lk => k.pv[q] = h.pv[q]
         /\ \A q \in Id \ {lk} : IsAlternative(k, q) <=> IsAlternative(h, q)
<1> DEFINE s == Last(stack)
           g == SetParent(h, lk, tk)
<1>0. IInv
  BY DEF RInv
<1>1. /\ lk \in Id /\ tk \in Id /\ h.par[lk] = Null /\ h.pv[lk] = Null /\ h.nx[lk] = Null
      /\ h \in Heap /\ LinksInOrder(h)
  BY <1>0, LinkingFacts, RFacts
<1>2. /\ k \in Heap /\ SameLists(h, k) /\ LinksInOrder(k) /\ ParentsHoldIn(k)
      /\ s \in Id /\ s # lk /\ k.kind = h.kind
      /\ \A p \in Id : p # lk => k.par[p] = h.par[p]
  BY <1>0, LinkToTopLemma
<1> HIDE DEF s
<1>3. /\ g \in Heap /\ g.pv = h.pv /\ SameHeld(h, g) /\ g.flag = h.flag
  BY <1>1, SetParentLemma, SetParentHeld
<1>4. k = [g EXCEPT !.nx[s] = lk, !.pv[lk] = s]
  BY DEF LinkToTop, Link, s
<1> HIDE DEF g
<1>5. k.refs = g.refs /\ k.par = g.par /\ k.flag = g.flag /\ k.pv = [g.pv EXCEPT ![lk] = s]
  <2>1. k = [g EXCEPT !.nx = [g.nx EXCEPT ![s] = lk], !.pv = [g.pv EXCEPT ![lk] = s]]
    BY <1>4
  <2>2. QED
    BY <1>3, <2>1 DEF Heap
<1>6. SameHeld(h, k)
  BY <1>3, <1>5, HeldAlike, HeldThrough
<1>7. k.pv[lk] = s /\ \A q \in Id : q # lk => k.pv[q] = h.pv[q]
  BY <1>1, <1>3, <1>5, HeapFields
<1>8. \A q \in Id \ {lk} : IsAlternative(k, q) <=> IsAlternative(h, q)
  <2> SUFFICES ASSUME NEW q \in Id, q # lk, h.pv[q] # Null
               PROVE  k.par[q] = h.par[q] /\ k.par[h.pv[q]] = h.par[h.pv[q]]
    BY <1>2, <1>7 DEF IsAlternative
  <2>1. h.pv[q] # lk /\ h.pv[q] \in Id
    BY <1>1, HeapFields, NullOutside DEF LinksInOrder
  <2>2. QED
    BY <1>2, <2>1
<1>9. QED
  BY <1>2, <1>3, <1>5, <1>6, <1>7, <1>8 DEF s

\* A branch without an #if is reverted.
LEMMA OrphanRefs ==
  ASSUME RInv, IInv', phase = "read", lk < tk, tk' = tk,
         stack' = stack, h' = RevertAll(h, {lk})
  PROVE  RInv'
<1>1. /\ IInv /\ lk \in Id /\ {lk} \in SUBSET Id
      /\ h.par[lk] = Null /\ h.pv[lk] = Null /\ h.nx[lk] = Null
      /\ h \in Heap /\ LinksInOrder(h) /\ ParentExact(h)
  BY LinkingFacts, RFacts DEF RInv
<1>2. h' \in Heap /\ SameLists(h, h') /\ CutFrom(h, h', {lk})
  BY <1>1, RevertAllLemma
<1>3. SameHeld(h, h')
  BY <1>1, RevertFields
<1>4. \A t \in Id : Settled(h, t) => Settled(h', t)
  <2>1. \A p \in {lk} : h.nx[p] # Null => h.nx[p] \in {lk}
    BY <1>1
  <2>2. QED
    BY <1>1, <2>1, RevertSettles
<1>5. h'.pv = h.pv
  <2>1. \A p \in Id : h'.pv[p] = h.pv[p]
    BY <1>1, <1>2 DEF CutFrom
  <2>2. h'.pv \in [Id -> Id \cup {Null}] /\ h.pv \in [Id -> Id \cup {Null}]
    BY <1>1, <1>2, HeapFields
  <2>3. QED
    BY <2>1, <2>2
<1>6. Back(h', ToSet(stack')) = Open
  <2>1. Back(h', ToSet(stack)) = Back(h, ToSet(stack))
    BY <1>5, BackOfLinks
  <2>2. QED
    BY <2>1 DEF Open
<1>7. FlagsBut(h', Back(h', ToSet(stack')))
  BY <1>2, <1>4, <1>6 DEF FlagsBut, SameLists, RInv
<1>8. QED
  BY <1>2, <1>3, <1>7, SameListsStep

LEMMA LinkRefs ==
  ASSUME RInv, BranchLink
  PROVE  RInv'
<1>1. /\ phase = "read" /\ lk < tk /\ h.kind[lk] = "else" /\ IInv /\ IInv' /\ tk' = tk
  BY BranchLinkStep DEF BranchLink, Linking, RInv
<1>2. CASE stack = <<>>
  BY <1>1, <1>2, OrphanRefs DEF BranchLink
<1>3. CASE stack # <<>>
  <2> DEFINE s == Last(stack)
             n == Len(stack)
  <2>1. h' = LinkToTop(h) /\ stack' = [stack EXCEPT ![n] = lk]
    BY <1>3 DEF BranchLink
  <2>2. /\ h' \in Heap /\ SameLists(h, h') /\ LinksInOrder(h')
        /\ SameHeld(h, h') /\ h'.flag = h.flag /\ h'.pv[lk] = s
        /\ \A q \in Id : q # lk => h'.pv[q] = h.pv[q]
        /\ \A q \in Id \ {lk} : IsAlternative(h', q) <=> IsAlternative(h, q)
    BY <1>1, <1>3, <2>1, TopFields
  <2>3. /\ lk \in Id /\ lk \in Pos /\ stack \in Seq(Pos) /\ h.pv[lk] = Null
        /\ s = stack[n] /\ n \in DOMAIN stack /\ s \in Pos
    <3>1. stack \in Seq(Pos)
      BY <1>1 DEF IInv, TypeOK
    <3>2. n \in DOMAIN stack /\ s = stack[n]
      BY <1>3, <3>1 DEF Last
    <3>3. QED
      BY <1>1, <3>1, <3>2, LinkingFacts, ElementsOf
  <2> HIDE DEF s, n
  <2>4. /\ ToSet(stack') \in SUBSET Pos /\ lk \in ToSet(stack')
        /\ ToSet(stack) \subseteq ToSet(stack') \cup {s}
    <3>1. /\ stack' \in Seq(Pos) /\ DOMAIN stack' = DOMAIN stack /\ stack'[n] = lk
          /\ \A i \in DOMAIN stack : i # n => stack'[i] = stack[i]
      BY <2>1, <2>3
    <3>2. QED
      BY <2>3, <3>1, ToSetType DEF ToSet
  <2>5. /\ ToSet(stack') \subseteq Back(h', ToSet(stack'))
        /\ ClosedUnderPv(h', Back(h', ToSet(stack')))
    BY <2>2, <2>4, BackLemma
  <2>6. s \in Back(h', ToSet(stack'))
    BY <2>2, <2>3, <2>4, <2>5, NullOutside DEF ClosedUnderPv
  <2>7. Open \subseteq Back(h', ToSet(stack'))
    BY <1>1, <2>2, <2>3, <2>4, <2>5, <2>6, OpenWithin
  <2>8. FlagsBut(h', Back(h', ToSet(stack')))
    <3>1. h'.pfx = h.pfx /\ FlagsBut(h, Open) /\ h \in Heap
      BY <2>2, RFacts DEF SameLists, RInv
    <3>2. {lk} \in SUBSET Id /\ {lk} \subseteq Back(h', ToSet(stack'))
      BY <2>3, <2>4, <2>5
    <3>3. QED
      BY <2>2, <2>7, <3>1, <3>2, FlagsKept
  <2>9. QED
    BY <1>1, <2>2, <2>8, SameListsStep
<1>4. QED
  BY <1>2, <1>3

\* The chain that ends is no more open: the tokens of its branches are settled.
LEMMA LeaveRefs ==
  ASSUME RInv, BranchLeave
  PROVE  RInv'
<1>1. /\ phase = "read" /\ lk < tk /\ h.kind[lk] = "endif" /\ IInv /\ IInv' /\ tk' = tk
  BY BranchLeaveStep DEF BranchLeave, Linking, RInv
<1>2. CASE stack = <<>>
  BY <1>1, <1>2, OrphanRefs DEF BranchLeave
<1>3. CASE stack # <<>>
  <2> DEFINE s == Last(stack)
             n == Len(stack)
             g == LinkToTop(h)
             S == Back(g, {lk})
             T == ParentsOf(g, S)
             O == Back(g, ToSet(stack'))
  <2>1. h' = UpdateFlagsOf(g, T) /\ stack' = Front(stack)
    BY <1>3 DEF BranchLeave
  <2>2. /\ g \in Heap /\ SameLists(h, g) /\ LinksInOrder(g) /\ ParentsHoldIn(g)
        /\ SameHeld(h, g) /\ g.flag = h.flag /\ g.pv[lk] = s
        /\ \A q \in Id : q # lk => g.pv[q] = h.pv[q]
        /\ \A q \in Id \ {lk} : IsAlternative(g, q) <=> IsAlternative(h, q)
        /\ g.par[lk] # Null
    BY <1>1, <1>3, TopFields, LinkToTopLemma
  <2>3. /\ lk \in Id /\ lk \in Pos /\ stack \in Seq(Pos) /\ h.pv[lk] = Null
        /\ s = stack[n] /\ n \in DOMAIN stack /\ s \in Pos
    <3>1. stack \in Seq(Pos)
      BY <1>1 DEF IInv, TypeOK
    <3>2. n \in DOMAIN stack /\ s = stack[n]
      BY <1>3, <3>1 DEF Last
    <3>3. QED
      BY <1>1, <3>1, <3>2, LinkingFacts, ElementsOf
  <2> HIDE DEF s, g
  <2>4. /\ ToSet(stack') \in SUBSET Pos
        /\ ToSet(stack) \subseteq ToSet(stack') \cup {s}
    <3>1. /\ stack' \in Seq(Pos) /\ DOMAIN stack' = 1..(n - 1) /\ DOMAIN stack = 1..n
          /\ n \in Nat /\ \A i \in 1..(n - 1) : stack'[i] = stack[i]
      BY <2>1, <2>3 DEF Front
    <3> HIDE DEF n
    <3>2. \A i \in DOMAIN stack : i = n \/ i \in DOMAIN stack'
      BY <3>1
    <3>3. QED
      BY <2>3, <3>1, <3>2, ToSetType DEF ToSet
  <2> HIDE DEF n
  <2>5. /\ S \in SUBSET Id /\ \A p \in S : g.par[p] # Null
        /\ lk \in S /\ s \in S /\ ClosedUnderPv(g, S)
    <3>1. {lk} \in SUBSET Pos /\ \A p \in {lk} : g.par[p] # Null
      BY <2>2, <2>3
    <3>2. S \in SUBSET Id /\ \A p \in S : g.par[p] # Null
      BY <2>2, <3>1, BackParented
    <3>3. lk \in S /\ ClosedUnderPv(g, S)
      BY <2>2, <3>1, BackLemma
    <3>4. QED
      BY <2>2, <2>3, <3>2, <3>3, NullOutside DEF ClosedUnderPv
  <2>6. T \in SUBSET Id
    BY <2>2, <2>5, ParentsOfType
  <2>7. Open \subseteq S \cup O
    <3> DEFINE C == S \cup O
    <3>1. ToSet(stack') \subseteq O /\ O \in SUBSET Pos /\ ClosedUnderPv(g, O)
      BY <2>2, <2>4, BackLemma
    <3>2. S \in SUBSET Pos
      BY <2>2, <2>3, BackLemma
    <3> HIDE DEF S, O
    <3>3. ClosedUnderPv(g, C)
      BY <2>5, <3>1 DEF ClosedUnderPv
    <3>4. ClosedUnderPv(h, C)
      BY <2>2, <2>3, <3>1, <3>2, <3>3, NullOutside DEF ClosedUnderPv
    <3>5. ToSet(stack) \subseteq C /\ C \in SUBSET Pos
      BY <2>4, <2>5, <3>1, <3>2
    <3>6. h \in Heap /\ LinksInOrder(h) /\ ToSet(stack) \in SUBSET Pos
      BY <1>1, OpenFacts, RFacts
    <3> HIDE DEF C
    <3>7. Open \subseteq C
      BY <3>4, <3>5, <3>6, BackLemma DEF Open
    <3>8. QED
      BY <3>7 DEF C
  <2>8. ParentExact(g)
    BY <2>2, ParentsAreExact DEF RInv, PrefixesOK, PrefixesApart, SameLists
  <2> HIDE DEF S, O
  <2>9. ASSUME NEW t \in Id, \A p \in ToSet(g.pfx[t]) : p \notin O
        PROVE  Settled(g, t) \/ t \in T
    <3>1. ToSet(g.pfx[t]) \subseteq Id
      BY <2>2, HeapFields, ToSetType
    <3>2. CASE \E p \in ToSet(g.pfx[t]) : p \in S
      BY <2>5, <2>8, <3>1, <3>2, NullOutside DEF ParentExact, ParentsOf
    <3>3. CASE \A p \in ToSet(g.pfx[t]) : p \notin S
      <4>1. g.pfx = h.pfx
        BY <2>2 DEF SameLists
      <4>2. Settled(h, t)
        BY <2>7, <2>9, <3>3, <4>1 DEF RInv, FlagsBut
      <4>3. {lk} \in SUBSET Id /\ \A q \in {lk} : q \notin ToSet(h.pfx[t])
        BY <2>3, <2>5, <3>3, <4>1
      <4>4. QED
        BY <2>2, <4>1, <4>2, <4>3, RFacts, SettledBut
    <3>4. QED
      BY <3>2, <3>3
  <2> HIDE DEF T
  <2>10. h' \in Heap /\ SameLinks(g, h') /\ SameLists(g, h')
    BY <2>1, <2>2, <2>6, UpdateFlagsOfLemma
  <2>11. /\ SameHeld(g, h')
         /\ \A t \in Id : Settled(g, t) \/ t \in T => Settled(h', t)
    BY <2>1, <2>2, <2>6, UpdateAllSettles
  <2>12. Back(h', ToSet(stack')) = O
    BY <2>10, BackOfLinks DEF SameLinks, O
  <2>13. FlagsBut(h', Back(h', ToSet(stack')))
    BY <2>9, <2>10, <2>11, <2>12 DEF FlagsBut, SameLists
  <2>14. SameLists(h, h') /\ SameHeld(h, h')
    BY <2>2, <2>10, <2>11, HeldThrough DEF SameLists
  <2>15. QED
    BY <1>1, <2>10, <2>13, <2>14, SameListsStep
<1>4. QED
  BY <1>2, <1>3

-----------------------------------------------------------------------------
(* Once the file is read.                                                    *)

LEMMA ClosedOpen ==
  ASSUME RInv, phase = "parse"
  PROVE  Open = {} /\ AllSettled(h) /\ stack = <<>>
<1>1. stack = <<>>
  BY DEF RInv, IInv, StackOK
<1>2. ToSet(stack) = {}
  BY <1>1 DEF ToSet
<1>3. Open = {}
  BY <1>2, BackOfNone DEF Open
<1>4. QED
  BY <1>1, <1>3 DEF RInv, FlagsBut, AllSettled

LEMMA RemoveRefs ==
  ASSUME RInv, phase # "read", UNCHANGED readVars,
         NEW t \in Pos, Removable(t), h' = LexerRemove(h, t)
  PROVE  RInv'
<1>1. IInv /\ IInv' /\ stack' = stack /\ tk' = tk
  BY RemoveStep DEF RInv, readVars
<1>2. h \in Heap /\ t \in Id /\ t \in ToSet(h.toks)
  BY NullOutside, RFacts DEF Removable, InList
<1>3. BranchesParented(h) /\ LinksInOrder(h) /\ ParentsHoldIn(h) /\ ParentExact(h)
  BY <1>1, ReadMeansParented, RFacts
<1>4. Distinct(h.toks) /\ Last(h.toks) # t
  BY <1>1 DEF IInv, ReadOK, ListOK, AtEof, Removable
<1>5. /\ Open \in SUBSET Id /\ \A p \in Open : h.kind[p] \in BranchKinds
      /\ PrefixesOK(h) /\ RefsExactIn(h) /\ FlagsBut(h, Open)
  BY <1>1, OpenFacts DEF RInv
<1>6. PrefixesOK(h') /\ RefsExactIn(h') /\ FlagsBut(h', Open)
  BY <1>2, <1>3, <1>4, <1>5, LexerRemoveSettles
<1>7. h'.pv = h.pv
  BY <1>2, <1>3, <1>4, LexerRemoveLemma
<1>8. Back(h', ToSet(stack')) = Open
  <2>1. Back(h', ToSet(stack)) = Back(h, ToSet(stack))
    BY <1>7, BackOfLinks
  <2>2. QED
    BY <1>1, <2>1 DEF Open
<1>9. QED
  BY <1>1, <1>6, <1>8, RStep

LEMMA MoveRefs ==
  ASSUME RInv, NEW src \in Pos, NEW dst \in Pos, LexerMovePrefixes(src, dst)
  PROVE  RInv'
<1>1. /\ IInv /\ IInv' /\ phase = "parse" /\ stack' = stack /\ tk' = tk
      /\ src \in Id /\ dst \in Id /\ src # dst /\ dst \in ToSet(h.toks)
      /\ h' = MovePrefixes(h, src, dst)
  BY MoveStep, NullOutside DEF RInv, readVars, LexerMovePrefixes, InList
<1>2. /\ h \in Heap /\ LinksInOrder(h) /\ ParentExact(h) /\ BranchesParented(h)
      /\ PrefixesOK(h)
  BY <1>1, ReadMeansParented, RFacts DEF RInv
<1>3. Open \in SUBSET Id /\ (\A p \in Open : h.kind[p] \in BranchKinds) /\ FlagsBut(h, Open)
  BY <1>1, OpenFacts DEF RInv
<1>4. SameHeld(h, h') /\ FlagsBut(h', Open) /\ PrefixesOK(h')
  BY <1>1, <1>2, <1>3, MoveHeld, MoveSettles, MoveApart
<1>5. h'.toks = h.toks /\ h'.pv = h.pv
  <2>1. Moved(h, h', h.pfx[src], <<>>, src, dst)
    BY <1>1, <1>2, MoveFields
  <2>2. QED
    BY <2>1 DEF Moved
<1>6. RefsExactIn(h')
  BY <1>4, <1>5 DEF RInv, RefsExactIn, SameHeld
<1>7. Back(h', ToSet(stack')) = Open
  <2>1. Back(h', ToSet(stack)) = Back(h, ToSet(stack))
    BY <1>5, BackOfLinks
  <2>2. QED
    BY <1>1, <2>1 DEF Open
<1>8. QED
  BY <1>1, <1>4, <1>6, <1>7, RStep

LEMMA UnlinkRefs ==
  ASSUME RInv, NEW e \in Pos, UnlinkPrefix(e)
  PROVE  RInv'
<1>1. /\ IInv /\ IInv' /\ phase = "parse" /\ stack' = stack /\ tk' = tk
      /\ e \in Id /\ h' = Unlink(h, e)
  BY UnlinkStep, NullOutside DEF RInv, readVars, UnlinkPrefix
<1>2. h \in Heap /\ InShape(h) /\ ParentExact(h)
  BY <1>1, RFacts DEF IInv, ChainsWellFormed, InShape
<1>3. AllSettled(h) /\ stack = <<>>
  BY <1>1, ClosedOpen
<1>4. h' \in Heap /\ SameLists(h, h')
  BY <1>1, <1>2, UnlinkLemma
<1>5. SameHeld(h, h') /\ AllSettled(h')
  BY <1>1, <1>2, <1>3, UnlinkSettles
<1>6. FlagsBut(h', Back(h', ToSet(stack')))
  BY <1>5 DEF FlagsBut, AllSettled
<1>7. QED
  BY <1>1, <1>4, <1>5, <1>6, SameListsStep

LEMMA DropRefs ==
  ASSUME RInv, NEW t \in Pos, NEW p \in Pos, DropPrefix(t, p)
  PROVE  RInv'
<1>1. /\ IInv /\ IInv' /\ phase = "parse" /\ stack' = stack /\ tk' = tk
      /\ t \in Id /\ p \in Id /\ h.kind[p] = "cpp" /\ p \in ToSet(h.pfx[t])
      /\ t \in ToSet(h.toks) /\ h' = RemovePrefix(h, t, p) /\ h \in Heap
  BY DropStep, NullOutside, RFacts DEF RInv, readVars, DropPrefix, InList
<1> DEFINE s == h.pfx[t]
           r == RemoveAt(s, IndexOf(s, p))
<1>2. s \in Seq(Id) /\ IndexOf(s, p) \in 1..Len(s) /\ s[IndexOf(s, p)] = p
  BY <1>1, HeapFields, IndexOfLemma
<1>3. /\ r \in Seq(Id) /\ ToSet(r) \subseteq ToSet(s)
      /\ \A q \in ToSet(s) : q # p => q \in ToSet(r)
  <2> DEFINE i == IndexOf(s, p)
  <2>1. i \in 1..Len(s) /\ s[i] = p /\ DOMAIN s = 1..Len(s) /\ Len(s) \in Nat
    BY <1>2
  <2>2. /\ r \in Seq(Id) /\ Len(r) = Len(s) - 1
        /\ \A j \in 1..(Len(s) - 1) : r[j] = IF j < i THEN s[j] ELSE s[j + 1]
    BY <1>2, RemoveAtLemma
  <2>3. ToSet(r) \subseteq ToSet(s)
    BY <1>2, ToSetOfRemoveAt
  <2> HIDE DEF i, r, s
  <2>4. DOMAIN r = 1..(Len(s) - 1) /\ i \in Int
    BY <2>1, <2>2
  <2>5. ASSUME NEW q \in ToSet(s), q # p
        PROVE  q \in ToSet(r)
    <3>1. PICK j \in 1..Len(s) : s[j] = q
      BY <2>1 DEF ToSet
    <3>2. j # i
      BY <2>1, <2>5, <3>1
    <3>3. CASE j < i
      <4>1. j \in DOMAIN r /\ r[j] = q
        BY <2>1, <2>2, <2>4, <3>1, <3>3
      <4>2. QED
        BY <4>1 DEF ToSet
    <3>4. CASE j > i
      <4>1. j - 1 \in DOMAIN r /\ r[j - 1] = q
        BY <2>1, <2>2, <2>4, <3>1, <3>4
      <4>2. QED
        BY <4>1 DEF ToSet
    <3>5. QED
      BY <2>1, <2>4, <3>1, <3>2, <3>3, <3>4
  <2>6. QED
    BY <2>2, <2>3, <2>5
<1>4. h' = [h EXCEPT !.pfx = [h.pfx EXCEPT ![t] = r]]
  BY <1>1 DEF RemovePrefix
<1> HIDE DEF r
<1>5. /\ SameLinks(h, h') /\ h'.toks = h.toks /\ h'.refs = h.refs /\ h'.flag = h.flag
      /\ h'.pfx = [h.pfx EXCEPT ![t] = r]
  BY <1>1, <1>4 DEF Heap, SameLinks
<1>6. h'.pfx[t] = r /\ \A u \in Id : u # t => h'.pfx[u] = h.pfx[u]
  BY <1>1, <1>5, HeapFields
<1>7. \A u \in Id : ToSet(h'.pfx[u]) \subseteq ToSet(h.pfx[u])
  BY <1>3, <1>6
<1>8. PrefixesOK(h')
  <2>1. PrefixesApart(h') /\ PrefixesRead(h')
    BY <1>7 DEF RInv, PrefixesOK, PrefixesApart, PrefixesRead
  <2>2. PrefixesListed(h')
    BY <1>1, <1>5, <1>6 DEF RInv, PrefixesOK, PrefixesListed
  <2>3. QED
    BY <2>1, <2>2 DEF PrefixesOK
<1>9. RefsExactIn(h')
  <2>1. SameHeld(h, h')
    BY <1>5, HeldAlike DEF SameLinks
  <2>2. QED
    BY <1>5, <2>1 DEF RInv, RefsExactIn, SameHeld
<1>10. AllSettled(h')
  <2> SUFFICES ASSUME NEW u \in Id
               PROVE  Settled(h', u)
    BY DEF AllSettled
  <2>1. Settled(h, u)
    BY <1>1, ClosedOpen DEF AllSettled
  <2>2. \A q : IsAlternative(h', q) <=> IsAlternative(h, q)
    BY <1>5 DEF IsAlternative, SameLinks
  <2>3. ~IsAlternative(h, p)
    BY <1>1 DEF IsAlternative
  <2>4. \A q \in ToSet(h.pfx[u]) : q # p => q \in ToSet(h'.pfx[u])
    BY <1>3, <1>6
  <2>5. HasBranch(h', u) <=> HasBranch(h, u)
    BY <1>7, <2>2, <2>3, <2>4 DEF HasBranch
  <2>6. QED
    BY <1>5, <2>1, <2>5 DEF Settled
<1>11. FlagsBut(h', Back(h', ToSet(stack')))
  BY <1>10 DEF FlagsBut, AllSettled
<1>12. QED
  BY <1>1, <1>8, <1>9, <1>11, RStep

\* What is still open is reverted: no open branch is left.
LEMMA PurgeRefs ==
  ASSUME RInv, BranchPurge
  PROVE  RInv'
<1>1. /\ IInv /\ IInv' /\ phase = "discard" /\ stack' = <<>> /\ tk' = tk
      /\ h' = RevertAll(h, Open)
  BY PurgeStep DEF RInv, BranchPurge, Open
<1>2. h \in Heap /\ LinksInOrder(h) /\ ParentsHoldIn(h) /\ ParentExact(h)
  BY RFacts
<1>3. /\ ToSet(stack) \in SUBSET Pos /\ Open \in SUBSET Id
      /\ \A p \in Open : h.par[p] # Null
  BY <1>1, OpenFacts
<1>4. /\ ToSet(stack) \subseteq Open /\ Open \in SUBSET Pos /\ ClosedUnderPv(h, Open)
      /\ \A C \in SUBSET Pos :
             ToSet(stack) \subseteq C /\ ClosedUnderPv(h, C) => Open \subseteq C
  BY <1>2, <1>3, BackLemma DEF Open
<1> HIDE DEF Open
<1>5. \A p \in Open : h.nx[p] # Null => h.nx[p] \in Open
  <2> DEFINE C == {q \in Open : h.nx[q] # Null => h.nx[q] \in Open}
  <2>1. ClosedUnderPv(h, C)
    BY <1>2, <1>3, <1>4 DEF ClosedUnderPv, LinksInOrder
  <2>2. \A p \in ToSet(stack) : h.nx[p] = Null
    BY <1>1 DEF IInv, StackOK, ToSet
  <2>3. ToSet(stack) \subseteq C /\ C \in SUBSET Pos
    BY <1>4, <2>2
  <2>4. Open \subseteq C
    BY <1>4, <2>1, <2>3
  <2>5. QED
    BY <2>4
<1>6. h' \in Heap /\ SameLists(h, h')
  BY <1>1, <1>2, <1>3, RevertAllLemma
<1>7. SameHeld(h, h')
  BY <1>1, <1>2, <1>3, RevertFields
<1>8. AllSettled(h')
  <2> SUFFICES ASSUME NEW t \in Id
               PROVE  Settled(h', t)
    BY DEF AllSettled
  <2>1. ToSet(h.pfx[t]) \subseteq Id
    BY <1>2, HeapFields, ToSetType
  <2>2. Settled(h, t) \/ t \in ParentsOf(h, Open)
    <3>1. CASE \E p \in ToSet(h.pfx[t]) : p \in Open
      BY <1>2, <1>3, <2>1, <3>1, NullOutside DEF ParentExact, ParentsOf
    <3>2. CASE \A p \in ToSet(h.pfx[t]) : p \notin Open
      BY <3>2 DEF RInv, FlagsBut
    <3>3. QED
      BY <3>1, <3>2
  <2>3. QED
    BY <1>1, <1>2, <1>3, <1>5, <2>2, RevertSettles
<1>9. FlagsBut(h', Back(h', ToSet(stack')))
  BY <1>8 DEF FlagsBut, AllSettled
<1>10. QED
  BY <1>1, <1>6, <1>7, <1>9, SameListsStep

\* Nothing but the place in the file changes.
LEMMA StutterRefs ==
  ASSUME RInv, IInv', h' = h, tk' = tk, stack' = stack
  PROVE  RInv'
  BY DEF RInv, Open, PrefixesOK, PrefixesRead

-----------------------------------------------------------------------------
(* The theorems.                                                             *)

LEMMA InitRefs == Init => RInv
<1> SUFFICES ASSUME Init PROVE RInv
  OBVIOUS
<1>1. IInv
  BY InitInv
<1>2. /\ \A t \in Id : h.pfx[t] = <<>> /\ h.refs[t] = 0 /\ h.par[t] = Null
      /\ h.toks = <<>> /\ h.flag = {} /\ ToSet(<<>>) = {}
  BY DEF Init, EmptyHeap, ToSet
<1>3. PrefixesOK(h)
  BY <1>2 DEF PrefixesOK, PrefixesApart, PrefixesListed, PrefixesRead
<1>4. RefsExactIn(h)
  <2> SUFFICES ASSUME NEW t \in Id
               PROVE  Held(h, t) = 0
    BY <1>2 DEF RefsExactIn
  <2>1. Kids(h, t) = {}
    BY <1>2, NullOutside DEF Kids
  <2>2. Cardinality(Kids(h, t)) = 0
    BY <2>1, FS_EmptySet
  <2>3. QED
    BY <1>2, <2>2 DEF Held
<1>5. FlagsBut(h, Open)
  BY <1>2 DEF FlagsBut, Settled, HasBranch
<1>6. QED
  BY <1>1, <1>3, <1>4, <1>5 DEF RInv

LEMMA NextRefs == RInv /\ [Next]_vars => RInv'
<1> SUFFICES ASSUME RInv, [Next]_vars PROVE RInv'
  OBVIOUS
<1>0. IInv'
  BY NextInv DEF RInv
<1>1. ASSUME NEW kind \in BranchKinds \cup {"cpp"}, ReadPrefix(kind)
      PROVE  RInv'
  BY <1>1, PrefixRefs
<1>2. ASSUME NEW kind \in {"tok", "eof"}, ReadToken(kind)
      PROVE  RInv'
  BY <1>2, TokenRefs
<1>3. CASE BranchEnter
  BY <1>3, EnterRefs
<1>4. CASE BranchLink
  BY <1>4, LinkRefs
<1>5. CASE BranchLeave
  BY <1>5, LeaveRefs
<1>6. CASE SkipPrefix
  BY <1>0, <1>6, StutterRefs DEF SkipPrefix
<1>7. CASE EndOfFile
  BY <1>0, <1>7, StutterRefs DEF EndOfFile
<1>8. ASSUME NEW t \in Pos, Discard(t)
      PROVE  RInv'
  BY <1>8, RemoveRefs DEF Discard
<1>9. CASE BranchPurge
  BY <1>9, PurgeRefs
<1>10. ASSUME NEW p \in Pos, UnlinkPrefix(p)
       PROVE  RInv'
  BY <1>10, UnlinkRefs
<1>11. ASSUME NEW t \in Pos, NEW p \in Pos, DropPrefix(t, p)
       PROVE  RInv'
  BY <1>11, DropRefs
<1>12. ASSUME NEW src \in Pos, NEW dst \in Pos, LexerMovePrefixes(src, dst)
       PROVE  RInv'
  BY <1>12, MoveRefs
<1>13. ASSUME NEW t \in Pos, RemoveToken(t)
       PROVE  RInv'
  BY <1>13, RemoveRefs DEF RemoveToken
<1>14. CASE UNCHANGED vars
  BY <1>0, <1>14, StutterRefs DEF vars, readVars
<1>15. QED
  BY <1>1, <1>2, <1>3, <1>4, <1>5, <1>6, <1>7, <1>8, <1>9, <1>10, <1>11,
     <1>12, <1>13, <1>14 DEF Next, Read

\* The strengthened invariant holds throughout.
LEMMA RefsInvHolds == Spec => []RInv
  BY InitRefs, NextRefs, PTL DEF Spec

\* tk_refs counts one reference for lx_tokens and one for each branch the token
\* is the parent of, at any time: token_rele() neither frees a token that
\* branch.parent still points to, nor leaves lexer_free() one it has to.
THEOREM RefsAlwaysExact == Spec => []RefsExact
<1>1. RInv => RefsExact
  <2> SUFFICES ASSUME RInv, NEW t \in Id
               PROVE  h.refs[t] = Cardinality({p \in Id : h.par[p] = t})
                                  + (IF InList(h, t) THEN 1 ELSE 0)
    BY DEF RefsExact
  <2>1. h.refs[t] \in Int /\ Cardinality(Kids(h, t)) \in Nat
    BY RFacts, HeapFields, KidsCount
  <2>2. h.refs[t] - Cardinality(Kids(h, t)) = (IF t \in ToSet(h.toks) THEN 1 ELSE 0)
    BY DEF RInv, RefsExactIn, Held
  <2>3. Kids(h, t) = {p \in Id : h.par[p] = t}
    BY DEF Kids
  <2>4. QED
    BY <2>1, <2>2, <2>3 DEF InList
<1>2. QED
  BY <1>1, RefsInvHolds, PTL

\* TOKEN_FLAG_BRANCH is set on exactly the tokens at which token_branch_find()
\* succeeds, whatever was unlinked, moved, dropped and removed since the file
\* was read: lexer_pop() halts where it has to and nowhere else.
THEOREM FlagsAlwaysExact == Spec => []FlagsExact
<1>1. RInv => FlagsExact
  BY ClosedOpen DEF FlagsExact, AllSettled, Settled
<1>2. QED
  BY <1>1, RefsInvHolds, PTL

-----------------------------------------------------------------------------
(* The walks along pv, from one branch.                                      *)

LEMMA WalkFacts ==
  ASSUME NEW g \in Heap, LinksInOrder(g), NEW p \in Pos
  PROVE  /\ p \in Back(g, {p}) /\ Back(g, {p}) \in SUBSET Pos
         /\ ClosedUnderPv(g, Back(g, {p}))
         /\ \A C \in SUBSET Pos :
                p \in C /\ ClosedUnderPv(g, C) => Back(g, {p}) \subseteq C
<1>1. {p} \in SUBSET Pos
  OBVIOUS
<1>2. /\ {p} \subseteq Back(g, {p}) /\ Back(g, {p}) \subseteq Pos
      /\ ClosedUnderPv(g, Back(g, {p}))
      /\ \A C \in SUBSET Pos :
             {p} \subseteq C /\ ClosedUnderPv(g, C) => Back(g, {p}) \subseteq C
  BY <1>1, BackLemma
<1>3. QED
  BY <1>2

LEMMA LinkFacts ==
  ASSUME NEW g \in Heap, LinksInOrder(g), NEW p \in Pos
  PROVE  /\ p \in Id /\ p \in Nat /\ p # Null /\ Null \notin Pos
         /\ g.pv[p] # Null => /\ g.pv[p] \in Pos /\ g.pv[p] < p
                              /\ g.nx[g.pv[p]] = p
         /\ g.nx[p] # Null => /\ g.nx[p] \in Id /\ p < g.nx[p]
                              /\ g.pv[g.nx[p]] = p
<1>1. p \in Id /\ p # Null /\ p \in Nat /\ Null \notin Pos
  BY NullOutside
<1>2. g.pv[p] \in Id \cup {Null} /\ g.nx[p] \in Id \cup {Null}
  BY <1>1, HeapFields
<1>3. g.pv[p] # Null => g.pv[p] < p /\ g.nx[g.pv[p]] = p
  BY <1>1 DEF LinksInOrder
<1>4. g.nx[p] # Null => p < g.nx[p] /\ g.pv[g.nx[p]] = p
  BY <1>1 DEF LinksInOrder
<1>5. g.pv[p] # Null => g.pv[p] \in Pos
  BY <1>2, <1>3, MaxLenAssumption DEF Pos, Id
<1>6. QED
  BY <1>1, <1>2, <1>3, <1>4, <1>5

\* A walk goes back: it passes nothing after its start.
LEMMA WalkBelow ==
  ASSUME NEW g \in Heap, LinksInOrder(g), NEW p \in Pos
  PROVE  \A q \in Back(g, {p}) : q <= p
<1> DEFINE C == {q \in Pos : q <= p}
<1>1. p \in C /\ C \in SUBSET Pos
  BY NullOutside
<1>2. ClosedUnderPv(g, C)
  <2> SUFFICES ASSUME NEW q \in Pos, q <= p, g.pv[q] # Null
               PROVE  g.pv[q] \in Pos /\ g.pv[q] <= p
    BY DEF ClosedUnderPv
  <2>1. g.pv[q] \in Pos /\ g.pv[q] < q
    BY LinkFacts
  <2>2. q \in Nat /\ p \in Nat /\ g.pv[q] \in Nat
    BY <2>1, NullOutside
  <2>3. QED
    BY <2>1, <2>2
<1>3. QED
  BY <1>1, <1>2, WalkFacts

\* What a walk passes is where it starts, or what it passed before links to it.
LEMMA WalkLinked ==
  ASSUME NEW g \in Heap, LinksInOrder(g), NEW p \in Pos
  PROVE  \A q \in Back(g, {p}) : q = p \/ g.nx[q] \in Back(g, {p})
<1> DEFINE B == Back(g, {p})
           C == {q \in B : q = p \/ g.nx[q] \in B}
<1>1. p \in B /\ B \in SUBSET Pos /\ ClosedUnderPv(g, B)
  BY WalkFacts
<1>2. ClosedUnderPv(g, C)
  <2> SUFFICES ASSUME NEW q \in B, g.pv[q] # Null
               PROVE  g.pv[q] \in B /\ g.nx[g.pv[q]] \in B
    BY DEF ClosedUnderPv
  <2>1. g.nx[g.pv[q]] = q
    BY <1>1, LinkFacts
  <2>2. QED
    BY <1>1, <2>1 DEF ClosedUnderPv
<1>3. p \in C /\ C \in SUBSET Pos
  BY <1>1
<1>4. B \subseteq C
  BY <1>2, <1>3, WalkFacts
<1>5. QED
  BY <1>4

\* Two chains have nothing in common.
LEMMA WalksApart ==
  ASSUME NEW g \in Heap, LinksInOrder(g), NEW p \in Pos, NEW q \in Pos, p # q,
         g.nx[p] = Null, g.nx[q] = Null
  PROVE  Back(g, {p}) \cap Back(g, {q}) = {}
<1> DEFINE P == Back(g, {p})
           Q == Back(g, {q})
           D == P \ Q
<1>1. /\ p \in P /\ P \in SUBSET Pos /\ ClosedUnderPv(g, P)
      /\ Q \in SUBSET Pos /\ \A r \in Q : r = q \/ g.nx[r] \in Q
  BY WalkFacts, WalkLinked
<1>2. p \notin Q
  BY <1>1, NullOutside
<1>3. ClosedUnderPv(g, D)
  <2> SUFFICES ASSUME NEW r \in D, g.pv[r] # Null
               PROVE  g.pv[r] \in D
    BY DEF ClosedUnderPv
  <2>1. g.pv[r] \in P
    BY <1>1 DEF ClosedUnderPv
  <2>2. g.nx[g.pv[r]] = r /\ r # Null
    BY <1>1, LinkFacts
  <2>3. g.pv[r] \notin Q
    BY <1>1, <2>2
  <2>4. QED
    BY <2>1, <2>3
<1>4. P \subseteq D
  <2>1. D \in SUBSET Pos /\ p \in D
    BY <1>1, <1>2
  <2>2. QED
    BY <1>3, <2>1, WalkFacts
<1>5. QED
  BY <1>4

\* A walk stays as long as the links it follows do.
LEMMA WalkKept ==
  ASSUME NEW g \in Heap, NEW k \in Heap, LinksInOrder(g), LinksInOrder(k),
         NEW p \in Pos, \A q \in Back(g, {p}) : k.pv[q] = g.pv[q]
  PROVE  Back(k, {p}) = Back(g, {p})
<1> DEFINE B == Back(g, {p})
           K == Back(k, {p})
<1>1. /\ p \in B /\ B \in SUBSET Pos /\ ClosedUnderPv(g, B)
      /\ p \in K /\ K \in SUBSET Pos /\ ClosedUnderPv(k, K)
  BY WalkFacts
<1>2. K \subseteq B
  <2>1. ClosedUnderPv(k, B)
    BY <1>1 DEF ClosedUnderPv
  <2>2. QED
    BY <1>1, <2>1, WalkFacts
<1>3. B \subseteq K
  <2>1. ClosedUnderPv(g, K)
    BY <1>1, <1>2 DEF ClosedUnderPv
  <2>2. QED
    BY <1>1, <2>1, WalkFacts
<1>4. QED
  BY <1>2, <1>3

\* A walk is its start, then the walk from there.
LEMMA WalkUnrolled ==
  ASSUME NEW g \in Heap, LinksInOrder(g), NEW p \in Pos
  PROVE  /\ g.pv[p] = Null => Back(g, {p}) = {p}
         /\ g.pv[p] # Null => Back(g, {p}) = Back(g, {g.pv[p]}) \cup {p}
<1>1. CASE g.pv[p] = Null
  <2>1. ClosedUnderPv(g, {p}) /\ {p} \in SUBSET Pos /\ p \in {p}
    BY <1>1 DEF ClosedUnderPv
  <2>2. Back(g, {p}) \subseteq {p} /\ p \in Back(g, {p})
    BY <2>1, WalkFacts
  <2>3. QED
    BY <1>1, <2>2
<1>2. CASE g.pv[p] # Null
  <2> DEFINE v == g.pv[p]
             B == Back(g, {v})
  <2>1. v \in Pos
    BY <1>2, LinkFacts
  <2>2. v \in B /\ B \in SUBSET Pos /\ ClosedUnderPv(g, B)
    BY <2>1, WalkFacts
  <2>3. Back(g, {p}) \subseteq B \cup {p}
    <3>1. ClosedUnderPv(g, B \cup {p}) /\ B \cup {p} \in SUBSET Pos
      BY <2>2 DEF ClosedUnderPv
    <3>2. p \in B \cup {p}
      OBVIOUS
    <3> HIDE DEF B
    <3>3. QED
      BY <3>1, <3>2, WalkFacts
  <2>4. B \subseteq Back(g, {p}) /\ p \in Back(g, {p})
    <3>1. /\ p \in Back(g, {p}) /\ Back(g, {p}) \in SUBSET Pos
          /\ ClosedUnderPv(g, Back(g, {p}))
      BY WalkFacts
    <3>2. v \in Back(g, {p})
      BY <1>2, <3>1 DEF ClosedUnderPv
    <3> HIDE DEF v
    <3>3. QED
      BY <2>1, <3>1, <3>2, WalkFacts
  <2>5. QED
    BY <1>2, <2>3, <2>4
<1>3. QED
  BY <1>1, <1>2

-----------------------------------------------------------------------------
(* The chains, and what becomes of them when one is changed.                 *)

\* Branches are prefixes of the file.
InFile(g) == \A p \in Id : g.par[p] # Null => p \in Pos

Ends(g) == {p \in Pos : g.kind[p] = "endif" /\ g.par[p] # Null}

WalksFrom(g, N) == {Back(g, {p}) : p \in N}

Chains(g) == WalksFrom(g, Ends(g))

LEMMA EndFacts ==
  ASSUME NEW g \in Heap, LinksInOrder(g), NEW e \in Ends(g)
  PROVE  e \in Pos /\ e \in Id /\ g.nx[e] = Null
  BY NullOutside DEF Ends, LinksInOrder

\* Every branch of a complete chain has an #endif: the last branch without one
\* would link to a later one without one.
LEMMA ChainEnds ==
  ASSUME NEW g \in Heap, LinksInOrder(g), BranchesLinked(g), InFile(g),
         NEW p \in Pos, g.kind[p] \in BranchKinds
  PROVE  \E e \in Ends(g) : p \in Back(g, {e})
<1> DEFINE Ended(q) == \E e \in Ends(g) : q \in Back(g, {e})
           T == {m \in Nat : \E q \in Pos : /\ m = MaxLen - q
                                            /\ g.kind[q] \in BranchKinds
                                            /\ ~Ended(q)}
<1> SUFFICES ASSUME ~Ended(p)
             PROVE  FALSE
  OBVIOUS
<1> HIDE DEF Ended
<1>1. MaxLen - p \in T
  BY MaxLenAssumption DEF Pos
<1>2. PICK m \in T : \A l \in T : ~(<<l, m>> \in OpToRel(<, Nat))
  <2>1. T \subseteq Nat /\ T # {}
    BY <1>1
  <2> HIDE DEF T
  <2>2. QED
    BY <2>1, NatLessThanWellFounded, WFMin
<1>3. PICK q \in Pos : m = MaxLen - q /\ g.kind[q] \in BranchKinds /\ ~Ended(q)
  BY <1>2
<1>4. q \in Id /\ g.par[q] # Null
  BY <1>3, NullOutside DEF BranchesLinked
<1>5. g.kind[q] # "endif"
  <2>1. ASSUME g.kind[q] = "endif"
        PROVE  Ended(q)
    <3>1. q \in Ends(g)
      BY <1>4, <2>1 DEF Ends
    <3>2. q \in Back(g, {q})
      BY WalkFacts
    <3>3. QED
      BY <3>1, <3>2 DEF Ended
  <2>2. QED
    BY <1>3, <2>1
<1> DEFINE n == g.nx[q]
<1>6. n # Null
  BY <1>3, <1>4, <1>5 DEF BranchesLinked, BranchKinds
<1>7. n \in Id /\ q < n /\ g.pv[n] = q
  BY <1>6, LinkFacts
<1> HIDE DEF n
<1>8. g.kind[n] \in BranchKinds /\ g.par[n] # Null
  <2>1. g.pv[n] # Null
    BY <1>4, <1>7, NullOutside
  <2>2. QED
    BY <1>7, <2>1 DEF LinksInOrder, BranchKinds
<1>9. n \in Pos
  BY <1>7, <1>8 DEF InFile
<1>10. ~Ended(n)
  <2> SUFFICES ASSUME Ended(n)
               PROVE  Ended(q)
    BY <1>3
  <2>1. PICK e \in Ends(g) : n \in Back(g, {e})
    BY DEF Ended
  <2>2. ClosedUnderPv(g, Back(g, {e}))
    BY EndFacts, WalkFacts
  <2>3. q \in Back(g, {e})
    BY <1>4, <1>7, <2>1, <2>2, NullOutside DEF ClosedUnderPv
  <2>4. QED
    BY <2>3 DEF Ended
<1>11. MaxLen - n \in T /\ MaxLen - n < m
  BY <1>3, <1>7, <1>8, <1>9, <1>10, MaxLenAssumption DEF Pos
<1>12. <<MaxLen - n, m>> \in OpToRel(<, Nat)
  BY <1>11 DEF OpToRel
<1>13. QED
  BY <1>2, <1>11, <1>12

\* When the links outside of one chain stay, so do the other chains.
LEMMA OneChainChanged ==
  ASSUME NEW g \in Heap, NEW k \in Heap, LinksInOrder(g), LinksInOrder(k),
         NEW e \in Ends(g), NEW N \in SUBSET Pos,
         \A q \in Pos \ Back(g, {e}) : k.pv[q] = g.pv[q],
         Ends(k) = (Ends(g) \ {e}) \cup N
  PROVE  Chains(k) = (Chains(g) \ {Back(g, {e})}) \cup WalksFrom(k, N)
<1> DEFINE G == Back(g, {e})
<1>1. ASSUME NEW f \in Ends(g), f # e
      PROVE  Back(k, {f}) = Back(g, {f}) /\ Back(g, {f}) # G
  <2>1. e \in Pos /\ f \in Pos /\ g.nx[e] = Null /\ g.nx[f] = Null
    BY EndFacts
  <2>2. Back(g, {f}) \cap G = {}
    BY <1>1, <2>1, WalksApart
  <2>3. f \in Back(g, {f}) /\ Back(g, {f}) \subseteq Pos
    BY <2>1, WalkFacts
  <2>4. Back(k, {f}) = Back(g, {f})
    BY <2>1, <2>2, <2>3, WalkKept
  <2>5. QED
    BY <2>2, <2>3, <2>4
<1> HIDE DEF G
<1>2. Chains(k) = {Back(k, {f}) : f \in Ends(g) \ {e}} \cup WalksFrom(k, N)
  BY DEF Chains, WalksFrom
<1>3. Chains(g) \ {G} = {Back(g, {f}) : f \in Ends(g) \ {e}}
  BY <1>1 DEF Chains, WalksFrom, G
<1>4. {Back(k, {f}) : f \in Ends(g) \ {e}} = {Back(g, {f}) : f \in Ends(g) \ {e}}
  BY <1>1
<1>5. QED
  BY <1>2, <1>3, <1>4 DEF G

LEMMA TwoMembers ==
  ASSUME NEW S \in SUBSET Pos, NEW a \in S, NEW b \in S, a # b
  PROVE  Cardinality(S) > 1
<1>1. S \in SUBSET Id
  BY NullOutside
<1>2. IsFiniteSet(S) /\ Cardinality(S) \in Nat
  BY <1>1, FiniteIds, FS_Subset, CountOfIds
<1>3. IsFiniteSet(S \ {a}) /\ Cardinality(S \ {a}) = Cardinality(S) - 1
  BY <1>2, FS_RemoveElement
<1>4. Cardinality(S \ {a}) \in Nat /\ (Cardinality(S \ {a}) = 0 <=> S \ {a} = {})
  BY <1>3, FS_CardinalityType, FS_EmptySet
<1>5. Cardinality(S \ {a}) # 0
  BY <1>4
<1>6. QED
  BY <1>2, <1>3, <1>4, <1>5

\* Linking around p takes it, and nothing else, out of a walk.
LEMMA WalkSpliced ==
  ASSUME NEW g \in Heap, NEW k \in Heap, LinksInOrder(g), LinksInOrder(k),
         NEW e \in Pos, NEW p \in Back(g, {e}), p # e,
         k.pv[g.nx[p]] = g.pv[p], k.pv[p] = Null,
         \A q \in Pos : q # p /\ q # g.nx[p] => k.pv[q] = g.pv[q]
  PROVE  Back(k, {e}) = Back(g, {e}) \ {p}
<1> DEFINE B == Back(g, {e})
           K == Back(k, {e})
           n == g.nx[p]
           C == K \cup (IF n \in K THEN {p} ELSE {})
<1>1. /\ e \in B /\ B \in SUBSET Pos /\ ClosedUnderPv(g, B)
      /\ e \in K /\ K \in SUBSET Pos /\ ClosedUnderPv(k, K)
      /\ n \in B
  BY WalkFacts, WalkLinked
<1>2. p \in Pos /\ p # Null /\ n # Null /\ n # p /\ g.pv[n] = p
  <2>1. p \in Pos /\ n # Null /\ p # Null
    BY <1>1, NullOutside
  <2>2. p < n /\ g.pv[n] = p /\ n \in Nat
    BY <1>1, <2>1, LinkFacts
  <2>3. QED
    BY <2>1, <2>2
<1>3. K \subseteq B \ {p}
  <2>1. ASSUME NEW q \in B \ {p}, k.pv[q] # Null
        PROVE  k.pv[q] \in B \ {p}
    <3>1. CASE q = n
      <4>1. k.pv[q] = g.pv[p] /\ g.pv[p] # Null
        BY <2>1, <3>1
      <4>2. g.pv[p] \in B /\ g.pv[p] < p /\ p \in Nat
        BY <1>1, <1>2, <4>1, LinkFacts DEF ClosedUnderPv
      <4>3. QED
        BY <4>1, <4>2
    <3>2. CASE q # n
      <4>1. k.pv[q] = g.pv[q] /\ q \in Pos
        BY <1>1, <2>1, <3>2
      <4>2. g.pv[q] \in B /\ g.nx[g.pv[q]] = q
        BY <1>1, <2>1, <4>1, LinkFacts DEF ClosedUnderPv
      <4>3. QED
        BY <3>2, <4>1, <4>2
    <3>3. QED
      BY <3>1, <3>2
  <2>2. ClosedUnderPv(k, B \ {p}) /\ e \in B \ {p} /\ B \ {p} \in SUBSET Pos
    BY <1>1, <2>1 DEF ClosedUnderPv
  <2>3. QED
    BY <2>2, WalkFacts
<1>4. B \subseteq C
  <2>1. ASSUME NEW q \in C, g.pv[q] # Null
        PROVE  g.pv[q] \in C
    <3>1. CASE q = n
      BY <1>2, <1>3, <2>1, <3>1
    <3>2. CASE q = p
      <4>1. n \in K /\ k.pv[n] # Null
        BY <1>3, <2>1, <3>2
      <4>2. QED
        BY <1>1, <3>2, <4>1 DEF ClosedUnderPv
    <3>3. CASE q # n /\ q # p
      <4>1. q \in K /\ q \in Pos
        BY <1>1, <3>3
      <4>2. k.pv[q] = g.pv[q]
        BY <3>3, <4>1
      <4>3. QED
        BY <1>1, <2>1, <4>1, <4>2 DEF ClosedUnderPv
    <3>4. QED
      BY <3>1, <3>2, <3>3
  <2>2. ClosedUnderPv(g, C) /\ e \in C /\ C \in SUBSET Pos
    BY <1>1, <1>2, <2>1 DEF ClosedUnderPv
  <2> HIDE DEF C
  <2>3. QED
    BY <2>2, WalkFacts
<1>5. QED
  BY <1>3, <1>4

-----------------------------------------------------------------------------
(* Unlinking a branch drops it from its chain.                               *)

Dropped(g, k, p) ==
    \E chain \in Chains(g) :
        /\ p \in chain
        /\ Chains(k) = (Chains(g) \ {chain})
                       \cup {rest \in {chain \ {p}} : Cardinality(rest) > 1}

\* The chain had two branches: it is gone.
LEMMA PairDropped ==
  ASSUME NEW g \in Heap, NEW k \in Heap, LinksInOrder(g), LinksInOrder(k),
         NEW e \in Ends(g), NEW v \in Pos, g.pv[e] = v, g.pv[v] = Null,
         CutFrom(g, k, {v, e}), NEW p \in {v, e}
  PROVE  Dropped(g, k, p)
<1> DEFINE chain == Back(g, {e})
<1>1. e \in Pos /\ e \in Id /\ v \in Id /\ v # Null /\ v # e
  <2>1. e \in Pos /\ e \in Id /\ v \in Id /\ v # Null
    BY EndFacts, NullOutside
  <2>2. v < e /\ e \in Nat
    BY <2>1, LinkFacts
  <2>3. QED
    BY <2>1, <2>2
<1>2. chain = {v, e}
  <2>1. Back(g, {e}) = Back(g, {v}) \cup {e} /\ Back(g, {v}) = {v}
    BY <1>1, WalkUnrolled
  <2>2. QED
    BY <2>1
<1>3. Ends(k) = (Ends(g) \ {e}) \cup {}
  <2>1. g.kind[v] # "endif"
    <3>1. g.nx[v] = e /\ e # Null
      BY <1>1, LinkFacts, NullOutside
    <3>2. QED
      BY <1>1, <3>1 DEF LinksInOrder
  <2>2. ASSUME NEW q \in Pos
        PROVE  q \in Ends(k) <=> q \in Ends(g) /\ q # e
    <3>1. q \in Id
      BY NullOutside
    <3>2. QED
      BY <2>1, <3>1 DEF Ends, CutFrom
  <2>3. QED
    BY <2>2 DEF Ends
<1>4. \A q \in Pos \ chain : k.pv[q] = g.pv[q]
  BY <1>2, NullOutside DEF CutFrom
<1>5. Chains(k) = Chains(g) \ {chain}
  <2>1. Chains(k) = (Chains(g) \ {Back(g, {e})}) \cup WalksFrom(k, {})
    BY <1>3, <1>4, OneChainChanged
  <2>2. WalksFrom(k, {}) = {}
    BY DEF WalksFrom
  <2>3. QED
    BY <2>1, <2>2
<1>6. ~(Cardinality(chain \ {p}) > 1)
  <2>1. PICK q : chain \ {p} = {q}
    BY <1>1, <1>2
  <2>2. Cardinality({q}) = 1
    BY FS_Singleton
  <2>3. QED
    BY <2>1, <2>2
<1>7. chain \in Chains(g)
  BY DEF Chains, WalksFrom
<1>8. p \in chain
  BY <1>2
<1> HIDE DEF chain
<1>9. QED
  BY <1>5, <1>6, <1>7, <1>8 DEF Dropped

\* The chain had more of them: it goes on, ending at f.
LEMMA RestKept ==
  ASSUME NEW g \in Heap, NEW k \in Heap, LinksInOrder(g), LinksInOrder(k),
         NEW e \in Ends(g), NEW p \in Back(g, {e}), NEW f \in Pos,
         \A q \in Pos \ Back(g, {e}) : k.pv[q] = g.pv[q],
         Ends(k) = (Ends(g) \ {e}) \cup {f},
         Back(k, {f}) = Back(g, {e}) \ {p},
         NEW a \in Back(k, {f}), a # f
  PROVE  Dropped(g, k, p)
<1> DEFINE chain == Back(g, {e})
           N == {f}
<1>1. Chains(k) = (Chains(g) \ {chain}) \cup WalksFrom(k, N)
  <2>1. N \in SUBSET Pos /\ Ends(k) = (Ends(g) \ {e}) \cup N
    OBVIOUS
  <2> HIDE DEF N
  <2>2. Chains(k) = (Chains(g) \ {Back(g, {e})}) \cup WalksFrom(k, N)
    BY <2>1, OneChainChanged, Zenon
  <2>3. QED
    BY <2>2
<1>2. Cardinality(chain \ {p}) > 1
  <2>1. Back(k, {f}) \in SUBSET Pos /\ f \in Back(k, {f})
    BY WalkFacts
  <2>2. Cardinality(Back(k, {f})) > 1
    BY <2>1, TwoMembers
  <2>3. QED
    BY <2>2
<1>3. chain \in Chains(g) /\ p \in chain
  BY DEF Chains, WalksFrom
<1>4. WalksFrom(k, N) = {chain \ {p}}
  BY DEF WalksFrom
<1>5. {rest \in {chain \ {p}} : Cardinality(rest) > 1} = {chain \ {p}}
  BY <1>2
<1> HIDE DEF chain, N
<1>6. QED
  BY <1>1, <1>3, <1>4, <1>5 DEF Dropped

LEMMA UnlinkIfDrops ==
  ASSUME NEW g \in Heap, NEW k \in Heap, InShape(g), InFile(g), LinksInOrder(k),
         NEW p \in Pos, g.kind[p] = "if", IfUnlinked(g, k, p)
  PROVE  Dropped(g, k, p)
<1> DEFINE n == g.nx[p]
<1>1. /\ LinksInOrder(g) /\ BranchesLinked(g)
      /\ p \in Id /\ p # Null /\ g.pv[p] = Null /\ g.kind[p] \in BranchKinds
  <2>1. LinksInOrder(g) /\ BranchesLinked(g) /\ p \in Id /\ p # Null
    BY NullOutside DEF InShape
  <2>2. g.pv[p] = Null
    BY <2>1 DEF LinksInOrder
  <2>3. QED
    BY <2>1, <2>2 DEF BranchKinds
<1>2. n # Null
  BY <1>1 DEF BranchesLinked
<1>3. n \in Id /\ g.pv[n] = p /\ n # p
  <2>1. n \in Id /\ g.pv[n] = p /\ p < n /\ p \in Nat
    BY <1>1, <1>2, LinkFacts
  <2>2. QED
    BY <2>1
<1>4. n \in Pos /\ g.par[n] # Null /\ g.kind[n] \in {"else", "endif"}
  BY <1>1, <1>3 DEF LinksInOrder, InFile
<1>5. CASE g.kind[n] = "endif"
  <2>1. n \in Ends(g)
    BY <1>4, <1>5 DEF Ends
  <2>2. CutFrom(g, k, {p, n})
    <3>1. {n, p} = {p, n}
      OBVIOUS
    <3>2. QED
      BY <1>5, <3>1 DEF IfUnlinked
  <2>3. p \in {p, n}
    OBVIOUS
  <2> HIDE DEF n
  <2>4. QED
    BY <1>1, <1>3, <2>1, <2>2, <2>3, PairDropped
<1>6. CASE g.kind[n] = "else"
  <2>1. /\ k.kind = [g.kind EXCEPT ![n] = "if", ![p] = "cpp"]
        /\ k.pv = [g.pv EXCEPT ![n] = Null, ![p] = Null]
        /\ k.par = [g.par EXCEPT ![p] = Null]
    BY <1>6 DEF IfUnlinked
  <2>2. PICK e \in Ends(g) : p \in Back(g, {e})
    BY <1>1, ChainEnds
  <2>3. e \in Pos /\ p # e /\ n # e
    BY <1>6, EndFacts DEF Ends
  <2> HIDE DEF n
  <2>4. n \in Back(g, {e})
    BY <1>1, <2>2, <2>3, WalkLinked DEF n
  <2>5. /\ k.pv[n] = Null /\ k.pv[p] = Null
        /\ \A q \in Pos : q # p /\ q # n => k.pv[q] = g.pv[q]
    BY <1>1, <1>3, <2>1, HeapFields, NullOutside
  <2>6. Back(k, {e}) = Back(g, {e}) \ {p}
    BY <1>1, <2>2, <2>3, <2>5, WalkSpliced DEF n
  <2>7. Ends(k) = (Ends(g) \ {e}) \cup {e}
    <3>1. ASSUME NEW q \in Pos
          PROVE  q \in Ends(k) <=> q \in Ends(g)
      BY <1>1, <1>3, <1>6, <2>1, HeapFields, NullOutside DEF Ends
    <3>2. QED
      BY <3>1 DEF Ends
  <2>8. \A q \in Pos \ Back(g, {e}) : k.pv[q] = g.pv[q]
    BY <2>2, <2>4, <2>5
  <2>9. n \in Back(k, {e})
    BY <1>3, <2>4, <2>6
  <2>10. QED
    BY <1>1, <2>2, <2>3, <2>6, <2>7, <2>8, <2>9, RestKept
<1>7. QED
  BY <1>4, <1>5, <1>6

LEMMA UnlinkEndifDrops ==
  ASSUME NEW g \in Heap, NEW k \in Heap, InShape(g), InFile(g), LinksInOrder(k),
         NEW p \in Pos, g.kind[p] = "endif", EndifUnlinked(g, k, p)
  PROVE  Dropped(g, k, p)
<1> DEFINE v == g.pv[p]
<1>1. /\ LinksInOrder(g) /\ BranchesLinked(g)
      /\ p \in Id /\ p # Null /\ g.par[p] # Null /\ p \in Nat
  <2>1. LinksInOrder(g) /\ BranchesLinked(g) /\ p \in Id /\ p # Null /\ p \in Nat
    BY NullOutside DEF InShape
  <2>2. QED
    BY <2>1 DEF BranchesLinked, BranchKinds
<1>2. p \in Ends(g)
  BY <1>1 DEF Ends
<1>3. v # Null
  BY <1>1 DEF LinksInOrder
<1>4. v \in Pos /\ v < p /\ g.nx[v] = p /\ v \in Id
  BY <1>1, <1>3, LinkFacts, NullOutside
<1>5. g.kind[v] \in {"if", "else"} /\ g.par[v] # Null
  BY <1>1, <1>4 DEF LinksInOrder
<1>6. CASE g.kind[v] = "if"
  <2>1. g.pv[v] = Null
    BY <1>1, <1>4, <1>6 DEF LinksInOrder
  <2>2. CutFrom(g, k, {v, p}) /\ p \in {v, p}
    BY <1>6 DEF EndifUnlinked
  <2>3. g.pv[p] = v
    OBVIOUS
  <2> HIDE DEF v
  <2>4. QED
    BY <1>1, <1>2, <1>4, <2>1, <2>2, <2>3, PairDropped
<1>7. CASE g.kind[v] = "else"
  <2>1. /\ k.kind = [g.kind EXCEPT ![v] = "endif", ![p] = "cpp"]
        /\ k.pv = [g.pv EXCEPT ![p] = Null]
        /\ k.par = [g.par EXCEPT ![p] = Null]
    BY <1>7 DEF EndifUnlinked
  <2>2. Back(g, {p}) = Back(g, {v}) \cup {p}
    BY <1>1, <1>3, WalkUnrolled
  <2> HIDE DEF v
  <2>3. p \notin Back(g, {v}) /\ Back(g, {v}) \in SUBSET Pos /\ v \in Back(g, {v})
    <3>1. \A q \in Back(g, {v}) : q <= v
      BY <1>1, <1>4, WalkBelow
    <3>2. ~(p <= v)
      <4>1. v \in Nat
        BY <1>4, NullOutside
      <4>2. QED
        BY <1>1, <1>4, <4>1
    <3>3. QED
      BY <1>1, <1>4, <3>1, <3>2, WalkFacts
  <2>4. \A q \in Pos : q # p => k.pv[q] = g.pv[q]
    BY <1>1, <2>1, HeapFields, NullOutside
  <2>5. Back(k, {v}) = Back(g, {p}) \ {p}
    <3>1. Back(k, {v}) = Back(g, {v})
      BY <1>1, <1>4, <2>3, <2>4, WalkKept
    <3>2. QED
      BY <2>2, <2>3, <3>1
  <2>6. Ends(k) = (Ends(g) \ {p}) \cup {v}
    <3>1. ASSUME NEW q \in Pos
          PROVE  q \in Ends(k) <=> q = v \/ (q \in Ends(g) /\ q # p)
      <4>1. v # p /\ q \in Id
        BY <1>1, <2>3, NullOutside
      <4>2. /\ k.kind[p] = "cpp" /\ k.kind[v] = "endif" /\ k.par[v] # Null
            /\ q # p => k.par[q] = g.par[q]
            /\ q # p /\ q # v => k.kind[q] = g.kind[q]
        BY <1>1, <1>4, <1>5, <2>1, <4>1, HeapFields
      <4>3. QED
        BY <1>4, <4>1, <4>2 DEF Ends
    <3>2. QED
      BY <1>4, <3>1 DEF Ends
  <2>7. p \in Back(g, {p}) /\ \A q \in Pos \ Back(g, {p}) : k.pv[q] = g.pv[q]
    BY <1>1, <2>4, WalkFacts
  <2>8. g.pv[v] # Null /\ g.pv[v] # v
    <3>1. g.pv[v] # Null
      BY <1>1, <1>4, <1>5, <1>7 DEF LinksInOrder
    <3>2. g.pv[v] \in Pos /\ g.pv[v] < v /\ v \in Nat
      BY <1>1, <1>4, <3>1, LinkFacts
    <3>3. QED
      BY <3>1, <3>2
  <2>9. g.pv[v] \in Back(k, {v})
    <3>1. ClosedUnderPv(g, Back(g, {v}))
      BY <1>1, <1>4, WalkFacts
    <3>2. QED
      BY <2>2, <2>3, <2>5, <2>8, <3>1 DEF ClosedUnderPv
  <2> DEFINE a == g.pv[v]
  <2>10. a \in Back(k, {v}) /\ a # v
    BY <2>8, <2>9
  <2> HIDE DEF a
  <2>11. QED
    BY <1>1, <1>2, <1>4, <2>5, <2>6, <2>7, <2>10, RestKept
<1>8. QED
  BY <1>5, <1>6, <1>7

LEMMA UnlinkElseDrops ==
  ASSUME NEW g \in Heap, NEW k \in Heap, InShape(g), InFile(g), LinksInOrder(k),
         NEW p \in Pos, g.kind[p] = "else", ElseUnlinked(g, k, p)
  PROVE  Dropped(g, k, p)
<1> DEFINE n == g.nx[p]
           v == g.pv[p]
<1>1. /\ LinksInOrder(g) /\ BranchesLinked(g) /\ g.kind[p] \in BranchKinds
      /\ p \in Id /\ p # Null /\ g.par[p] # Null /\ p \in Nat
  <2>1. LinksInOrder(g) /\ BranchesLinked(g) /\ p \in Id /\ p # Null /\ p \in Nat
    BY NullOutside DEF InShape
  <2>2. QED
    BY <2>1 DEF BranchesLinked, BranchKinds
<1>2. n # Null /\ v # Null
  BY <1>1 DEF LinksInOrder, BranchesLinked
<1>3. v \in Pos /\ v # p /\ g.nx[v] = p
  <2>1. v \in Pos /\ v < p /\ g.nx[v] = p
    BY <1>1, <1>2, LinkFacts
  <2>2. QED
    BY <1>1, <2>1, NullOutside
<1>4. n \in Id /\ n # p
  <2>1. n \in Id /\ p < n
    BY <1>1, <1>2, LinkFacts
  <2>2. QED
    BY <1>1, <2>1
<1>5. PICK e \in Ends(g) : p \in Back(g, {e})
  BY <1>1, ChainEnds
<1>6. e \in Pos /\ p # e /\ v # e
  BY <1>1, <1>3, EndFacts DEF Ends
<1>7. n \in Back(g, {e}) /\ v \in Back(g, {e})
  <2>1. n \in Back(g, {e})
    BY <1>1, <1>5, <1>6, WalkLinked
  <2>2. ClosedUnderPv(g, Back(g, {e}))
    BY <1>1, <1>6, WalkFacts
  <2>3. QED
    BY <1>2, <1>5, <2>1, <2>2 DEF ClosedUnderPv
<1>8. /\ k.pv[n] = v /\ k.pv[p] = Null
      /\ \A q \in Pos : q # p /\ q # n => k.pv[q] = g.pv[q]
  BY <1>1, <1>3, <1>4, HeapFields, NullOutside DEF ElseUnlinked
<1>9. Back(k, {e}) = Back(g, {e}) \ {p}
  <2>1. /\ k.pv[g.nx[p]] = g.pv[p] /\ k.pv[p] = Null
        /\ \A q \in Pos : q # p /\ q # g.nx[p] => k.pv[q] = g.pv[q]
    BY <1>8
  <2>2. LinksInOrder(g) /\ e \in Pos /\ p \in Back(g, {e}) /\ p # e
    BY <1>1, <1>5, <1>6
  <2> HIDE DEF n, v
  <2>3. QED
    BY <2>1, <2>2, WalkSpliced
<1>10. Ends(k) = (Ends(g) \ {e}) \cup {e}
  <2>1. ASSUME NEW q \in Pos
        PROVE  q \in Ends(k) <=> q \in Ends(g)
    BY <1>1, HeapFields, NullOutside DEF Ends, ElseUnlinked
  <2>2. QED
    BY <2>1 DEF Ends
<1>11. \A q \in Pos \ Back(g, {e}) : k.pv[q] = g.pv[q]
  BY <1>5, <1>7, <1>8
<1>12. v \in Back(k, {e})
  BY <1>3, <1>7, <1>9
<1> HIDE DEF v, n
<1>13. QED
  BY <1>1, <1>5, <1>6, <1>9, <1>10, <1>11, <1>12, RestKept

\* Unlinking any branch drops it, and nothing else, from its chain.
LEMMA UnlinkDrops ==
  ASSUME NEW g \in Heap, InShape(g), InFile(g), NEW p \in Pos,
         g.kind[p] \in BranchKinds
  PROVE  Dropped(g, Unlink(g, p), p)
<1>1. p \in Id
  BY NullOutside
<1>2. Unlink(g, p) \in Heap /\ LinksInOrder(Unlink(g, p))
  BY <1>1, UnlinkLemma DEF InShape
<1>3. CASE g.kind[p] = "if"
  <2>1. Unlink(g, p) = UnlinkIf(g, p)
    BY <1>3 DEF Unlink
  <2>2. IfUnlinked(g, UnlinkIf(g, p), p)
    BY <1>1, <1>3, UnlinkIfLemma
  <2>3. QED
    BY <1>2, <1>3, <2>1, <2>2, UnlinkIfDrops
<1>4. CASE g.kind[p] = "else"
  <2>1. Unlink(g, p) = UnlinkElse(g, p)
    BY <1>4 DEF Unlink
  <2>2. ElseUnlinked(g, UnlinkElse(g, p), p)
    BY <1>1, <1>4, UnlinkElseLemma
  <2>3. QED
    BY <1>2, <1>4, <2>1, <2>2, UnlinkElseDrops
<1>5. CASE g.kind[p] = "endif"
  <2>1. Unlink(g, p) = UnlinkEndif(g, p)
    BY <1>5 DEF Unlink
  <2>2. EndifUnlinked(g, UnlinkEndif(g, p), p)
    BY <1>1, <1>5, UnlinkEndifLemma
  <2>3. QED
    BY <1>2, <1>5, <2>1, <2>2, UnlinkEndifDrops
<1>6. QED
  BY <1>3, <1>4, <1>5 DEF BranchKinds

-----------------------------------------------------------------------------
(* The steps of the specification are steps of Conditionals.                 *)

OpenGroups(g, s) == [i \in DOMAIN s |-> Back(g, {s[i]})]

LEMMA GroupsAre ==
  /\ Groups = Chains(h)
  /\ Grouping!vars = <<OpenGroups(h, stack), Chains(h)>>
  /\ Grouping!vars' = <<OpenGroups(h', stack'), Chains(h')>>
  /\ Grouping!Members = UNION (Chains(h) \cup {OpenGroups(h, stack)[i] :
                                                 i \in DOMAIN OpenGroups(h, stack)})
<1>1. Groups = Chains(h)
  BY DEF Groups, Chains, WalksFrom, Ends
<1>2. Grouping!vars' = <<OpenGroups(h', stack'), Chains(h')>>
  BY DEF Grouping!vars, OpenGroups, Groups, Chains, WalksFrom, Ends
<1>3. QED
  BY <1>1, <1>2 DEF Grouping!vars, Grouping!Members, OpenGroups

LEMMA GroupFacts ==
  ASSUME IInv
  PROVE  /\ h \in Heap /\ LinksInOrder(h) /\ InFile(h)
         /\ stack \in Seq(Pos) /\ DOMAIN stack = 1..Len(stack)
         /\ \A i \in DOMAIN stack : stack[i] \in Pos /\ h.par[stack[i]] # Null
                                    /\ h.nx[stack[i]] = Null
         /\ Distinct(stack)
<1>1. h \in Heap /\ LinksInOrder(h) /\ stack \in Seq(Pos)
  BY DEF IInv, TypeOK, ChainsWellFormed
<1>2. InFile(h)
  <2> SUFFICES ASSUME NEW p \in Id, h.par[p] # Null
               PROVE  p \in Pos
    BY DEF InFile
  <2>1. lk \in Nat /\ lk <= MaxLen /\ MaxLen \in Nat
    BY MaxLenAssumption DEF IInv, TypeOK
  <2>2. ~(p >= lk) /\ p \in Nat /\ p >= 1
    BY MaxLenAssumption DEF IInv, ReadOK, Id
  <2>3. QED
    BY <2>1, <2>2 DEF Pos
<1>3. \A i \in DOMAIN stack : stack[i] \in Pos
  BY <1>1, ElementsOf
<1>4. QED
  BY <1>1, <1>2, <1>3 DEF IInv, StackOK

\* The links stay, and so do the branches that end a chain.
LEMMA GroupsStay ==
  ASSUME stack' = stack, h'.pv = h.pv,
         \A p \in Pos : p \in Ends(h') <=> p \in Ends(h)
  PROVE  UNCHANGED Grouping!vars
<1>1. Ends(h') = Ends(h)
  BY DEF Ends
<1>2. \A S : Back(h', S) = Back(h, S)
  BY BackOfLinks
<1>3. Chains(h') = Chains(h)
  BY <1>1, <1>2 DEF Chains, WalksFrom
<1>4. OpenGroups(h', stack) = OpenGroups(h, stack)
  BY <1>2 DEF OpenGroups
<1>5. QED
  BY <1>3, <1>4, GroupsAre

\* What is read is not linked yet.
LEMMA ReadStays ==
  ASSUME IInv, NEW kind, ReadPrefix(kind) \/ ReadToken(kind)
  PROVE  UNCHANGED Grouping!vars
<1>1. h \in Heap /\ phase = "read" /\ Linked /\ stack' = stack
  BY DEF IInv, TypeOK, ReadPrefix, ReadToken, Reading
<1>2. h'.kind = [h.kind EXCEPT ![rd] = kind] /\ h'.pv = h.pv /\ h'.par = h.par
  BY <1>1 DEF Heap, ReadPrefix, ReadToken
<1>3. rd \in Nat /\ tk < rd /\ lk = tk
  BY <1>1, MaxLenAssumption DEF IInv, TypeOK, Linked
<1>4. ASSUME NEW p \in Pos
      PROVE  p \in Ends(h') <=> p \in Ends(h)
  <2>1. p \in Id
    BY NullOutside
  <2>2. CASE p = rd
    <3>1. p >= lk
      BY <1>3, <2>2, MaxLenAssumption DEF IInv, TypeOK
    <3>2. h.par[p] = Null
      BY <2>1, <3>1 DEF IInv, ReadOK
    <3>3. QED
      BY <1>2, <3>2 DEF Ends
  <2>3. CASE p # rd
    <3>1. h'.kind[p] = h.kind[p]
      BY <1>1, <1>2, <2>1, <2>3, HeapFields
    <3>2. QED
      BY <1>2, <3>1 DEF Ends
  <2>4. QED
    BY <2>2, <2>3
<1>5. QED
  BY <1>1, <1>2, <1>4, GroupsStay

\* Neither the place in the file nor the lists matter.
LEMMA SameStays ==
  ASSUME stack' = stack, h'.pv = h.pv, h'.kind = h.kind,
         \A p \in Id : h'.par[p] = Null <=> h.par[p] = Null
  PROVE  UNCHANGED Grouping!vars
<1>1. \A p \in Pos : p \in Ends(h') <=> p \in Ends(h)
  BY NullOutside DEF Ends
<1>2. QED
  BY <1>1, GroupsStay

LEMMA RemoveStays ==
  ASSUME IInv, phase # "read", UNCHANGED readVars,
         NEW t \in Pos, Removable(t), h' = LexerRemove(h, t)
  PROVE  UNCHANGED Grouping!vars
<1>1. /\ h \in Heap /\ LinksInOrder(h) /\ t \in Id /\ t \in ToSet(h.toks)
      /\ stack' = stack
  BY GroupFacts, NullOutside DEF Removable, InList, readVars
<1>2. BranchesParented(h) /\ ParentsHoldIn(h)
  BY ReadMeansParented DEF IInv
<1>3. Distinct(h.toks) /\ Last(h.toks) # t
  BY DEF IInv, ReadOK, ListOK, AtEof, Removable
<1>4. /\ h'.kind = h.kind /\ h'.pv = h.pv
      /\ \A p \in Id : h'.par[p] = Null <=> h.par[p] = Null
  BY <1>1, <1>2, <1>3, LexerRemoveLemma
<1>5. QED
  BY <1>1, <1>4, SameStays

LEMMA MoveStays ==
  ASSUME IInv, NEW src \in Pos, NEW dst \in Pos, LexerMovePrefixes(src, dst)
  PROVE  UNCHANGED Grouping!vars
<1>1. /\ phase = "parse" /\ src \in Id /\ dst \in Id /\ src # dst
      /\ dst \in ToSet(h.toks) /\ h' = MovePrefixes(h, src, dst)
      /\ stack' = stack
  BY NullOutside DEF LexerMovePrefixes, InList, readVars
<1>2. h \in Heap /\ LinksInOrder(h) /\ ParentsHoldIn(h) /\ BranchesParented(h)
  BY <1>1, GroupFacts, ReadMeansParented DEF IInv
<1>3. /\ h'.kind = h.kind /\ h'.pv = h.pv
      /\ \A p \in Id : h'.par[p] = Null <=> h.par[p] = Null
  BY <1>1, <1>2, MovePrefixesLemma
<1>4. QED
  BY <1>1, <1>3, SameStays

LEMMA DropStays ==
  ASSUME IInv, NEW t, NEW p, DropPrefix(t, p)
  PROVE  UNCHANGED Grouping!vars
<1>1. h \in Heap /\ h' = RemovePrefix(h, t, p) /\ stack' = stack
  BY GroupFacts DEF DropPrefix, readVars
<1>2. h'.kind = h.kind /\ h'.pv = h.pv /\ h'.par = h.par
  BY <1>1 DEF RemovePrefix, Heap
<1>3. QED
  BY <1>1, <1>2, SameStays

\* A branch without an #if gets into no group.
LEMMA OrphanStays ==
  ASSUME IInv, phase = "read", lk < tk, stack' = stack,
         h' = RevertAll(h, {lk})
  PROVE  UNCHANGED Grouping!vars
<1>1. /\ lk \in Id /\ {lk} \in SUBSET Id /\ h \in Heap
      /\ h.par[lk] = Null /\ h.pv[lk] = Null
  BY LinkingFacts, GroupFacts
<1>2. h' \in Heap /\ CutFrom(h, h', {lk})
  BY <1>1, RevertAllLemma
<1>3. h'.pv = h.pv
  <2>1. \A p \in Id : h'.pv[p] = h.pv[p]
    BY <1>1, <1>2 DEF CutFrom
  <2>2. h'.pv \in [Id -> Id \cup {Null}] /\ h.pv \in [Id -> Id \cup {Null}]
    BY <1>1, <1>2, HeapFields
  <2>3. QED
    BY <2>1, <2>2
<1>4. \A p \in Pos : p \in Ends(h') <=> p \in Ends(h)
  BY <1>1, <1>2, NullOutside DEF CutFrom, Ends
<1>5. QED
  BY <1>3, <1>4, GroupsStay

LEMMA OpenSeq ==
  ASSUME NEW g, NEW s \in Seq(Pos)
  PROVE  /\ OpenGroups(g, s) \in Seq(SUBSET Pos)
         /\ Len(OpenGroups(g, s)) = Len(s) /\ Len(s) \in Nat
         /\ DOMAIN OpenGroups(g, s) = 1..Len(s)
         /\ \A i \in 1..Len(s) : OpenGroups(g, s)[i] = Back(g, {s[i]})
<1> DEFINE n == Len(s)
           G == OpenGroups(g, s)
<1>1. n \in Nat /\ DOMAIN s = 1..n
  OBVIOUS
<1>2. \A S : Back(g, S) \in SUBSET Pos
  BY DEF Back
<1>3. G = [i \in 1..n |-> Back(g, {s[i]})]
  BY <1>1 DEF OpenGroups
<1> HIDE DEF n, G
<1>4. G \in [1..n -> SUBSET Pos]
  BY <1>2, <1>3
<1>5. G \in Seq(SUBSET Pos) /\ Len(G) = n
  BY <1>1, <1>4
<1>6. QED
  BY <1>1, <1>3, <1>4, <1>5 DEF n, G

\* Sequences are equal when their elements are.
LEMMA SameSeq ==
  ASSUME NEW S, NEW s \in Seq(S), NEW t \in Seq(S), Len(s) = Len(t),
         \A i \in 1..Len(s) : s[i] = t[i]
  PROVE  s = t
<1>1. s \in [1..Len(s) -> S] /\ t \in [1..Len(s) -> S]
  OBVIOUS
<1>2. s = [i \in 1..Len(s) |-> s[i]] /\ t = [i \in 1..Len(s) |-> t[i]]
  BY <1>1
<1>3. QED
  BY <1>2

LEMMA MembersParented ==
  ASSUME IInv
  PROVE  \A q \in Grouping!Members : q \in Id /\ h.par[q] # Null
<1>1. /\ h \in Heap /\ LinksInOrder(h) /\ stack \in Seq(Pos)
      /\ \A i \in DOMAIN stack : stack[i] \in Pos /\ h.par[stack[i]] # Null
  BY GroupFacts
<1>2. ASSUME NEW p \in Pos, h.par[p] # Null
      PROVE  \A q \in Back(h, {p}) : q \in Id /\ h.par[q] # Null
  <2>1. {p} \in SUBSET Pos /\ \A r \in {p} : h.par[r] # Null
    BY <1>2
  <2>2. QED
    BY <1>1, <2>1, BackParented
<1>3. ASSUME NEW C \in Chains(h), NEW q \in C
      PROVE  q \in Id /\ h.par[q] # Null
  BY <1>2, <1>3 DEF Chains, WalksFrom, Ends
<1>4. ASSUME NEW i \in DOMAIN OpenGroups(h, stack), NEW q \in OpenGroups(h, stack)[i]
      PROVE  q \in Id /\ h.par[q] # Null
  BY <1>1, <1>2, <1>4 DEF OpenGroups
<1>5. QED
  BY <1>3, <1>4, GroupsAre

\* Positions are read in order: what gets linked comes after what was.
LEMMA LinkedLast ==
  ASSUME IInv, phase = "read", lk < tk
  PROVE  Grouping!Fresh(lk)
<1> SUFFICES ASSUME NEW q \in Grouping!Members
             PROVE  q < lk
  BY DEF Grouping!Fresh
<1>1. q \in Id /\ h.par[q] # Null /\ lk \in Nat
  BY MembersParented, LinkingFacts
<1>2. ~(q >= lk)
  BY <1>1 DEF IInv, ReadOK
<1>3. QED
  BY <1>1, <1>2, NullOutside

LEMMA EnterGroups ==
  ASSUME IInv, BranchEnter
  PROVE  Grouping!If(lk)
<1>1. /\ phase = "read" /\ lk < tk /\ h.kind[lk] = "if"
      /\ h' = SetParent(h, lk, tk) /\ stack' = Append(stack, lk)
  BY DEF BranchEnter, Linking
<1>2. /\ lk \in Pos /\ lk \in Id /\ tk \in Id /\ h.pv[lk] = Null
      /\ h \in Heap /\ LinksInOrder(h) /\ stack \in Seq(Pos)
  BY <1>1, LinkingFacts, GroupFacts
<1>3. /\ h'.kind = h.kind /\ h'.pv = h.pv
      /\ \A p \in Id : p # lk => h'.par[p] = h.par[p]
  <2>1. /\ h'.kind = h.kind /\ h'.pv = h.pv
        /\ h'.par = [h.par EXCEPT ![lk] = tk]
    BY <1>1, <1>2, SetParentLemma
  <2>2. QED
    BY <1>2, <2>1, HeapFields
<1>4. Chains(h') = Chains(h)
  <2>1. \A p \in Pos : p \in Ends(h') <=> p \in Ends(h)
    BY <1>1, <1>3, NullOutside DEF Ends
  <2>2. Ends(h') = Ends(h)
    BY <2>1 DEF Ends
  <2>3. QED
    BY <1>3, <2>2, BackOfLinks DEF Chains, WalksFrom
<1>5. \A S : Back(h', S) = Back(h, S)
  BY <1>3, BackOfLinks
<1>6. OpenGroups(h', stack') = Append(OpenGroups(h, stack), {lk})
  <2> DEFINE G == OpenGroups(h, stack)
             n == Len(stack)
  <2>1. /\ G \in Seq(SUBSET Pos) /\ Len(G) = n /\ n \in Nat /\ DOMAIN G = 1..n
        /\ \A i \in 1..n : G[i] = Back(h, {stack[i]})
    BY <1>2, OpenSeq
  <2>2. Back(h', {lk}) = {lk}
    BY <1>2, <1>5, WalkUnrolled
  <2>3. /\ stack' \in Seq(Pos) /\ Len(stack') = n + 1 /\ stack'[n + 1] = lk
        /\ \A i \in 1..n : stack'[i] = stack[i]
    BY <1>1, <1>2
  <2> DEFINE K == OpenGroups(h', stack')
             A == Append(G, {lk})
  <2>4. /\ K \in Seq(SUBSET Pos) /\ Len(K) = n + 1
        /\ \A i \in 1..(n + 1) : K[i] = Back(h', {stack'[i]})
    BY <2>3, OpenSeq
  <2>5. {lk} \in SUBSET Pos
    BY <1>2
  <2> HIDE DEF G, n, K
  <2>6. /\ A \in Seq(SUBSET Pos) /\ Len(A) = n + 1 /\ A[n + 1] = {lk}
        /\ \A i \in 1..n : A[i] = G[i]
    BY <2>1, <2>5
  <2> HIDE DEF A
  <2>7. \A i \in 1..Len(K) : K[i] = A[i]
    <3>1. ASSUME NEW i \in 1..n
          PROVE  K[i] = A[i]
      <4>1. i \in 1..(n + 1)
        BY <2>1
      <4>2. K[i] = Back(h', {stack[i]})
        BY <2>3, <2>4, <4>1
      <4>3. A[i] = Back(h, {stack[i]})
        BY <2>1, <2>6
      <4>4. QED
        BY <1>5, <4>2, <4>3
    <3>2. K[n + 1] = A[n + 1]
      BY <2>1, <2>2, <2>3, <2>4, <2>6
    <3>3. QED
      BY <2>1, <2>4, <3>1, <3>2
  <2>8. K = A
    BY <2>4, <2>6, <2>7, SameSeq
  <2>9. QED
    BY <2>8 DEF G, K, A
<1>7. QED
  BY <1>1, <1>4, <1>6, LinkedLast
     DEF Grouping!If, OpenGroups, Groups, Chains, WalksFrom, Ends

\* Linking to the innermost open branch extends its walk and no other one.
LEMMA TopWalks ==
  ASSUME RInv, phase = "read", lk < tk, h.kind[lk] \in {"else", "endif"},
         stack # <<>>, NEW k \in Heap, LinksInOrder(k), k.pv = LinkToTop(h).pv
  PROVE  /\ \A x \in Pos : h.par[x] # Null => Back(k, {x}) = Back(h, {x})
         /\ Last(stack) \in Pos
         /\ Back(k, {lk}) = Back(h, {Last(stack)}) \cup {lk}
<1> DEFINE s == Last(stack)
<1>1. /\ h \in Heap /\ LinksInOrder(h) /\ stack \in Seq(Pos)
      /\ lk \in Pos /\ h.par[lk] = Null
      /\ \A i \in DOMAIN stack : stack[i] \in Pos /\ h.par[stack[i]] # Null
  BY GroupFacts, LinkingFacts DEF RInv
<1>2. s \in Pos /\ h.par[s] # Null
  <2>1. Len(stack) \in DOMAIN stack
    BY <1>1
  <2>2. QED
    BY <1>1, <2>1 DEF Last
<1> HIDE DEF s
<1>3. k.pv[lk] = s /\ \A q \in Id : q # lk => k.pv[q] = h.pv[q]
  BY TopFields DEF s
<1>4. ASSUME NEW x \in Pos, h.par[x] # Null
      PROVE  Back(k, {x}) = Back(h, {x})
  <2>1. {x} \in SUBSET Pos /\ \A r \in {x} : h.par[r] # Null
    BY <1>4
  <2>2. \A q \in Back(h, {x}) : q \in Id /\ h.par[q] # Null
    BY <1>1, <2>1, BackParented
  <2>3. \A q \in Back(h, {x}) : k.pv[q] = h.pv[q]
    BY <1>1, <1>3, <2>2
  <2>4. QED
    BY <1>1, <2>3, WalkKept
<1>5. Back(k, {lk}) = Back(k, {s}) \cup {lk}
  <2>1. k.pv[lk] # Null
    BY <1>2, <1>3, NullOutside
  <2>2. QED
    BY <1>1, <1>3, <2>1, WalkUnrolled
<1>6. QED
  BY <1>2, <1>4, <1>5 DEF s

LEMMA LinkGroups ==
  ASSUME RInv, BranchLink, stack # <<>>
  PROVE  Grouping!Else(lk)
<1> DEFINE G == OpenGroups(h, stack)
           K == OpenGroups(h', stack')
           n == Len(stack)
           E == [G EXCEPT ![n] = @ \cup {lk}]
<1>1. /\ phase = "read" /\ lk < tk /\ h.kind[lk] = "else"
      /\ h' = LinkToTop(h) /\ stack' = [stack EXCEPT ![Len(stack)] = lk]
      /\ IInv
  BY DEF BranchLink, Linking, RInv
<1>2. /\ lk \in Pos /\ h \in Heap /\ LinksInOrder(h) /\ stack \in Seq(Pos)
      /\ \A i \in DOMAIN stack : stack[i] \in Pos /\ h.par[stack[i]] # Null
  BY <1>1, LinkingFacts, GroupFacts
<1>3. /\ h' \in Heap /\ LinksInOrder(h') /\ h'.kind = h.kind
      /\ \A p \in Id : p # lk => h'.par[p] = h.par[p]
  BY <1>1, LinkToTopLemma
<1>4. /\ \A x \in Pos : h.par[x] # Null => Back(h', {x}) = Back(h, {x})
      /\ Back(h', {lk}) = Back(h, {Last(stack)}) \cup {lk}
  BY <1>1, <1>3, TopWalks
<1>5. Chains(h') = Chains(h)
  <2>1. \A p \in Pos : p \in Ends(h') <=> p \in Ends(h)
    BY <1>1, <1>3, NullOutside DEF Ends
  <2>2. Ends(h') = Ends(h)
    BY <2>1 DEF Ends
  <2>3. \A p \in Ends(h) : Back(h', {p}) = Back(h, {p})
    BY <1>4 DEF Ends
  <2>4. QED
    BY <2>2, <2>3 DEF Chains, WalksFrom
<1>6. /\ n \in Nat /\ n \in 1..n /\ stack' \in Seq(Pos) /\ Len(stack') = n
      /\ stack'[n] = lk /\ Last(stack) = stack[n]
      /\ \A i \in 1..n : i # n => stack'[i] = stack[i]
      /\ DOMAIN stack = 1..n
  BY <1>1, <1>2 DEF Last
<1>7. /\ G \in Seq(SUBSET Pos) /\ Len(G) = n
      /\ \A i \in 1..n : G[i] = Back(h, {stack[i]})
      /\ K \in Seq(SUBSET Pos) /\ Len(K) = n
      /\ \A i \in 1..n : K[i] = Back(h', {stack'[i]})
  BY <1>2, <1>6, OpenSeq
<1> HIDE DEF G, K, n
<1>8. /\ E \in Seq(SUBSET Pos) /\ Len(E) = n /\ E[n] = G[n] \cup {lk}
      /\ \A i \in 1..n : i # n => E[i] = G[i]
  <2>1. G[n] \cup {lk} \in SUBSET Pos
    BY <1>2, <1>6, <1>7
  <2>2. QED
    BY <1>6, <1>7, <2>1
<1> HIDE DEF E
<1>9. ASSUME NEW i \in 1..n
      PROVE  K[i] = E[i]
  <2>1. CASE i = n
    <3>1. K[n] = Back(h', {lk})
      BY <1>6, <1>7
    <3>2. QED
      BY <1>4, <1>6, <1>7, <1>8, <2>1, <3>1
  <2>2. CASE i # n
    <3>1. K[i] = Back(h', {stack[i]}) /\ E[i] = Back(h, {stack[i]})
      BY <1>6, <1>7, <1>8, <2>2
    <3>2. QED
      BY <1>2, <1>4, <1>6, <3>1
  <2>3. QED
    BY <2>1, <2>2
<1>10. K = E
  BY <1>7, <1>8, <1>9, SameSeq
<1>11. G # <<>>
  BY <1>6, <1>7
<1>12. OpenGroups(h', stack') = [OpenGroups(h, stack) EXCEPT
                                   ![Len(OpenGroups(h, stack))] = @ \cup {lk}]
  BY <1>7, <1>10 DEF G, K, E
<1>13. QED
  BY <1>1, <1>5, <1>11, <1>12, LinkedLast
     DEF Grouping!Else, G, OpenGroups, Groups, Chains, WalksFrom, Ends

LEMMA LeaveGroups ==
  ASSUME RInv, BranchLeave, stack # <<>>
  PROVE  Grouping!Endif(lk)
<1> DEFINE G == OpenGroups(h, stack)
           K == OpenGroups(h', stack')
           n == Len(stack)
           E == SubSeq(G, 1, n - 1)
           g == LinkToTop(h)
           T == ParentsOf(g, Back(g, {lk}))
<1>1. /\ phase = "read" /\ lk < tk /\ h.kind[lk] = "endif"
      /\ h' = UpdateFlagsOf(g, T) /\ stack' = Front(stack)
      /\ IInv
  BY DEF BranchLeave, Linking, RInv
<1>2. /\ lk \in Pos /\ lk \in Id /\ h.par[lk] = Null
      /\ h \in Heap /\ LinksInOrder(h) /\ stack \in Seq(Pos)
      /\ \A i \in DOMAIN stack : stack[i] \in Pos /\ h.par[stack[i]] # Null
  BY <1>1, LinkingFacts, GroupFacts
<1>3. /\ h' \in Heap /\ LinksInOrder(h') /\ h'.kind = h.kind /\ h'.pv = g.pv
      /\ \A p \in Id : p # lk => h'.par[p] = h.par[p]
      /\ h'.par[lk] # Null
  <2>1. /\ g \in Heap /\ LinksInOrder(g) /\ g.kind = h.kind
        /\ \A p \in Id : p # lk => g.par[p] = h.par[p]
        /\ g.par[lk] = tk /\ tk # Null
    BY <1>1, LinkToTopLemma
  <2> HIDE DEF g
  <2>2. Back(g, {lk}) \in SUBSET Id
    BY <1>2, <2>1, WalkFacts, NullOutside
  <2>3. T \in SUBSET Id
    BY <2>1, <2>2, ParentsOfType
  <2> HIDE DEF T
  <2>4. h' \in Heap /\ SameLinks(g, h')
    BY <1>1, <2>1, <2>3, UpdateFlagsOfLemma
  <2>5. LinksInOrder(h')
    BY <2>1, <2>4 DEF SameLinks, LinksInOrder
  <2>6. QED
    BY <2>1, <2>4, <2>5 DEF SameLinks
<1>4. /\ \A x \in Pos : h.par[x] # Null => Back(h', {x}) = Back(h, {x})
      /\ Back(h', {lk}) = Back(h, {Last(stack)}) \cup {lk}
  BY <1>1, <1>3, TopWalks
<1> HIDE DEF g, T
<1>5. /\ n \in Nat /\ n \in 1..n /\ stack' \in Seq(Pos) /\ Len(stack') = n - 1
      /\ Last(stack) = stack[n]
      /\ \A i \in 1..(n - 1) : stack'[i] = stack[i]
      /\ DOMAIN stack = 1..n
  <2>1. /\ n \in Nat /\ n \in 1..n /\ DOMAIN stack = 1..n
        /\ Last(stack) = stack[n] /\ stack' = SubSeq(stack, 1, n - 1)
    BY <1>1, <1>2 DEF Last, Front
  <2> HIDE DEF n
  <2>2. /\ SubSeq(stack, 1, n - 1) \in Seq(Pos)
        /\ Len(SubSeq(stack, 1, n - 1)) = n - 1
        /\ \A i \in 1..(n - 1) : SubSeq(stack, 1, n - 1)[i] = stack[i]
    BY <1>2, <2>1
  <2>3. QED
    BY <2>1, <2>2
<1>6. /\ G \in Seq(SUBSET Pos) /\ Len(G) = n
      /\ \A i \in 1..n : G[i] = Back(h, {stack[i]})
      /\ K \in Seq(SUBSET Pos) /\ Len(K) = n - 1
      /\ \A i \in 1..(n - 1) : K[i] = Back(h', {stack'[i]})
  <2>1. /\ G \in Seq(SUBSET Pos) /\ Len(G) = n
        /\ \A i \in 1..n : G[i] = Back(h, {stack[i]})
    BY <1>2, OpenSeq
  <2>2. /\ K \in Seq(SUBSET Pos) /\ Len(K) = Len(stack')
        /\ \A i \in 1..Len(stack') : K[i] = Back(h', {stack'[i]})
    BY <1>5, OpenSeq
  <2> HIDE DEF G, K, n
  <2>3. QED
    BY <1>5, <2>1, <2>2
<1> HIDE DEF G, K, n
<1>7. Chains(h') = Chains(h) \cup {G[n] \cup {lk}}
  <2>1. ASSUME NEW p \in Pos
        PROVE  p \in Ends(h') <=> p \in Ends(h) \/ p = lk
    BY <1>1, <1>2, <1>3, NullOutside DEF Ends
  <2>2. Ends(h') = Ends(h) \cup {lk}
    BY <1>2, <2>1 DEF Ends
  <2>3. \A p \in Ends(h) : Back(h', {p}) = Back(h, {p})
    BY <1>4 DEF Ends
  <2>4. Back(h', {lk}) = G[n] \cup {lk}
    BY <1>4, <1>5, <1>6
  <2>5. Chains(h') = {Back(h', {p}) : p \in Ends(h)} \cup {Back(h', {lk})}
    BY <2>2 DEF Chains, WalksFrom
  <2>6. {Back(h', {p}) : p \in Ends(h)} = {Back(h, {p}) : p \in Ends(h)}
    BY <2>3
  <2>7. QED
    BY <2>4, <2>5, <2>6 DEF Chains, WalksFrom
<1>8. /\ E \in Seq(SUBSET Pos) /\ Len(E) = n - 1
      /\ \A i \in 1..(n - 1) : E[i] = G[i]
  BY <1>5, <1>6
<1> HIDE DEF E
<1>9. ASSUME NEW i \in 1..(n - 1)
      PROVE  K[i] = E[i]
  <2>1. i \in 1..n
    BY <1>5
  <2>2. K[i] = Back(h', {stack[i]}) /\ E[i] = Back(h, {stack[i]})
    BY <1>5, <1>6, <1>8, <2>1
  <2>3. QED
    BY <1>2, <1>4, <1>5, <2>1, <2>2
<1>10. K = E
  BY <1>6, <1>8, <1>9, SameSeq
<1>11. G # <<>>
  BY <1>5, <1>6
<1>12. /\ OpenGroups(h', stack')
            = SubSeq(OpenGroups(h, stack), 1, Len(OpenGroups(h, stack)) - 1)
       /\ Chains(h') = Chains(h) \cup
            {OpenGroups(h, stack)[Len(OpenGroups(h, stack))] \cup {lk}}
  BY <1>6, <1>7, <1>10 DEF G, K, E
<1>13. QED
  BY <1>1, <1>11, <1>12, LinkedLast
     DEF Grouping!Endif, G, OpenGroups, Groups, Chains, WalksFrom, Ends

LEMMA NoOpenGroup ==
  ASSUME NEW g
  PROVE  OpenGroups(g, <<>>) = <<>>
<1>1. <<>> \in Seq(Pos) /\ Len(<<>>) = 0
  OBVIOUS
<1>2. OpenGroups(g, <<>>) \in Seq(SUBSET Pos) /\ Len(OpenGroups(g, <<>>)) = 0
  BY <1>1, OpenSeq
<1> HIDE DEF OpenGroups
<1>3. QED
  BY <1>2

\* The branches of open groups are of no complete one.
LEMMA OpenApart ==
  ASSUME IInv, NEW e \in Ends(h)
  PROVE  Back(h, {e}) \cap Open = {}
<1> DEFINE B == Back(h, {e})
           tops == ToSet(stack)
           C == Open \ B
<1>1. h \in Heap /\ LinksInOrder(h) /\ e \in Pos /\ h.nx[e] = Null
  BY GroupFacts, EndFacts
<1>2. B \in SUBSET Pos /\ \A q \in B : q = e \/ h.nx[q] \in B
  BY <1>1, WalkFacts, WalkLinked
<1>3. tops \in SUBSET Pos /\ \A q \in tops : h.nx[q] = Null /\ h.kind[q] \in {"if", "else"}
  BY GroupFacts, ToSetType DEF IInv, StackOK, ToSet
<1> HIDE DEF B, tops
<1>4. /\ tops \subseteq Open /\ Open \subseteq Pos /\ ClosedUnderPv(h, Open)
      /\ \A D \in SUBSET Pos :
             tops \subseteq D /\ ClosedUnderPv(h, D) => Open \subseteq D
  BY <1>1, <1>3, BackLemma DEF Open, tops
<1> HIDE DEF Open
<1>5. tops \subseteq C
  BY <1>2, <1>3, <1>4, NullOutside DEF Ends
<1>6. ClosedUnderPv(h, C)
  <2> SUFFICES ASSUME NEW q \in C, h.pv[q] # Null
               PROVE  h.pv[q] \in C
    BY DEF ClosedUnderPv
  <2>1. h.pv[q] \in Open /\ q \in Pos
    BY <1>4 DEF ClosedUnderPv
  <2>2. h.nx[h.pv[q]] = q /\ q # Null
    BY <1>1, <2>1, LinkFacts
  <2>3. h.pv[q] \notin B
    BY <1>1, <1>2, <2>2
  <2>4. QED
    BY <2>1, <2>3
<1>7. C \in SUBSET Pos
  BY <1>4
<1>8. Open \subseteq C
  BY <1>4, <1>5, <1>6, <1>7
<1>9. QED
  BY <1>8 DEF B

LEMMA PurgeGroups ==
  ASSUME RInv, BranchPurge
  PROVE  Grouping!Abandon
<1>1. /\ IInv /\ IInv' /\ stack' = <<>> /\ h' = RevertAll(h, Open)
  BY PurgeStep DEF RInv, BranchPurge, Open
<1>2. /\ h \in Heap /\ LinksInOrder(h) /\ h' \in Heap /\ LinksInOrder(h')
      /\ Open \in SUBSET Id
  BY <1>1, OpenFacts DEF IInv, TypeOK, ChainsWellFormed
<1>3. CutFrom(h, h', Open)
  BY <1>1, <1>2, RevertAllLemma
<1> HIDE DEF Open
<1>4. ASSUME NEW e \in Ends(h)
      PROVE  Back(h', {e}) = Back(h, {e}) /\ e \in Ends(h')
  <2>1. Back(h, {e}) \cap Open = {}
    BY <1>1, OpenApart
  <2>2. e \in Pos /\ e \in Id /\ e \in Back(h, {e}) /\ Back(h, {e}) \in SUBSET Id
    BY <1>2, EndFacts, WalkFacts, NullOutside
  <2>3. \A q \in Back(h, {e}) : q \in Id \ Open
    BY <2>1, <2>2
  <2>4. Back(h', {e}) = Back(h, {e})
    BY <1>2, <1>3, <2>2, <2>3, WalkKept DEF CutFrom
  <2>5. QED
    BY <1>3, <2>2, <2>3, <2>4 DEF CutFrom, Ends
<1>5. ASSUME NEW e \in Ends(h')
      PROVE  e \in Ends(h)
  BY <1>3, <1>5, NullOutside DEF CutFrom, Ends
<1>6. Chains(h') = Chains(h)
  <2>1. Ends(h') = Ends(h)
    BY <1>4, <1>5
  <2>2. QED
    BY <1>4, <2>1 DEF Chains, WalksFrom
<1>7. OpenGroups(h', stack') = <<>>
  BY <1>1, NoOpenGroup
<1>8. QED
  BY <1>6, <1>7
     DEF Grouping!Abandon, OpenGroups, Groups, Chains, WalksFrom, Ends

LEMMA SameCardinality == \A S : Grouping!Cardinality(S) = Cardinality(S)
  BY DEF Grouping!Cardinality, Cardinality

LEMMA UnlinkGroups ==
  ASSUME RInv, NEW e \in Pos, UnlinkPrefix(e)
  PROVE  Grouping!Drop(e) \/ UNCHANGED Grouping!vars
<1>1. /\ IInv /\ phase = "parse" /\ stack' = stack /\ h' = Unlink(h, e)
      /\ stack = <<>>
  BY ClosedOpen DEF RInv, readVars, UnlinkPrefix
<1>2. h \in Heap /\ InShape(h) /\ InFile(h)
  BY <1>1, GroupFacts DEF IInv, ChainsWellFormed, InShape
<1>3. CASE h.kind[e] \in BranchKinds
  <2>1. Dropped(h, h', e)
    BY <1>1, <1>2, <1>3, UnlinkDrops
  <2>2. OpenGroups(h', stack') = OpenGroups(h, stack)
    BY <1>1, NoOpenGroup
  <2>3. Grouping!Drop(e)
    BY <2>1, <2>2, SameCardinality
       DEF Dropped, Grouping!Drop, OpenGroups, Groups, Chains, WalksFrom, Ends
  <2>4. QED
    BY <2>3
<1>4. CASE h.kind[e] \notin BranchKinds
  <2>1. h' = h
    BY <1>1, <1>4 DEF Unlink, BranchKinds
  <2>2. UNCHANGED Grouping!vars
    BY <1>1, <2>1, SameStays
  <2>3. QED
    BY <2>2
<1>5. QED
  BY <1>3, <1>4

LEMMA InitGroups == Init => Grouping!Init
<1> SUFFICES ASSUME Init PROVE Grouping!Init
  OBVIOUS
<1>1. stack = <<>> /\ \A p \in Id : h.kind[p] = "none"
  BY DEF Init, EmptyHeap
<1>2. OpenGroups(h, stack) = <<>>
  BY <1>1, NoOpenGroup
<1>3. Ends(h) = {}
  BY <1>1, NullOutside DEF Ends
<1>4. Chains(h) = {}
  BY <1>3 DEF Chains, WalksFrom
<1>5. QED
  BY <1>2, <1>4
     DEF Grouping!Init, OpenGroups, Groups, Chains, WalksFrom, Ends

LEMMA NextGroups == RInv /\ [Next]_vars => [Grouping!Next]_(Grouping!vars)
<1> SUFFICES ASSUME RInv, [Next]_vars
             PROVE  Grouping!Next \/ UNCHANGED Grouping!vars
  OBVIOUS
<1>0. IInv
  BY DEF RInv
<1>1. ASSUME NEW kind, ReadPrefix(kind) \/ ReadToken(kind)
      PROVE  UNCHANGED Grouping!vars
  BY <1>0, <1>1, ReadStays
<1>2. CASE BranchEnter
  <2>1. Grouping!If(lk) /\ lk \in Pos
    BY <1>0, <1>2, EnterGroups, LinkingFacts DEF BranchEnter, Linking
  <2>2. QED
    BY <2>1 DEF Grouping!Next
<1>3. CASE BranchLink
  <2>1. phase = "read" /\ lk < tk /\ lk \in Pos
    BY <1>0, <1>3, LinkingFacts DEF BranchLink, Linking
  <2>2. CASE stack = <<>>
    BY <1>0, <1>3, <2>1, <2>2, OrphanStays DEF BranchLink
  <2>3. CASE stack # <<>>
    BY <1>3, <2>1, <2>3, LinkGroups DEF Grouping!Next
  <2>4. QED
    BY <2>2, <2>3
<1>4. CASE BranchLeave
  <2>1. phase = "read" /\ lk < tk /\ lk \in Pos
    BY <1>0, <1>4, LinkingFacts DEF BranchLeave, Linking
  <2>2. CASE stack = <<>>
    BY <1>0, <1>4, <2>1, <2>2, OrphanStays DEF BranchLeave
  <2>3. CASE stack # <<>>
    BY <1>4, <2>1, <2>3, LeaveGroups DEF Grouping!Next
  <2>4. QED
    BY <2>2, <2>3
<1>5. CASE SkipPrefix
  BY <1>5, SameStays DEF SkipPrefix
<1>6. CASE EndOfFile
  BY <1>6, SameStays DEF EndOfFile
<1>7. ASSUME NEW t \in Pos, Discard(t)
      PROVE  UNCHANGED Grouping!vars
  BY <1>0, <1>7, RemoveStays DEF Discard
<1>8. CASE BranchPurge
  BY <1>8, PurgeGroups DEF Grouping!Next
<1>9. ASSUME NEW p \in Pos, UnlinkPrefix(p)
      PROVE  Grouping!Next \/ UNCHANGED Grouping!vars
  BY <1>9, UnlinkGroups DEF Grouping!Next
<1>10. ASSUME NEW t \in Pos, NEW p \in Pos, DropPrefix(t, p)
       PROVE  UNCHANGED Grouping!vars
  BY <1>0, <1>10, DropStays
<1>11. ASSUME NEW src \in Pos, NEW dst \in Pos, LexerMovePrefixes(src, dst)
       PROVE  UNCHANGED Grouping!vars
  BY <1>0, <1>11, MoveStays
<1>12. ASSUME NEW t \in Pos, RemoveToken(t)
       PROVE  UNCHANGED Grouping!vars
  BY <1>0, <1>12, RemoveStays DEF RemoveToken
<1>13. CASE UNCHANGED vars
  BY <1>13, SameStays DEF vars, readVars
<1>14. QED
  BY <1>1, <1>2, <1>3, <1>4, <1>5, <1>6, <1>7, <1>8, <1>9, <1>10, <1>11,
     <1>12, <1>13 DEF Next, Read

\* The links made by lexer_tokenize() and unmade by clang_token_branch_unlink()
\* implement the conditional groups of the file: each branch joins the innermost
\* open group, a group that is not closed is abandoned as a whole, and unlinking
\* a branch takes it, and no other one, out of its group.
THEOREM LinksImplementGroups == Spec => ImplementsConditionals
  BY InitGroups, NextGroups, RefsInvHolds, PTL
     DEF Spec, ImplementsConditionals, Grouping!Spec

-----------------------------------------------------------------------------
(* Groups that are opened, closed and reduced the way Conditionals says nest *)
(* whatever the file.                                                        *)

\* Two groups cross when they take turns.
Crossing(C, D) == \E a, c \in C, b, d \in D : a < b /\ b < c /\ c < d

NeverCross(closed) == \A C, D \in closed : C # D => ~Crossing(C, D)

\* The inductive invariant: besides, the directives of an open group precede
\* those of the groups opened in it, and none is inside of a complete group.

PositionsOnly(open, closed) ==
    /\ open \in Seq(SUBSET Pos)
    /\ closed \in SUBSET SUBSET Pos

InnerLater(open) ==
    \A i, j \in DOMAIN open : i < j =>
        \A a \in open[i], b \in open[j] : a < b

OpenOutside(open, closed) ==
    \A D \in closed, i \in DOMAIN open :
        \A a, c \in D, b \in open[i] : ~(a < b /\ b < c)

Nested(open, closed) ==
    /\ PositionsOnly(open, closed) /\ InnerLater(open) /\ OpenOutside(open, closed)
    /\ NeverCross(closed)

MembersOf(open, closed) == UNION (closed \cup {open[i] : i \in DOMAIN open})

FreshIn(open, closed, p) == \A q \in MembersOf(open, closed) : q < p

LEMMA MembersAre ==
  ASSUME NEW open, NEW closed
  PROVE  /\ \A D \in closed : D \subseteq MembersOf(open, closed)
         /\ \A i \in DOMAIN open : open[i] \subseteq MembersOf(open, closed)
BY DEF MembersOf

LEMMA MembersOrdered ==
  ASSUME NEW open, NEW closed, Pos \subseteq Int, PositionsOnly(open, closed)
  PROVE  MembersOf(open, closed) \subseteq Int
<1>1. \A i \in DOMAIN open : open[i] \subseteq Pos
  BY DEF PositionsOnly
<1>2. \A D \in closed : D \subseteq Pos
  BY DEF PositionsOnly
<1>3. ASSUME NEW q \in MembersOf(open, closed)
      PROVE  q \in Int
  <2>1. PICK G \in closed \cup {open[i] : i \in DOMAIN open} : q \in G
    BY DEF MembersOf
  <2>2. QED
    BY <1>1, <1>2, <2>1
<1>4. QED
  BY <1>3

LEMMA IfNests ==
  ASSUME NEW open, NEW closed, Pos \subseteq Int, Nested(open, closed), NEW p \in Pos,
         FreshIn(open, closed, p), NEW open1, NEW closed1,
         open1 = Append(open, {p}), closed1 = closed
  PROVE  Nested(open1, closed1)
<1> DEFINE n == Len(open)
<1>1. /\ open \in Seq(SUBSET Pos) /\ n \in Nat /\ DOMAIN open = 1..n
      /\ {p} \in SUBSET Pos /\ open1 = Append(open, {p}) /\ closed1 = closed
  BY DEF Nested, PositionsOnly
<1> HIDE DEF n
<1>2. /\ open1 \in Seq(SUBSET Pos) /\ DOMAIN open1 = 1..(n + 1)
      /\ open1[n + 1] = {p} /\ \A i \in 1..n : open1[i] = open[i]
  BY <1>1 DEF n
<1>3. \A q \in MembersOf(open, closed) : q < p /\ q \in Int
  BY MembersOrdered DEF FreshIn, Nested
<1>4. p \in Int
  OBVIOUS
<1>5. \A i \in DOMAIN open1 : \/ i = n + 1 /\ open1[i] = {p}
                              \/ i \in DOMAIN open /\ open1[i] = open[i]
  BY <1>1, <1>2
<1>6. InnerLater(open1)
  <2> SUFFICES ASSUME NEW i \in DOMAIN open1, NEW j \in DOMAIN open1, i < j,
                      NEW a \in open1[i], NEW b \in open1[j]
               PROVE  a < b
    BY DEF InnerLater
  <2>1. i \in DOMAIN open /\ a \in open[i]
    BY <1>1, <1>2, <1>5
  <2>2. CASE j \in DOMAIN open /\ b \in open[j]
    BY <2>1, <2>2 DEF Nested, InnerLater
  <2>3. CASE b = p
    BY <1>3, <2>1, <2>3, MembersAre
  <2>4. QED
    BY <1>5, <2>2, <2>3
<1>7. OpenOutside(open1, closed1)
  <2> SUFFICES ASSUME NEW D \in closed, NEW i \in DOMAIN open1,
                      NEW a \in D, NEW c \in D, NEW b \in open1[i],
                      a < b, b < c
               PROVE  FALSE
    BY <1>1 DEF OpenOutside
  <2>1. CASE i \in DOMAIN open /\ b \in open[i]
    BY <2>1 DEF Nested, OpenOutside
  <2>2. CASE b = p
    <3>1. c < p /\ c \in Int
      BY <1>3, MembersAre
    <3>2. QED
      BY <1>4, <2>2, <3>1
  <2>3. QED
    BY <1>5, <2>1, <2>2
<1>8. QED
  BY <1>1, <1>2, <1>6, <1>7 DEF Nested, PositionsOnly, NeverCross

LEMMA ElseNests ==
  ASSUME NEW open, NEW closed, Pos \subseteq Int, Nested(open, closed), NEW p \in Pos,
         FreshIn(open, closed, p), open # <<>>, NEW open1, NEW closed1,
         open1 = [open EXCEPT ![Len(open)] = @ \cup {p}], closed1 = closed
  PROVE  Nested(open1, closed1)
<1> DEFINE n == Len(open)
<1>1. /\ open \in Seq(SUBSET Pos) /\ n \in Nat /\ n \in 1..n
      /\ DOMAIN open = 1..n /\ closed1 = closed
      /\ open1 = [open EXCEPT ![n] = @ \cup {p}]
  BY DEF Nested, PositionsOnly
<1> HIDE DEF n
<1>2. /\ open1 \in Seq(SUBSET Pos) /\ DOMAIN open1 = 1..n
      /\ open1[n] = open[n] \cup {p}
      /\ \A i \in 1..n : i # n => open1[i] = open[i]
  <2>1. open[n] \cup {p} \in SUBSET Pos
    BY <1>1
  <2>2. QED
    BY <1>1, <2>1
<1>3. \A q \in MembersOf(open, closed) : q < p /\ q \in Int
  BY MembersOrdered DEF FreshIn, Nested
<1>4. p \in Int
  OBVIOUS
<1>5. ASSUME NEW i \in DOMAIN open1, NEW b \in open1[i]
      PROVE  (i = n /\ b = p) \/ (i \in DOMAIN open /\ b \in open[i])
  BY <1>1, <1>2
<1>6. InnerLater(open1)
  <2> SUFFICES ASSUME NEW i \in DOMAIN open1, NEW j \in DOMAIN open1, i < j,
                      NEW a \in open1[i], NEW b \in open1[j]
               PROVE  a < b
    BY DEF InnerLater
  <2>1. i \in DOMAIN open /\ a \in open[i]
    BY <1>1, <1>2
  <2>2. CASE j \in DOMAIN open /\ b \in open[j]
    BY <2>1, <2>2 DEF Nested, InnerLater
  <2>3. CASE b = p
    BY <1>3, <2>1, <2>3, MembersAre
  <2>4. QED
    BY <1>5, <2>2, <2>3
<1>7. OpenOutside(open1, closed1)
  <2> SUFFICES ASSUME NEW D \in closed, NEW i \in DOMAIN open1,
                      NEW a \in D, NEW c \in D, NEW b \in open1[i],
                      a < b, b < c
               PROVE  FALSE
    BY <1>1 DEF OpenOutside
  <2>1. CASE i \in DOMAIN open /\ b \in open[i]
    BY <2>1 DEF Nested, OpenOutside
  <2>2. CASE b = p
    <3>1. c < p /\ c \in Int
      BY <1>3, MembersAre
    <3>2. QED
      BY <1>4, <2>2, <3>1
  <2>3. QED
    BY <1>5, <2>1, <2>2
<1>8. QED
  BY <1>1, <1>2, <1>6, <1>7 DEF Nested, PositionsOnly, NeverCross

\* The group that is closed lies inside of those still open, and between two
\* directives of any other one.
LEMMA EndifNests ==
  ASSUME NEW open, NEW closed, Pos \subseteq Int, Nested(open, closed), NEW p \in Pos,
         FreshIn(open, closed, p), open # <<>>, NEW open1, NEW closed1,
         closed1 = closed \cup {open[Len(open)] \cup {p}},
         open1 = SubSeq(open, 1, Len(open) - 1)
  PROVE  Nested(open1, closed1)
<1> DEFINE n == Len(open)
           X == open[n] \cup {p}
<1>1. /\ open \in Seq(SUBSET Pos) /\ n \in Nat /\ n \in 1..n
      /\ DOMAIN open = 1..n /\ open[n] \in SUBSET Pos
      /\ closed1 = closed \cup {X} /\ open1 = SubSeq(open, 1, n - 1)
  BY DEF Nested, PositionsOnly
<1> HIDE DEF n
<1>2. /\ open1 \in Seq(SUBSET Pos) /\ DOMAIN open1 = 1..(n - 1)
      /\ \A i \in 1..(n - 1) : open1[i] = open[i]
  BY <1>1
<1>3. /\ \A q \in MembersOf(open, closed) : q < p /\ q \in Int
      /\ p \in Int
  BY MembersOrdered DEF FreshIn, Nested
<1>4. \A i \in DOMAIN open1 : i \in DOMAIN open /\ i < n /\ open1[i] = open[i]
  BY <1>1, <1>2
<1>5. /\ open[n] \subseteq MembersOf(open, closed)
      /\ \A D \in closed : D \subseteq MembersOf(open, closed)
  BY <1>1, MembersAre
<1>6. InnerLater(open1)
  BY <1>4 DEF Nested, InnerLater
<1>7. OpenOutside(open1, closed1)
  <2> SUFFICES ASSUME NEW D \in closed1, NEW i \in DOMAIN open1,
                      NEW a \in D, NEW c \in D, NEW b \in open1[i],
                      a < b, b < c
               PROVE  FALSE
    BY DEF OpenOutside
  <2>1. CASE D \in closed
    BY <1>4, <2>1 DEF Nested, OpenOutside
  <2>2. CASE D = X
    <3>1. b \in open[i] /\ i \in DOMAIN open /\ i < n /\ b \in MembersOf(open, closed)
      BY <1>4, MembersAre
    <3>2. b < a
      <4>1. CASE a = p
        BY <1>3, <3>1, <4>1
      <4>2. CASE a \in open[n]
        BY <1>1, <3>1, <4>2 DEF Nested, InnerLater
      <4>3. QED
        BY <2>2, <4>1, <4>2
    <3>3. a \in Int /\ b \in Int
      BY <1>3, <1>5, <2>2, <3>1
    <3>4. QED
      BY <3>2, <3>3
  <2>3. QED
    BY <1>1, <2>1, <2>2
<1>8. ASSUME NEW D \in closed
      PROVE  ~Crossing(X, D) /\ ~Crossing(D, X)
  <2>1. ASSUME NEW a \in D, NEW c \in D, NEW b \in open[n]
        PROVE  ~(a < b /\ b < c)
    BY <1>1, <2>1 DEF Nested, OpenOutside
  <2>2. \A q \in D : q < p /\ q \in Int
    BY <1>3, <1>5
  <2>3. \A q \in X : q \in Int /\ (q \in open[n] \/ q = p)
    BY <1>3, <1>5
  <2> HIDE DEF X
  <2>4. ASSUME NEW a \in X, NEW c \in X, NEW b \in D, NEW d \in D,
               a < b, b < c, c < d
        PROVE  FALSE
    <3>1. c # p
      BY <1>3, <2>2, <2>4
    <3>2. QED
      BY <2>1, <2>3, <2>4, <3>1
  <2>5. ASSUME NEW a \in D, NEW c \in D, NEW b \in X, NEW d \in X,
               a < b, b < c, c < d
        PROVE  FALSE
    <3>1. b # p
      BY <1>3, <2>2, <2>5
    <3>2. QED
      BY <2>1, <2>3, <2>5, <3>1
  <2>6. QED
    BY <2>4, <2>5 DEF Crossing
<1>9. NeverCross(closed1)
  <2> HIDE DEF X
  <2>1. \A D \in closed1 : D \in closed \/ D = X
    BY <1>1
  <2>2. NeverCross(closed)
    BY DEF Nested
  <2>3. QED
    BY <1>8, <2>1, <2>2 DEF NeverCross
<1>10. PositionsOnly(open1, closed1)
  BY <1>1, <1>2 DEF Nested, PositionsOnly
<1>11. QED
  BY <1>6, <1>7, <1>9, <1>10 DEF Nested

LEMMA DropNests ==
  ASSUME NEW open, NEW closed, Nested(open, closed), NEW p, NEW closed1,
         NEW group \in closed,
         closed1 = (closed \ {group})
                   \cup {rest \in {group \ {p}} : Cardinality(rest) > 1}
  PROVE  Nested(open, closed1)
<1>1. \A D \in closed1 : (D \in closed /\ D # group) \/ D = group \ {p}
  OBVIOUS
<1>2. PositionsOnly(open, closed1)
  <2>1. group \ {p} \in SUBSET Pos
    BY DEF Nested, PositionsOnly
  <2>2. \A D \in closed1 : D \in SUBSET Pos
    BY <1>1, <2>1 DEF Nested, PositionsOnly
  <2>3. QED
    BY <2>2 DEF Nested, PositionsOnly
<1>3. InnerLater(open)
  BY DEF Nested, InnerLater
<1>4. ASSUME NEW D \in closed1
      PROVE  \E G \in closed : D \subseteq G
  BY <1>1
<1>5. OpenOutside(open, closed1)
  BY <1>4 DEF Nested, OpenOutside
<1>6. NeverCross(closed1)
  <2> SUFFICES ASSUME NEW C \in closed1, NEW D \in closed1, C # D
               PROVE  ~Crossing(C, D)
    BY DEF NeverCross
  <2>1. PICK G \in closed, H \in closed : G # H /\ C \subseteq G /\ D \subseteq H
    BY <1>1
  <2>2. ~Crossing(G, H)
    BY <2>1 DEF Nested, NeverCross
  <2>3. QED
    BY <2>1, <2>2 DEF Crossing
<1>7. QED
  BY <1>2, <1>3, <1>5, <1>6 DEF Nested

LEMMA GroupsStayNested ==
  ASSUME Nested(OpenGroups(h, stack), Groups), [Grouping!Next]_(Grouping!vars)
  PROVE  Nested(OpenGroups(h, stack), Groups)'
<1>1. PICK o, c, o1, c1 : /\ o = OpenGroups(h, stack) /\ c = Groups
                          /\ o1 = OpenGroups(h, stack)' /\ c1 = Groups'
  OBVIOUS
<1>2. Pos \subseteq Int /\ Nested(o, c)
  BY <1>1, NullOutside
<1>3. SUFFICES Nested(o1, c1)
  BY <1>1
<1>4. ASSUME NEW p \in Pos, Grouping!Fresh(p)
      PROVE  FreshIn(o, c, p)
  BY <1>1, <1>4 DEF Grouping!Fresh, Grouping!Members, FreshIn, MembersOf, OpenGroups
<1>5. ASSUME NEW p \in Pos, Grouping!If(p)
      PROVE  Nested(o1, c1)
  <2>1. Grouping!Fresh(p) /\ o1 = Append(o, {p}) /\ c1 = c
    BY <1>1, <1>5 DEF Grouping!If, OpenGroups
  <2>2. QED
    BY <1>2, <1>4, <2>1, IfNests
<1>6. ASSUME NEW p \in Pos, Grouping!Else(p)
      PROVE  Nested(o1, c1)
  <2>1. /\ Grouping!Fresh(p) /\ o # <<>> /\ c1 = c
        /\ o1 = [o EXCEPT ![Len(o)] = @ \cup {p}]
    BY <1>1, <1>6 DEF Grouping!Else, OpenGroups
  <2>2. QED
    BY <1>2, <1>4, <2>1, ElseNests
<1>7. ASSUME NEW p \in Pos, Grouping!Endif(p)
      PROVE  Nested(o1, c1)
  <2>1. /\ Grouping!Fresh(p) /\ o # <<>> /\ c1 = c \cup {o[Len(o)] \cup {p}}
        /\ o1 = SubSeq(o, 1, Len(o) - 1)
    BY <1>1, <1>7 DEF Grouping!Endif, OpenGroups
  <2>2. QED
    BY <1>2, <1>4, <2>1, EndifNests
<1>8. ASSUME NEW p \in Pos, Grouping!Drop(p)
      PROVE  Nested(o1, c1)
  <2>1. \A S : Grouping!Cardinality(S) = Cardinality(S)
    BY DEF Grouping!Cardinality, Cardinality
  <2>2. PICK group \in c :
          c1 = (c \ {group}) \cup {rest \in {group \ {p}} : Cardinality(rest) > 1}
    BY <1>1, <1>8, <2>1 DEF Grouping!Drop
  <2>3. o1 = o
    BY <1>1, <1>8 DEF Grouping!Drop, OpenGroups
  <2>4. QED
    BY <1>2, <2>2, <2>3, DropNests
<1>9. CASE Grouping!Abandon
  <2>1. o1 = <<>> /\ c1 = c
    BY <1>1, <1>9 DEF Grouping!Abandon, OpenGroups
  <2>2. QED
    BY <1>2, <2>1 DEF Nested, PositionsOnly, InnerLater, OpenOutside
<1>10. CASE UNCHANGED Grouping!vars
  <2>1. o1 = o /\ c1 = c
    BY <1>1, <1>10 DEF Grouping!vars, OpenGroups
  <2>2. QED
    BY <1>2, <2>1
<1>11. QED
  BY <1>5, <1>6, <1>7, <1>8, <1>9, <1>10 DEF Grouping!Next

\* The groups of the file never cross, however many branches were unlinked.
THEOREM GroupsNeverCross == Spec => []NoCrossing
<1>1. Grouping!Init => Nested(OpenGroups(h, stack), Groups)
  BY DEF Grouping!Init, OpenGroups, Nested, PositionsOnly, InnerLater, OpenOutside, NeverCross
<1>2. Nested(OpenGroups(h, stack), Groups) /\ [Grouping!Next]_(Grouping!vars) => Nested(OpenGroups(h, stack), Groups)'
  BY GroupsStayNested
<1>3. Nested(OpenGroups(h, stack), Groups) => NoCrossing
  BY DEF Nested, NeverCross, Crossing, NoCrossing
<1>4. QED
  BY <1>1, <1>2, <1>3, LinksImplementGroups, PTL DEF ImplementsConditionals, Grouping!Spec
=============================================================================
