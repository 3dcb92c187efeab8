------------------------ MODULE SimplePasses_proofs ------------------------
(***************************************************************************)
(* Proofs about SimplePasses, for calls nested to any depth: passes are    *)
(* gated however they are entered, left early and peeked past.             *)
(*                                                                         *)
(* What has to be shown is that a pass that was granted is not granted     *)
(* again before it is left, though entering it again may disable it: its   *)
(* entry in ps does not say that it is in use.  The argument is about the  *)
(* set of passes that are not disabled, which entering a pass adds it to   *)
(* or removes it from: from then on, those that would let the pass be      *)
(* granted are kept out of the set.                                        *)
(***************************************************************************)
EXTENDS SimplePasses, TLAPS, SequenceTheorems

-----------------------------------------------------------------------------
(* The passes that are not disabled, N, as a pass is entered.              *)

Parent(N, p) == \E q \in N : <<q, p>> \in Exceptions
Stacked(N, p) == IF N \ {p} # {} /\ ~Parent(N, p) THEN N \ {p} ELSE N \cup {p}

Outside(N) == "STMT" \notin N /\ "STMT_EMPTY_LOOP" \notin N /\ "STMT_SWITCH" \notin N
Kids == {"ATTRIBUTES", "BRACES", "DECL_PROTO", "IMPLICIT_INT", "STATIC", "DECL_FORWARD"}

\* Loops without a body and declarations are among these only as long as what
\* let them in is.
Sane(N) ==
    /\ "STMT_EMPTY_LOOP" \in N /\ "STMT_SWITCH" \in N => "STMT" \in N
    /\ "DECL" \in N => Outside(N) \/ "STMT_EMPTY_LOOP" \in N

\* Whatever is entered next, p is not granted.
Shut(N, p) ==
    /\ N # {}
    /\ p \in {"STMT", "STMT_EMPTY_LOOP"} => p \in N \/ Outside(N)
    /\ p = "DECL" => Outside(N) \/ ("DECL" \in N /\ "STMT_EMPTY_LOOP" \in N)
    /\ p \in Kids => \/ Outside(N) /\ (p \in N \/ "DECL" \notin N)
                     \/ p \in N /\ "DECL" \in N /\ "STMT_EMPTY_LOOP" \in N
    /\ p = "EXPR_SIZEOF" => p \in N \/ "EXPR_PARENS" \notin N

LEMMA ParentIs ==
  ASSUME NEW N, NEW p \in Passes
  PROVE  Parent(N, p) <=>
            \/ p \in Kids /\ "DECL" \in N
            \/ p = "EXPR_SIZEOF" /\ "EXPR_PARENS" \in N
            \/ p = "STMT_EMPTY_LOOP" /\ "STMT" \in N
            \/ p = "STMT" /\ ("STMT_EMPTY_LOOP" \in N \/ "STMT_SWITCH" \in N)
            \/ p = "DECL" /\ "STMT_EMPTY_LOOP" \in N
<1>1. ASSUME NEW q
      PROVE  <<q, p>> \in Exceptions <=>
                \/ q = "DECL" /\ p \in Kids
                \/ q = "EXPR_PARENS" /\ p = "EXPR_SIZEOF"
                \/ q = "STMT" /\ p = "STMT_EMPTY_LOOP"
                \/ q \in {"STMT_EMPTY_LOOP", "STMT_SWITCH"} /\ p = "STMT"
                \/ q = "STMT_EMPTY_LOOP" /\ p = "DECL"
  BY DEF Exceptions, Kids
<1>2. QED
  BY <1>1 DEF Parent, Kids

\* What is shut stays shut, whatever is entered next.
LEMMA StaysShut ==
  ASSUME NEW N \in SUBSET Passes, NEW p \in Passes, NEW q \in Passes, Sane(N), Shut(N, p)
  PROVE  Shut(Stacked(N, q), p)
<1>1. Stacked(N, q) # {}
  BY DEF Shut, Stacked
<1>2. \A r : r # q => (r \in Stacked(N, q) <=> r \in N)
  BY DEF Stacked
<1>3. q \in Stacked(N, q) <=> N \ {q} = {} \/ Parent(N, q)
  BY DEF Stacked
<1>4. QED
  BY <1>1, <1>2, <1>3, ParentIs DEF Shut, Sane, Outside, Kids

LEMMA StaysSane ==
  ASSUME NEW N \in SUBSET Passes, NEW q \in Passes, Sane(N)
  PROVE  Sane(Stacked(N, q))
<1>2. \A r : r # q => (r \in Stacked(N, q) <=> r \in N)
  BY DEF Stacked
<1>3. q \in Stacked(N, q) <=> N \ {q} = {} \/ Parent(N, q)
  BY DEF Stacked
<1>4. QED
  BY <1>2, <1>3, ParentIs DEF Sane, Outside, Kids

\* A pass that may be granted is shut once it is, and one that is shut is not.
LEMMA GrantedShut ==
  ASSUME NEW N \in SUBSET Passes, NEW p \in Passes, Sane(N), p \notin N,
         N \ {p} = {} \/ Parent(N, p)
  PROVE  Shut(N \cup {p}, p) /\ ~Shut(N, p)
BY ParentIs DEF Sane, Shut, Outside, Kids

-----------------------------------------------------------------------------
(* Calls and the states they were entered in: lv[i] is the state of the    *)
(* passes and on[i] whether simple mode is enabled within the first i      *)
(* calls of s, which returning from the others brings back.                *)

States == {"DISABLE", "ENABLE", "IGNORE"}
Level == [Passes -> States]
Awake(l) == {p \in Passes : l[p] # "DISABLE"}
LevelOf(m) == [p \in Passes |-> m[p].state]
PassStates == [Passes -> [state : States, force : BOOLEAN]]

ActiveIn(s) == {i \in DOMAIN s : IsPass(s[i]) /\ s[i].held /\ s[i].granted}

\* The call keeps its pass from being granted again: it was granted it, or
\* ignored it where nobody else was granted any.
Shutter(s, k) ==
    IsPass(s[k]) /\ (k \in ActiveIn(s) \/ (s[k].ignore /\ \A j \in ActiveIn(s) : j > k))

FrameOK(s, i) ==
    IsPass(s[i]) =>
        /\ s[i].ignore => ~s[i].granted /\ s[i].pass \in {"DECL", "DECL_FORWARD"}
        /\ s[i].pass \in Leaves \ Printing => i = Len(s)
        /\ s[i].pass = "CPP_SORT_INCLUDES" => i = 1

\* What a call does to them.
Moves(f, l, m, x, y) ==
    \/ ~IsPass(f) /\ m = l /\ f.peek = x /\ y = FALSE
    \/ IsPass(f) /\ ~f.held /\ m = l /\ y = x
    \/ /\ IsPass(f) /\ f.held /\ f.saved = l[f.pass] /\ y = x
       /\ f.granted <=> m[f.pass] = "ENABLE"
       /\ \A p \in Passes : p # f.pass => m[p] = l[p]

LevelOK(s, i, N) ==
    /\ Sane(N)
    /\ \A k \in 1..i : Shutter(s, k) => Shut(N, s[k].pass)
    /\ (\A k \in ActiveIn(s) : k > i) => N \subseteq {"DECL", "DECL_FORWARD"}

History(s, lv, on) ==
    /\ lv \in [0..Len(s) -> Level] /\ on \in [0..Len(s) -> BOOLEAN]
    /\ \A p \in Passes : lv[0][p] = "DISABLE"
    /\ \A i \in 1..Len(s) : Moves(s[i], lv[i - 1], lv[i], on[i - 1], on[i])
    /\ \A i, j \in 0..Len(s) : i <= j /\ on[j] => on[i]
    /\ \A i \in 0..Len(s) : on[i] => LevelOK(s, i, Awake(lv[i]))

\* The calls are as the properties want them.
CallsOK(s) ==
    /\ \A i \in DOMAIN s : FrameOK(s, i)
    /\ \A i, j \in ActiveIn(s) : s[i].pass = s[j].pass => i = j
    /\ \A i, j \in ActiveIn(s) : s[i].pass \in Loners => i = j
    /\ \A i \in DOMAIN s, j \in ActiveIn(s) : i < j => IsPass(s[i])
    /\ \A i \in DOMAIN s, j \in ActiveIn(s) :
          i < j /\ s[i].ignore /\ (\A k \in ActiveIn(s) : k > i) => s[j].pass # s[i].pass

IInv ==
    /\ ps \in PassStates /\ enable \in BOOLEAN
    /\ stack \in Seq(Frame \cup PeekFrame) /\ Len(stack) <= MaxDepth
    /\ CallsOK(stack)
    /\ \E lv, on : /\ History(stack, lv, on)
                   /\ lv[Len(stack)] = LevelOf(ps) /\ on[Len(stack)] = enable

LEMMA FrameKinds ==
  /\ \A f \in Frame : IsPass(f) /\ f \notin PeekFrame
  /\ \A f \in PeekFrame : ~IsPass(f)
<1>1. \A f \in Frame : DOMAIN f = {"pass", "granted", "ignore", "held", "saved"}
  BY DEF Frame
<1>2. \A f \in PeekFrame : DOMAIN f = {"peek"}
  BY DEF PeekFrame
<1>3. QED
  BY <1>1, <1>2 DEF IsPass

LEMMA LonersAre == Loners \subseteq Leaves \ Printing
BY DEF Loners, Leaves, Printing, Exceptions, Passes

\* simple_enter() in terms of the passes that are not disabled.
LEMMA EnteredIs ==
  ASSUME NEW m \in PassStates, NEW on \in BOOLEAN, NEW p \in Passes, NEW flags,
         NEW n, n = Entered(m, on, p, flags)
  PROVE  /\ n \in PassStates
         /\ \A q \in Passes : q # p => n[q] = m[q]
         /\ ~on /\ "FORCE" \notin flags => n[p].state = "IGNORE"
         /\ on \/ "FORCE" \in flags =>
               /\ Awake(LevelOf(n)) = Stacked(Awake(LevelOf(m)), p)
               /\ n[p].state = "IGNORE" => p \in Awake(LevelOf(m)) \/ "IGNORE" \in flags
               /\ n[p].state = "ENABLE" => /\ p \notin Awake(LevelOf(m)) /\ "IGNORE" \notin flags
                                           /\ \/ Awake(LevelOf(m)) \ {p} = {}
                                              \/ Parent(Awake(LevelOf(m)), p)
<1> DEFINE N == Awake(LevelOf(m))
<1>1. \A q \in Passes : (q \in N <=> m[q].state # "DISABLE") /\ m[q].state \in States
  BY DEF Awake, LevelOf, PassStates
<1>2. Exclusive(m, p) <=> ~Parent(N, p)
  BY <1>1 DEF Exclusive, Parent, States, Awake
<1>3. (\E i \in Passes \ {p} : m[i].state # "DISABLE") <=> N \ {p} # {}
  BY <1>1 DEF Awake
<1>4. /\ n \in PassStates
      /\ \A q \in Passes : q # p => n[q] = m[q]
      /\ ~on /\ "FORCE" \notin flags => n[p].state = "IGNORE"
      /\ on \/ "FORCE" \in flags =>
            \/ N \ {p} # {} /\ ~Parent(N, p) /\ n[p].state = "DISABLE"
            \/ /\ ~(N \ {p} # {} /\ ~Parent(N, p))
               /\ \/ n[p].state = "IGNORE" /\ (m[p].state # "DISABLE" \/ "IGNORE" \in flags)
                  \/ n[p].state = "ENABLE" /\ m[p].state = "DISABLE" /\ "IGNORE" \notin flags
  <2>1. CASE ~on /\ "FORCE" \notin flags
    BY <2>1 DEF Entered, PassStates, States
  <2>2. CASE on \/ "FORCE" \in flags
    BY <2>2, <1>2, <1>3 DEF Entered, PassStates, States
  <2>3. QED
    BY <2>1, <2>2
<1>5. \A q \in Passes : q \in Awake(LevelOf(n)) <=> n[q].state # "DISABLE"
  BY DEF Awake, LevelOf
<1>6. ASSUME on \/ "FORCE" \in flags
      PROVE  Awake(LevelOf(n)) = Stacked(N, p)
  <2>1. \A q \in Passes : q \in Awake(LevelOf(n)) <=> q \in Stacked(N, p)
    BY <1>1, <1>4, <1>5, <1>6 DEF Stacked
  <2>2. Awake(LevelOf(n)) \subseteq Passes /\ Stacked(N, p) \subseteq Passes
    BY DEF Awake, Stacked
  <2>3. QED
    BY <2>1, <2>2
<1>7. QED
  BY <1>1, <1>4, <1>6

-----------------------------------------------------------------------------
(* The steps.                                                              *)

Stacks == Seq(Frame \cup PeekFrame)

\* Calls that return leave those around them as they were.
LEMMA Popped ==
  ASSUME NEW s \in Stacks, s # <<>>, CallsOK(s), NEW lv, NEW on, History(s, lv, on),
         NEW t, t = SubSeq(s, 1, Len(s) - 1)
  PROVE  /\ t \in Stacks /\ Len(t) = Len(s) - 1 /\ CallsOK(t)
         /\ History(t, [i \in 0..Len(t) |-> lv[i]], [i \in 0..Len(t) |-> on[i]])
<1> DEFINE n == Len(s)
           lw == [i \in 0..Len(t) |-> lv[i]]
           ow == [i \in 0..Len(t) |-> on[i]]
<1>1. n \in Nat \ {0} /\ DOMAIN s = 1..n /\ Len(s) = n
  BY DEF Stacks
<1>2. t \in Stacks /\ Len(t) = n - 1 /\ \A i \in 1..n - 1 : t[i] = s[i]
  BY <1>1 DEF Stacks
<1>3. DOMAIN t = 1..n - 1
  BY <1>2 DEF Stacks
<1>4. \A i \in 1..n - 1 : i \in ActiveIn(t) <=> i \in ActiveIn(s)
  BY <1>1, <1>2, <1>3 DEF ActiveIn
<1>5. ActiveIn(t) \subseteq 1..n - 1 /\ ActiveIn(s) \subseteq 1..n
  BY <1>1, <1>3 DEF ActiveIn
<1>6. \A i \in 0..n - 1 : (\A k \in ActiveIn(t) : k > i) => (\A k \in ActiveIn(s) : k > i)
  BY <1>1, <1>4, <1>5
<1>7. \A k \in 1..n - 1 : Shutter(t, k) => Shutter(s, k)
  BY <1>1, <1>2, <1>4, <1>6 DEF Shutter
<1>8. CallsOK(t)
  <2>1. ASSUME NEW i \in 1..n - 1
        PROVE  FrameOK(t, i)
    <3>1. i \in DOMAIN s /\ t[i] = s[i] /\ i # Len(s)
      <4> HIDE DEF n
      <4>1. QED
        BY <1>1, <1>2
    <3>2. FrameOK(s, i)
      BY <3>1 DEF CallsOK
    <3>3. QED
      BY <3>1, <3>2 DEF FrameOK
  <2>2. \A i \in ActiveIn(t) : i \in ActiveIn(s) /\ t[i] = s[i]
    BY <1>2, <1>4, <1>5
  <2>3. ASSUME NEW i \in DOMAIN t, NEW j \in ActiveIn(t), i < j
        PROVE  /\ IsPass(t[i])
               /\ t[i].ignore /\ (\A k \in ActiveIn(t) : k > i) => t[j].pass # t[i].pass
    <3>1. /\ i \in DOMAIN s /\ i \in 0..n - 1 /\ t[i] = s[i] /\ j \in ActiveIn(s) /\ t[j] = s[j]
      <4>1. i \in 1..n - 1
        BY <1>3
      <4>2. i \in DOMAIN s /\ i \in 0..n - 1 /\ t[i] = s[i]
        BY <1>1, <1>2, <4>1
      <4>3. QED
        BY <2>2, <4>2
    <3>2. (\A k \in ActiveIn(t) : k > i) => (\A k \in ActiveIn(s) : k > i)
      BY <1>6, <3>1
    <3>3. QED
      BY <2>3, <3>1, <3>2 DEF CallsOK
  <2>4. \A i, j \in ActiveIn(t) :
          (t[i].pass = t[j].pass => i = j) /\ (t[i].pass \in Loners => i = j)
    BY <2>2 DEF CallsOK
  <2>5. QED
    BY <1>3, <2>1, <2>3, <2>4 DEF CallsOK
<1>9. History(t, lw, ow)
  <2>1. lw \in [0..Len(t) -> Level] /\ ow \in [0..Len(t) -> BOOLEAN]
    BY <1>1, <1>2 DEF History
  <2>2. \A i \in 0..n - 1 : lw[i] = lv[i] /\ ow[i] = on[i]
    BY <1>2
  <2>3. \A i \in 1..n - 1 : Moves(t[i], lw[i - 1], lw[i], ow[i - 1], ow[i])
    BY <1>1, <1>2, <2>2 DEF History
  <2>4. \A i \in 0..n - 1 : on[i] => LevelOK(t, i, Awake(lv[i]))
    BY <1>1, <1>2, <1>6, <1>7 DEF History, LevelOK
  <2>5. QED
    BY <1>1, <1>2, <2>1, <2>2, <2>3, <2>4 DEF History
<1>10. QED
  BY <1>2, <1>8, <1>9

LEMMA ReturnOK ==
  ASSUME DepthAssumption, IInv, Return \/ PeekDone
  PROVE  IInv'
<1> DEFINE n == Len(stack)
<1>1. PICK lv, on : History(stack, lv, on) /\ lv[n] = LevelOf(ps) /\ on[n] = enable
  BY DEF IInv
<1>2. /\ stack \in Stacks /\ stack # <<>> /\ stack' = SubSeq(stack, 1, n - 1) /\ n \in Nat \ {0}
      /\ CallsOK(stack) /\ ps \in PassStates /\ enable \in BOOLEAN /\ n <= MaxDepth
      /\ Top \in Frame \cup PeekFrame /\ Top = stack[n]
  BY DEF IInv, Return, PeekDone, Stacks, Top
<1> DEFINE lw == [i \in 0..Len(stack') |-> lv[i]]
           ow == [i \in 0..Len(stack') |-> on[i]]
<1>3. stack' \in Stacks /\ Len(stack') = n - 1 /\ CallsOK(stack') /\ History(stack', lw, ow)
  BY <1>1, <1>2, Popped
<1>4. Moves(Top, lv[n - 1], lv[n], on[n - 1], on[n]) /\ lv[n - 1] \in Level /\ on[n - 1] \in BOOLEAN
  BY <1>1, <1>2 DEF History
<1>5. /\ ps' \in PassStates /\ enable' \in BOOLEAN
      /\ lv[n - 1] = LevelOf(ps') /\ on[n - 1] = enable'
  <2>1. CASE Return /\ Top.held
    <3>1. /\ IsPass(Top) /\ Top \in Frame /\ ps' = LeavePass(Top) /\ enable' = enable
          /\ Top.saved = lv[n - 1][Top.pass] /\ on[n] = on[n - 1]
          /\ \A p \in Passes : p # Top.pass => lv[n][p] = lv[n - 1][p]
      BY <1>2, <1>4, <2>1, FrameKinds DEF Return, Moves
    <3>2. Top.pass \in Passes /\ Top.saved \in States
      BY <3>1 DEF Frame, States
    <3>3. /\ ps' \in PassStates /\ ps'[Top.pass].state = Top.saved
          /\ \A p \in Passes : p # Top.pass => ps'[p] = ps[p]
      BY <1>2, <3>1, <3>2 DEF LeavePass, PassStates
    <3>4. \A p \in Passes : lv[n - 1][p] = ps'[p].state
      BY <1>1, <3>1, <3>2, <3>3 DEF LevelOf
    <3>5. QED
      BY <1>1, <1>2, <1>4, <3>1, <3>3, <3>4 DEF LevelOf, Level
  <2>2. CASE Return /\ ~Top.held
    BY <1>1, <1>2, <1>4, <2>2 DEF Return, Moves
  <2>3. CASE PeekDone
    <3>1. ~IsPass(Top) /\ Top \in PeekFrame /\ enable' = Top.peek /\ ps' = ps
      BY <1>2, <2>3, FrameKinds DEF PeekDone
    <3>2. QED
      BY <1>1, <1>2, <1>4, <3>1 DEF Moves, PeekFrame
  <2>4. QED
    BY <2>1, <2>2, <2>3
<1>6. lw[n - 1] = lv[n - 1] /\ ow[n - 1] = on[n - 1]
  BY <1>2, <1>3
<1>7. Len(stack') <= MaxDepth
  <2>1. n <= MaxDepth /\ n \in Nat
    BY <1>2
  <2>2. QED
    BY <1>3, <2>1 DEF DepthAssumption
<1>8. QED
  BY <1>3, <1>5, <1>6, <1>7 DEF IInv, Stacks

LEMMA LeaveEarlyOK ==
  ASSUME IInv, LeaveEarly
  PROVE  IInv'
<1> DEFINE n == Len(stack)
           t == [stack EXCEPT ![n].held = FALSE]
<1>1. PICK lv, on : History(stack, lv, on) /\ lv[n] = LevelOf(ps) /\ on[n] = enable
  BY DEF IInv
<1>2. /\ stack \in Stacks /\ stack # <<>> /\ n \in Nat \ {0} /\ DOMAIN stack = 1..n /\ Len(stack) = n
      /\ CallsOK(stack) /\ ps \in PassStates /\ enable \in BOOLEAN /\ n <= MaxDepth
      /\ stack[n] \in Frame /\ IsPass(stack[n]) /\ stack[n].held /\ stack[n].granted
      /\ ps' = LeavePass(stack[n]) /\ stack' = t /\ enable' = enable
  BY FrameKinds DEF IInv, LeaveEarly, Stacks, Top
<1>3. /\ t \in Stacks /\ Len(t) = n /\ DOMAIN t = 1..n
      /\ \A i \in 1..n : i # n => t[i] = stack[i]
      /\ t[n] \in Frame /\ ~t[n].held
      /\ t[n].pass = stack[n].pass /\ t[n].granted = stack[n].granted /\ t[n].ignore = stack[n].ignore
  <2> DEFINE g == [stack[n] EXCEPT !.held = FALSE]
  <2>1. /\ g \in Frame /\ ~g.held
        /\ g.pass = stack[n].pass /\ g.granted = stack[n].granted /\ g.ignore = stack[n].ignore
    BY <1>2 DEF Frame
  <2>2. t = [stack EXCEPT ![n] = g]
    OBVIOUS
  <2> HIDE DEF g, t, n
  <2>3. /\ t \in Stacks /\ Len(t) = n /\ DOMAIN t = 1..n /\ t[n] = g
        /\ \A i \in 1..n : i # n => t[i] = stack[i]
    BY <1>2, <2>1, <2>2 DEF Stacks
  <2>4. QED
    BY <2>1, <2>3
<1> DEFINE lw == [lv EXCEPT ![n] = lv[n - 1]]
<1> HIDE DEF n, t
<1>4. /\ ~stack[n].ignore /\ \A i \in 1..n : FrameOK(stack, i)
      /\ n \in ActiveIn(stack) /\ ActiveIn(stack) \subseteq 1..n
  BY <1>2 DEF CallsOK, FrameOK, ActiveIn
<1>5. ActiveIn(t) = ActiveIn(stack) \ {n}
  BY <1>2, <1>3, FrameKinds DEF ActiveIn
<1>6. \A i \in 1..n : IsPass(t[i]) <=> IsPass(stack[i])
  BY <1>2, <1>3, FrameKinds
<1>7. \A i \in 0..n - 1 : (\A k \in ActiveIn(t) : k > i) => (\A k \in ActiveIn(stack) : k > i)
  BY <1>2, <1>5
<1>8. \A k \in 1..n : Shutter(t, k) => k < n /\ Shutter(stack, k)
  BY <1>2, <1>3, <1>4, <1>5, <1>7 DEF Shutter
<1>9. CallsOK(t)
  <2>1. \A i \in 1..n : FrameOK(t, i)
    BY <1>2, <1>3, <1>4, <1>6 DEF FrameOK
  <2>2. \A i \in ActiveIn(t) : i \in ActiveIn(stack) /\ t[i] = stack[i]
    BY <1>3, <1>4, <1>5
  <2>3. ASSUME NEW i \in DOMAIN t, NEW j \in ActiveIn(t), i < j
        PROVE  /\ IsPass(t[i])
               /\ t[i].ignore /\ (\A k \in ActiveIn(t) : k > i) => t[j].pass # t[i].pass
    <3>1. /\ i \in 1..n - 1 /\ i \in DOMAIN stack /\ t[i] = stack[i]
          /\ j \in ActiveIn(stack) /\ t[j] = stack[j]
      BY <1>2, <1>3, <1>4, <2>2, <2>3
    <3>2. (\A k \in ActiveIn(t) : k > i) => (\A k \in ActiveIn(stack) : k > i)
      BY <1>7, <3>1
    <3>3. QED
      BY <1>2, <2>3, <3>1, <3>2 DEF CallsOK
  <2>4. \A i, j \in ActiveIn(t) :
          (t[i].pass = t[j].pass => i = j) /\ (t[i].pass \in Loners => i = j)
    BY <1>2, <2>2 DEF CallsOK
  <2>5. QED
    BY <1>3, <2>1, <2>3, <2>4 DEF CallsOK
<1>10. Moves(stack[n], lv[n - 1], lv[n], on[n - 1], on[n])
  BY <1>1, <1>2 DEF History
<1>11. /\ ps' \in PassStates /\ LevelOf(ps') = lv[n - 1] /\ on[n - 1] = on[n]
  <2>1. /\ stack[n].saved = lv[n - 1][stack[n].pass] /\ on[n] = on[n - 1]
        /\ \A p \in Passes : p # stack[n].pass => lv[n][p] = lv[n - 1][p]
    BY <1>2, <1>10 DEF Moves
  <2>2. stack[n].pass \in Passes /\ stack[n].saved \in States
    BY <1>2 DEF Frame, States
  <2>3. /\ ps' \in PassStates /\ ps'[stack[n].pass].state = stack[n].saved
        /\ \A p \in Passes : p # stack[n].pass => ps'[p] = ps[p]
    BY <1>2, <2>2 DEF LeavePass, PassStates
  <2>4. \A p \in Passes : lv[n - 1][p] = ps'[p].state
    BY <1>1, <1>2, <2>1, <2>2, <2>3 DEF LevelOf
  <2>5. lv[n - 1] \in Level
    BY <1>1, <1>2 DEF History
  <2>6. QED
    BY <2>1, <2>3, <2>4, <2>5 DEF LevelOf, Level
<1>12. /\ lw \in [0..n -> Level] /\ on \in [0..n -> BOOLEAN]
       /\ lw[n] = lv[n - 1] /\ \A i \in 0..n - 1 : lw[i] = lv[i]
  BY <1>1, <1>2 DEF History
<1> HIDE DEF lw
<1>13. History(t, lw, on)
  <2>1. \A p \in Passes : lw[0][p] = "DISABLE"
    BY <1>1, <1>2, <1>12 DEF History
  <2>2. ASSUME NEW i \in 1..n
        PROVE  Moves(t[i], lw[i - 1], lw[i], on[i - 1], on[i])
    <3>1. CASE i = n
      BY <1>2, <1>3, <1>6, <1>11, <1>12, <3>1 DEF Moves
    <3>2. CASE i # n
      <4>1. i \in 1..n - 1 /\ i - 1 \in 0..n - 1 /\ i \in 0..n - 1 /\ t[i] = stack[i]
        BY <1>2, <1>3, <3>2
      <4>2. Moves(stack[i], lv[i - 1], lv[i], on[i - 1], on[i])
        BY <1>1, <1>2 DEF History
      <4>3. QED
        BY <1>12, <4>1, <4>2
    <3>3. QED
      BY <3>1, <3>2
  <2>3. \A i, j \in 0..n : i <= j /\ on[j] => on[i]
    BY <1>1, <1>2 DEF History
  <2>4. ASSUME NEW i \in 0..n, on[i]
        PROVE  LevelOK(t, i, Awake(lw[i]))
    <3>1. CASE i = n
      <4>1. n - 1 \in 0..n /\ on[n - 1]
        BY <1>2, <1>11, <2>4, <3>1
      <4>2. LevelOK(stack, n - 1, Awake(lv[n - 1]))
        BY <1>1, <1>2, <4>1 DEF History
      <4>3. (\A k \in ActiveIn(t) : k > n) => (\A k \in ActiveIn(stack) : k > n - 1)
        BY <1>2, <1>4, <1>5
      <4>4. \A k \in 1..n : Shutter(t, k) => k \in 1..n - 1 /\ Shutter(stack, k) /\ t[k] = stack[k]
        BY <1>2, <1>3, <1>8
      <4>5. QED
        BY <1>12, <3>1, <4>2, <4>3, <4>4 DEF LevelOK
    <3>2. CASE i # n
      <4>1. i \in 0..n - 1
        BY <1>2, <3>2
      <4>2. LevelOK(stack, i, Awake(lv[i]))
        BY <1>1, <1>2, <2>4 DEF History
      <4>3. \A k \in 1..i : k \in 1..n /\ t[k] = stack[k]
        BY <1>2, <1>3, <4>1
      <4>4. QED
        BY <1>7, <1>8, <1>12, <4>1, <4>2, <4>3 DEF LevelOK
    <3>3. QED
      BY <3>1, <3>2
  <2>5. QED
    BY <1>3, <1>12, <2>1, <2>2, <2>3, <2>4 DEF History
<1>14. QED
  <2>1. lw[Len(t)] = LevelOf(ps') /\ on[Len(t)] = enable'
    BY <1>1, <1>2, <1>3, <1>11, <1>12
  <2>2. QED
    BY <1>2, <1>3, <1>9, <1>11, <1>13, <2>1 DEF IInv, Stacks

\* t is the calls of s, n of them, and f.
Pushed(s, f, n, t) ==
    /\ n \in Nat /\ DOMAIN s = 1..n
    /\ t \in Stacks /\ Len(t) = n + 1 /\ DOMAIN t = 1..n + 1
    /\ t[n + 1] = f /\ \A i \in 1..n : t[i] = s[i]
    /\ ActiveIn(s) \subseteq 1..n /\ ActiveIn(t) \subseteq 1..n + 1
    /\ ActiveIn(t) \ {n + 1} = ActiveIn(s)
    /\ \A k \in 1..n : Shutter(t, k) => Shutter(s, k)

\* A sequence of levels with one more.
Longer(lw, lv, n, x) == lw[n + 1] = x /\ \A i \in 0..n : i \in 0..n + 1 /\ lw[i] = lv[i]

LEMMA LongerIs ==
  ASSUME NEW S, NEW n \in Nat, NEW lv \in [0..n -> S], NEW x \in S,
         NEW lw, lw = [i \in 0..n + 1 |-> IF i = n + 1 THEN x ELSE lv[i]]
  PROVE  lw \in [0..n + 1 -> S] /\ Longer(lw, lv, n, x)
<1>1. \A i \in 0..n : i \in 0..n + 1 /\ i # n + 1
  OBVIOUS
<1>2. n + 1 \in 0..n + 1
  OBVIOUS
<1>3. \A i \in 0..n + 1 : i = n + 1 \/ i \in 0..n
  OBVIOUS
<1>4. QED
  BY <1>1, <1>2, <1>3 DEF Longer

LEMMA SwitchedIs ==
  ASSUME NEW n \in Nat, NEW on \in [0..n -> BOOLEAN], NEW x \in BOOLEAN,
         NEW ow, ow = [i \in 0..n + 1 |-> (i = n + 1 /\ x) \/ (i # n + 1 /\ on[i])]
  PROVE  ow \in [0..n + 1 -> BOOLEAN] /\ Longer(ow, on, n, x)
<1>1. \A i \in 0..n : i \in 0..n + 1 /\ i # n + 1
  OBVIOUS
<1>2. n + 1 \in 0..n + 1
  OBVIOUS
<1>3. ow \in [0..n + 1 -> BOOLEAN]
  OBVIOUS
<1>4. ow[n + 1] = x /\ \A i \in 0..n : ow[i] = on[i]
  BY <1>1, <1>2, Zenon
<1>5. QED
  BY <1>1, <1>3, <1>4 DEF Longer

LEMMA PushedIs ==
  ASSUME NEW s \in Stacks, NEW f \in Frame \cup PeekFrame, NEW n, n = Len(s),
         NEW t, t = Append(s, f)
  PROVE  Pushed(s, f, n, t)
<1>1. n \in Nat /\ DOMAIN s = 1..n /\ Len(s) = n
  BY DEF Stacks
<1>2. t \in Stacks /\ Len(t) = n + 1 /\ t[n + 1] = f /\ \A i \in 1..n : t[i] = s[i]
  BY <1>1 DEF Stacks
<1>3. DOMAIN t = 1..n + 1
  BY <1>2 DEF Stacks
<1>4. ActiveIn(s) \subseteq 1..n /\ ActiveIn(t) \subseteq 1..n + 1
  BY <1>1, <1>3 DEF ActiveIn
<1>5. \A i \in 1..n : i \in ActiveIn(t) <=> i \in ActiveIn(s)
  BY <1>1, <1>2, <1>3 DEF ActiveIn
<1>6. ActiveIn(t) \ {n + 1} = ActiveIn(s)
  BY <1>1, <1>4, <1>5
<1>7. \A k \in 1..n : Shutter(t, k) => Shutter(s, k)
  BY <1>1, <1>2, <1>6 DEF Shutter
<1>8. QED
  BY <1>1, <1>2, <1>3, <1>4, <1>6, <1>7 DEF Pushed

\* What is already there when another call begins.
LEMMA PushedLevels ==
  ASSUME NEW s \in Stacks, NEW f \in Frame \cup PeekFrame, NEW n, n = Len(s),
         NEW t, t = Append(s, f), NEW lv, NEW on, History(s, lv, on), NEW i \in 0..n, on[i]
  PROVE  LevelOK(t, i, Awake(lv[i]))
<1>1. LevelOK(s, i, Awake(lv[i]))
  BY DEF History
<1>2. Pushed(s, f, n, t)
  BY PushedIs
<1>3. /\ ActiveIn(s) \subseteq ActiveIn(t)
      /\ \A k \in 1..i : t[k] = s[k] /\ (Shutter(t, k) => Shutter(s, k))
  BY <1>2 DEF Pushed
<1>4. QED
  BY <1>1, <1>3 DEF LevelOK

\* Nothing is called by a pass that calls nothing, and includes are sorted by
\* the outermost call only.
LEMMA WithinIs ==
  ASSUME NEW p \in Passes, Within(p), stack # <<>>
  PROVE  p # "CPP_SORT_INCLUDES" /\ (IsPass(Top) => Top.pass \notin Leaves \ Printing)
BY DEF Within, Leaves, Printing, Passes

LEMMA PeekOK ==
  ASSUME DepthAssumption, IInv, Peek
  PROVE  IInv'
<1> DEFINE n == Len(stack)
           f == [peek |-> enable]
           t == Append(stack, f)
<1>1. PICK lv, on : History(stack, lv, on) /\ lv[n] = LevelOf(ps) /\ on[n] = enable
  BY DEF IInv
<1>2. /\ stack \in Stacks /\ n < MaxDepth /\ CallsOK(stack) /\ ps \in PassStates /\ enable \in BOOLEAN
      /\ stack' = t /\ enable' = FALSE /\ ps' = ps /\ Within("DECL")
  BY DEF IInv, Peek, Stacks
<1>3. f \in PeekFrame /\ ~IsPass(f) /\ f.peek = enable
  BY <1>2, FrameKinds DEF PeekFrame
<1> DEFINE lw == [i \in 0..n + 1 |-> IF i = n + 1 THEN lv[n] ELSE lv[i]]
           ow == [i \in 0..n + 1 |-> (i = n + 1 /\ FALSE) \/ (i # n + 1 /\ on[i])]
<1> HIDE DEF f
<1>4. Pushed(stack, f, n, t)
  <2> HIDE DEF t, n
  <2>1. n = Len(stack) /\ t = Append(stack, f)
    BY DEF n, t
  <2>2. QED
    BY <1>2, <1>3, <2>1, PushedIs
<1>5. \A i \in 0..n : on[i] => LevelOK(t, i, Awake(lv[i]))
  BY <1>1, <1>2, <1>3, PushedLevels
<1>6. stack # <<>> => (IsPass(stack[n]) => stack[n].pass \notin Leaves \ Printing)
  <2>1. "DECL" \in Passes
    BY DEF Passes
  <2>2. QED
    BY <1>2, <2>1, WithinIs DEF Top
<1>7. n = 0 <=> stack = <<>>
  BY <1>2 DEF Stacks
<1>8. Len(stack) = n
  OBVIOUS
<1> HIDE DEF n, t
<1>9. ActiveIn(t) = ActiveIn(stack)
  <2>1. n + 1 \notin ActiveIn(t)
    BY <1>3, <1>4 DEF ActiveIn, Pushed
  <2>2. QED
    BY <1>4, <2>1 DEF Pushed
<1>10. CallsOK(t)
  <2>1. ASSUME NEW i \in 1..n
        PROVE  FrameOK(t, i)
    <3>1. t[i] = stack[i] /\ FrameOK(stack, i)
      BY <1>2, <1>4 DEF CallsOK, Pushed
    <3>2. IsPass(stack[i]) => stack[i].pass \notin Leaves \ Printing
      BY <1>4, <1>6, <1>7, <1>8, <3>1 DEF FrameOK, Pushed
    <3>3. QED
      BY <3>1, <3>2 DEF FrameOK
  <2>2. FrameOK(t, n + 1)
    BY <1>3, <1>4 DEF FrameOK, Pushed
  <2>3. \A i \in DOMAIN t : FrameOK(t, i)
    BY <1>4, <2>1, <2>2 DEF Pushed
  <2>4. \A i \in ActiveIn(t) : i \in ActiveIn(stack) /\ t[i] = stack[i] /\ i \in 1..n
    BY <1>4, <1>9 DEF Pushed
  <2>5. ASSUME NEW i \in DOMAIN t, NEW j \in ActiveIn(t), i < j
        PROVE  /\ IsPass(t[i])
               /\ t[i].ignore /\ (\A k \in ActiveIn(t) : k > i) => t[j].pass # t[i].pass
    <3>1. i \in DOMAIN stack /\ t[i] = stack[i] /\ j \in ActiveIn(stack) /\ t[j] = stack[j]
      BY <1>4, <2>4, <2>5 DEF Pushed
    <3>2. QED
      BY <1>2, <1>9, <2>5, <3>1 DEF CallsOK
  <2>6. \A i, j \in ActiveIn(t) :
          (t[i].pass = t[j].pass => i = j) /\ (t[i].pass \in Loners => i = j)
    BY <1>2, <2>4 DEF CallsOK
  <2>7. QED
    BY <2>3, <2>5, <2>6 DEF CallsOK
<1>11. /\ lv \in [0..n -> Level] /\ on \in [0..n -> BOOLEAN]
       /\ \A p \in Passes : lv[0][p] = "DISABLE"
       /\ \A i \in 1..n : Moves(stack[i], lv[i - 1], lv[i], on[i - 1], on[i])
       /\ \A i, j \in 0..n : i <= j /\ on[j] => on[i]
  BY <1>1, <1>8 DEF History
<1>12. /\ lw \in [0..n + 1 -> Level] /\ ow \in [0..n + 1 -> BOOLEAN]
       /\ Longer(lw, lv, n, lv[n]) /\ Longer(ow, on, n, FALSE)
  <2>1. n \in Nat /\ lv[n] \in Level
    BY <1>4, <1>11 DEF Pushed
  <2>2. /\ lw = [i \in 0..n + 1 |-> IF i = n + 1 THEN lv[n] ELSE lv[i]]
        /\ ow = [i \in 0..n + 1 |-> (i = n + 1 /\ FALSE) \/ (i # n + 1 /\ on[i])]
    OBVIOUS
  <2> HIDE DEF lw, ow
  <2>3. lw \in [0..n + 1 -> Level] /\ Longer(lw, lv, n, lv[n])
    BY <1>11, <2>1, <2>2, LongerIs
  <2>4. ow \in [0..n + 1 -> BOOLEAN] /\ Longer(ow, on, n, FALSE)
    BY <1>11, <2>1, <2>2, SwitchedIs
  <2>5. QED
    BY <2>3, <2>4
<1> HIDE DEF lw, ow
<1>13. History(t, lw, ow)
  <2>1. \A p \in Passes : lw[0][p] = "DISABLE"
    <3>1. 0 \in 0..n
      BY <1>4 DEF Pushed
    <3>2. lw[0] = lv[0]
      BY <1>12, <3>1 DEF Longer
    <3>3. QED
      BY <1>11, <3>2
  <2>2. ASSUME NEW i \in 1..n + 1
        PROVE  Moves(t[i], lw[i - 1], lw[i], ow[i - 1], ow[i])
    <3>1. CASE i = n + 1
      BY <1>1, <1>3, <1>4, <1>12, <3>1 DEF Moves, Pushed, Longer
    <3>2. CASE i # n + 1
      <4>1. i \in 1..n /\ i - 1 \in 0..n /\ i \in 0..n /\ t[i] = stack[i]
        BY <1>4, <3>2 DEF Pushed
      <4>2. QED
        BY <1>11, <1>12, <4>1 DEF Longer
    <3>3. QED
      BY <3>1, <3>2
  <2>3. \A i, j \in 0..n + 1 : i <= j /\ ow[j] => ow[i]
    BY <1>4, <1>11, <1>12 DEF Pushed, Longer
  <2>4. \A i \in 0..n + 1 : ow[i] => LevelOK(t, i, Awake(lw[i]))
    BY <1>4, <1>5, <1>12 DEF Pushed, Longer
  <2>5. QED
    BY <1>4, <1>12, <2>1, <2>2, <2>3, <2>4 DEF History, Pushed, Longer
<1>14. lw[Len(t)] = LevelOf(ps') /\ ow[Len(t)] = enable'
  BY <1>1, <1>2, <1>4, <1>12 DEF Pushed, Longer
<1>15. Len(t) <= MaxDepth
  BY <1>2, <1>4 DEF DepthAssumption, Pushed
<1>16. QED
  BY <1>2, <1>4, <1>10, <1>13, <1>14, <1>15 DEF IInv, Stacks, Pushed

LEMMA EnterOK ==
  ASSUME DepthAssumption, IInv, NEW p \in Passes, Enter(p)
  PROVE  IInv'
<1> DEFINE n == Len(stack)
           N == Awake(LevelOf(ps))
           M == Awake(LevelOf(ps'))
<1>1. PICK lv, on : History(stack, lv, on) /\ lv[n] = LevelOf(ps) /\ on[n] = enable
  BY DEF IInv
<1>2. PICK flags \in Flags(p) :
         /\ ps' = Entered(ps, enable, p, flags)
         /\ stack' = Append(stack, [pass |-> p, granted |-> Granted(ps', p),
                ignore |-> "IGNORE" \in flags, held |-> TRUE, saved |-> ps[p].state])
  BY DEF Enter
<1> DEFINE f == [pass |-> p, granted |-> Granted(ps', p),
                ignore |-> "IGNORE" \in flags, held |-> TRUE, saved |-> ps[p].state]
           t == Append(stack, f)
           lw == [i \in 0..n + 1 |-> IF i = n + 1 THEN LevelOf(ps') ELSE lv[i]]
           ow == [i \in 0..n + 1 |-> (i = n + 1 /\ enable) \/ (i # n + 1 /\ on[i])]
<1>3. /\ stack \in Stacks /\ n < MaxDepth /\ CallsOK(stack) /\ ps \in PassStates /\ enable \in BOOLEAN
      /\ stack' = t /\ enable' = enable /\ Within(p)
  BY <1>2 DEF IInv, Enter, Stacks
<1>4. /\ "IGNORE" \in flags => p \in {"DECL", "DECL_FORWARD"}
      /\ "FORCE" \in flags => p = "CPP_SORT_INCLUDES"
  BY <1>2 DEF Flags
<1>5. n = 0 <=> stack = <<>>
  BY <1>3 DEF Stacks
<1>6. /\ stack # <<>> => p # "CPP_SORT_INCLUDES" /\ "FORCE" \notin flags
      /\ stack # <<>> => (IsPass(stack[n]) => stack[n].pass \notin Leaves \ Printing)
  BY <1>3, <1>4, WithinIs DEF Top
<1>7. Len(stack) = n /\ N \in SUBSET Passes /\ M \in SUBSET Passes /\ Awake(lv[n]) = N
  BY <1>1 DEF Awake
\* What is granted.
<1>8. /\ ps' \in PassStates
      /\ \A q \in Passes : q # p => ps'[q] = ps[q]
      /\ ~enable /\ "FORCE" \notin flags => ps'[p].state = "IGNORE"
      /\ enable \/ "FORCE" \in flags =>
            /\ M = Stacked(N, p)
            /\ ps'[p].state = "IGNORE" => p \in N \/ "IGNORE" \in flags
            /\ ps'[p].state = "ENABLE" => /\ p \notin N /\ "IGNORE" \notin flags
                                          /\ N \ {p} = {} \/ Parent(N, p)
  BY <1>2, <1>3, EnteredIs
<1>9. /\ f \in Frame /\ IsPass(f) /\ f.pass = p /\ f.held /\ f.saved = ps[p].state
      /\ f.granted <=> ps'[p].state = "ENABLE"
      /\ f.ignore <=> "IGNORE" \in flags
  <2>1. f \in Frame
    BY <1>3 DEF Frame, Granted, PassStates, States
  <2>2. QED
    BY <2>1, FrameKinds DEF Granted
<1>10. p \in M <=> ps'[p].state # "DISABLE"
  BY DEF Awake, LevelOf
<1> HIDE DEF f, N, M
<1>11. Pushed(stack, f, n, t)
  <2> HIDE DEF t, n
  <2>1. n = Len(stack) /\ t = Append(stack, f)
    BY DEF n, t
  <2>2. QED
    BY <1>3, <1>9, <2>1, PushedIs
<1>12. \A i \in 0..n : on[i] => LevelOK(t, i, Awake(lv[i]))
  BY <1>1, <1>3, <1>9, PushedLevels
<1> HIDE DEF n, t
<1>13. /\ lv \in [0..n -> Level] /\ on \in [0..n -> BOOLEAN]
       /\ \A q \in Passes : lv[0][q] = "DISABLE"
       /\ \A i \in 1..n : Moves(stack[i], lv[i - 1], lv[i], on[i - 1], on[i])
       /\ \A i, j \in 0..n : i <= j /\ on[j] => on[i]
       /\ \A i \in 0..n : on[i] => LevelOK(stack, i, Awake(lv[i]))
  BY <1>1, <1>7 DEF History
<1>14. n \in Nat /\ n \in 0..n /\ (enable => LevelOK(stack, n, N))
  BY <1>1, <1>7, <1>11, <1>13 DEF Pushed
<1>15. n + 1 \in ActiveIn(t) <=> f.granted
  BY <1>9, <1>11, <1>14 DEF Pushed, ActiveIn
<1>16. Sane(N) \/ ~enable
  BY <1>14 DEF LevelOK
\* What was granted to a call around is not granted.
<1>17. ASSUME f.granted, NEW k \in 1..n
       PROVE  enable /\ (Shutter(stack, k) => Shut(N, stack[k].pass) /\ stack[k].pass # p)
  <2>1. enable
    BY <1>5, <1>6, <1>8, <1>9, <1>14, <1>17
  <2>2. ASSUME Shutter(stack, k)
        PROVE  Shut(N, stack[k].pass)
    BY <1>14, <2>1, <2>2 DEF LevelOK
  <2>3. ~Shut(N, p)
    BY <1>7, <1>8, <1>9, <1>16, <1>17, <2>1, GrantedShut
  <2>4. QED
    BY <2>1, <2>2, <2>3
<1>18. CallsOK(t)
  <2>1. ASSUME NEW i \in 1..n
        PROVE  FrameOK(t, i)
    <3>1. t[i] = stack[i] /\ FrameOK(stack, i)
      BY <1>3, <1>11 DEF CallsOK, Pushed
    <3>2. IsPass(stack[i]) => stack[i].pass \notin Leaves \ Printing
      BY <1>5, <1>6, <1>7, <1>14, <3>1 DEF FrameOK
    <3>3. QED
      BY <3>1, <3>2 DEF FrameOK
  <2>2. FrameOK(t, n + 1)
    <3>1. t[n + 1] = f /\ Len(t) = n + 1
      BY <1>11 DEF Pushed
    <3>2. f.ignore => ~f.granted /\ p \in {"DECL", "DECL_FORWARD"}
      BY <1>4, <1>8, <1>9
    <3>3. p = "CPP_SORT_INCLUDES" => n + 1 = 1
      BY <1>5, <1>6, <1>14
    <3>4. QED
      BY <1>9, <3>1, <3>2, <3>3 DEF FrameOK
  <2>3. \A i \in DOMAIN t : FrameOK(t, i)
    BY <1>11, <1>14, <2>1, <2>2 DEF Pushed
  <2>4. \A i \in ActiveIn(t) : \/ i \in ActiveIn(stack) /\ t[i] = stack[i] /\ i \in 1..n
                               \/ i = n + 1 /\ t[i] = f /\ f.granted
    BY <1>11, <1>15 DEF Pushed
  <2>5. \A i \in ActiveIn(stack) : Shutter(stack, i)
    BY DEF Shutter, ActiveIn
  <2>6. ASSUME NEW i \in ActiveIn(t), NEW j \in ActiveIn(t), i # j
        PROVE  t[i].pass # t[j].pass
    BY <1>3, <1>9, <1>17, <2>4, <2>5, <2>6 DEF CallsOK
  <2>7. ASSUME NEW i \in ActiveIn(t), NEW j \in ActiveIn(t), i # j
        PROVE  t[i].pass \notin Loners
    <3>1. CASE i = n + 1
      <4>1. f.granted /\ j \in 1..n /\ Shutter(stack, j) /\ t[i].pass = p
        BY <1>9, <1>14, <2>4, <2>5, <2>7, <3>1
      <4>2. enable /\ N # {}
        BY <1>17, <4>1 DEF Shut
      <4>3. \E q \in N : <<q, p>> \in Exceptions
        BY <1>8, <1>9, <4>1, <4>2 DEF Parent
      <4>4. QED
        BY <1>7, <4>1, <4>3 DEF Loners
    <3>2. CASE j = n + 1 /\ i # n + 1
      <4>1. /\ i \in 1..n /\ t[i] = stack[i] /\ IsPass(stack[i]) /\ FrameOK(stack, i)
            /\ i \in ActiveIn(stack)
        BY <1>3, <1>11, <2>4, <2>5, <3>2 DEF CallsOK, Pushed, Shutter
      <4>2. stack[i].pass \in Loners => i = n /\ stack[i].pass \in Leaves \ Printing
        BY <1>7, <4>1, LonersAre DEF FrameOK
      <4>3. QED
        BY <1>5, <1>6, <1>14, <4>1, <4>2
    <3>3. CASE i # n + 1 /\ j # n + 1
      BY <1>3, <2>4, <2>7, <3>3 DEF CallsOK
    <3>4. QED
      BY <3>1, <3>2, <3>3
  <2>8. ASSUME NEW i \in DOMAIN t, NEW j \in ActiveIn(t), i < j
        PROVE  /\ IsPass(t[i])
               /\ t[i].ignore /\ (\A k \in ActiveIn(t) : k > i) => t[j].pass # t[i].pass
    <3>1. i \in 1..n /\ t[i] = stack[i] /\ i \in DOMAIN stack
      BY <1>11, <1>14, <2>4, <2>8 DEF Pushed
    <3>2. ActiveIn(stack) \subseteq ActiveIn(t)
      BY <1>11 DEF Pushed
    <3>3. CASE j = n + 1
      <4>1. f.granted /\ t[j] = f /\ enable
        BY <1>14, <1>17, <2>4, <3>1, <3>3
      <4>2. IsPass(stack[i])
        <5>1. on[i] /\ i \in 0..n
          <6>1. i \in 0..n /\ i <= n
            BY <1>14, <3>1
          <6>2. on[n]
            BY <1>1, <4>1
          <6>3. QED
            BY <1>13, <1>14, <6>1, <6>2
        <5>2. Moves(stack[i], lv[i - 1], lv[i], on[i - 1], on[i])
          BY <1>13, <3>1
        <5>3. QED
          BY <5>1, <5>2 DEF Moves
      <4>3. stack[i].ignore /\ (\A k \in ActiveIn(t) : k > i) => Shutter(stack, i)
        BY <3>2, <4>2 DEF Shutter
      <4>4. QED
        BY <1>9, <1>17, <3>1, <4>1, <4>2, <4>3
    <3>4. CASE j # n + 1
      <4>1. j \in ActiveIn(stack) /\ t[j] = stack[j]
        BY <2>4, <3>4
      <4>2. QED
        BY <1>3, <2>8, <3>1, <3>2, <4>1 DEF CallsOK
    <3>5. QED
      BY <3>3, <3>4
  <2>9. QED
    BY <2>3, <2>6, <2>7, <2>8 DEF CallsOK
<1>19. /\ lw \in [0..n + 1 -> Level] /\ ow \in [0..n + 1 -> BOOLEAN]
       /\ Longer(lw, lv, n, LevelOf(ps')) /\ Longer(ow, on, n, enable)
  <2>1. LevelOf(ps') \in Level
    BY <1>8 DEF LevelOf, Level, PassStates
  <2>2. /\ lw = [i \in 0..n + 1 |-> IF i = n + 1 THEN LevelOf(ps') ELSE lv[i]]
        /\ ow = [i \in 0..n + 1 |-> (i = n + 1 /\ enable) \/ (i # n + 1 /\ on[i])]
    OBVIOUS
  <2> HIDE DEF lw, ow
  <2>3. lw \in [0..n + 1 -> Level] /\ Longer(lw, lv, n, LevelOf(ps'))
    BY <1>13, <1>14, <2>1, <2>2, LongerIs
  <2>4. ow \in [0..n + 1 -> BOOLEAN] /\ Longer(ow, on, n, enable)
    BY <1>3, <1>13, <1>14, <2>2, SwitchedIs
  <2>5. QED
    BY <2>3, <2>4
<1> HIDE DEF lw, ow
\* What the call leaves behind, if simple mode is enabled.
<1>20. ASSUME enable
       PROVE  LevelOK(t, n + 1, M)
  <2>1. M = Stacked(N, p) /\ Sane(N) /\ Sane(M)
    BY <1>7, <1>8, <1>16, <1>20, StaysSane
  <2>2. ASSUME NEW k \in 1..n, Shutter(t, k)
        PROVE  Shut(M, t[k].pass)
    <3>1. Shutter(stack, k) /\ t[k] = stack[k] /\ stack[k] \in Frame \cup PeekFrame
      BY <1>3, <1>11, <2>2 DEF Pushed, Stacks
    <3>2. Shut(N, stack[k].pass) /\ stack[k].pass \in Passes
      <4>1. Shut(N, stack[k].pass)
        BY <1>14, <1>20, <3>1 DEF LevelOK
      <4>2. stack[k] \in Frame
        BY <3>1, FrameKinds DEF Shutter
      <4>3. QED
        BY <4>1, <4>2 DEF Frame
    <3>3. QED
      BY <1>7, <2>1, <3>1, <3>2, StaysShut
  <2>3. ASSUME \A k \in ActiveIn(t) : k > n + 1
        PROVE  N \subseteq {"DECL", "DECL_FORWARD"} /\ ~f.granted
    <3>1. ~f.granted
      BY <1>14, <1>15, <2>3
    <3>2. \A k \in ActiveIn(stack) : k > n
      BY <1>11, <1>14, <2>3 DEF Pushed
    <3>3. QED
      BY <1>14, <1>20, <3>1, <3>2 DEF LevelOK
  <2>4. ASSUME Shutter(t, n + 1)
        PROVE  Shut(M, p)
    <3>1. CASE f.granted
      <4>1. p \notin N /\ (N \ {p} = {} \/ Parent(N, p))
        BY <1>8, <1>9, <1>20, <3>1
      <4>2. M = N \cup {p}
        BY <2>1, <4>1 DEF Stacked
      <4>3. QED
        BY <1>7, <2>1, <4>1, <4>2, GrantedShut
    <3>2. CASE ~f.granted
      <4>1. f.ignore /\ \A k \in ActiveIn(t) : k > n + 1
        BY <1>11, <1>15, <2>4, <3>2 DEF Shutter, Pushed
      <4>2. p \in {"DECL", "DECL_FORWARD"} /\ N \subseteq {"DECL", "DECL_FORWARD"}
        BY <1>4, <1>9, <2>3, <4>1
      <4>3. M # {} /\ M \subseteq N \cup {p} /\ (p \notin M => N \ {p} # {} /\ ~Parent(N, p))
        BY <2>1 DEF Stacked
      <4>4. p = "DECL_FORWARD" => (p \in M \/ "DECL" \notin M)
        BY <4>2, <4>3, ParentIs DEF Kids
      <4>5. QED
        BY <4>2, <4>3, <4>4 DEF Shut, Outside, Kids
    <3>3. QED
      BY <3>1, <3>2
  <2>5. ASSUME \A k \in ActiveIn(t) : k > n + 1
        PROVE  M \subseteq {"DECL", "DECL_FORWARD"}
    <3>1. N \subseteq {"DECL", "DECL_FORWARD"} /\ ps'[p].state # "ENABLE"
      BY <1>9, <2>3, <2>5
    <3>2. ps'[p].state \in States
      BY <1>8 DEF PassStates
    <3>3. p \in M => p \in {"DECL", "DECL_FORWARD"}
      BY <1>4, <1>8, <1>10, <1>20, <3>1, <3>2 DEF States
    <3>4. QED
      BY <2>1, <3>1, <3>3 DEF Stacked
  <2>6. ASSUME NEW k \in 1..n + 1, Shutter(t, k)
        PROVE  Shut(M, t[k].pass)
    <3>1. CASE k = n + 1
      BY <1>9, <1>11, <2>4, <2>6, <3>1 DEF Pushed
    <3>2. CASE k # n + 1
      <4>1. k \in 1..n
        BY <1>14, <3>2
      <4>2. QED
        BY <2>2, <2>6, <4>1
    <3>3. QED
      BY <3>1, <3>2
  <2>7. QED
    BY <2>1, <2>5, <2>6 DEF LevelOK
<1>21. History(t, lw, ow)
  <2>1. \A q \in Passes : lw[0][q] = "DISABLE"
    <3>1. lw[0] = lv[0]
      BY <1>14, <1>19 DEF Longer
    <3>2. QED
      BY <1>13, <3>1
  <2>2. ASSUME NEW i \in 1..n + 1
        PROVE  Moves(t[i], lw[i - 1], lw[i], ow[i - 1], ow[i])
    <3>1. CASE i = n + 1
      <4>1. /\ lw[i - 1] = LevelOf(ps) /\ lw[i] = LevelOf(ps') /\ ow[i - 1] = enable /\ ow[i] = enable
            /\ t[i] = f
        BY <1>1, <1>11, <1>14, <1>19, <3>1 DEF Pushed, Longer
      <4>2. QED
        BY <1>8, <1>9, <4>1 DEF Moves, LevelOf
    <3>2. CASE i # n + 1
      <4>1. i \in 1..n /\ i - 1 \in 0..n /\ i \in 0..n /\ t[i] = stack[i]
        BY <1>11, <3>2 DEF Pushed
      <4>2. QED
        BY <1>13, <1>19, <4>1 DEF Longer
    <3>3. QED
      BY <3>1, <3>2
  <2>3. \A i, j \in 0..n + 1 : i <= j /\ ow[j] => ow[i]
    BY <1>1, <1>13, <1>14, <1>19 DEF Longer
  <2>4. ASSUME NEW i \in 0..n + 1, ow[i]
        PROVE  LevelOK(t, i, Awake(lw[i]))
    <3>1. CASE i = n + 1
      BY <1>14, <1>19, <1>20, <2>4, <3>1 DEF Longer, M
    <3>2. CASE i # n + 1
      <4>1. i \in 0..n
        BY <1>14, <3>2
      <4>2. QED
        BY <1>12, <1>19, <2>4, <4>1 DEF Longer
    <3>3. QED
      BY <3>1, <3>2
  <2>5. QED
    BY <1>11, <1>19, <2>1, <2>2, <2>3, <2>4 DEF History, Pushed
<1>22. lw[Len(t)] = LevelOf(ps') /\ ow[Len(t)] = enable'
  BY <1>3, <1>11, <1>19 DEF Pushed, Longer
<1>23. Len(t) <= MaxDepth
  BY <1>3, <1>11 DEF DepthAssumption, Pushed
<1>24. QED
  BY <1>3, <1>8, <1>11, <1>18, <1>21, <1>22, <1>23 DEF IInv, Stacks, Pushed

-----------------------------------------------------------------------------
LEMMA InitOK ==
  ASSUME DepthAssumption, Init
  PROVE  IInv
<1> DEFINE lv == [i \in 0..0 |-> LevelOf(ps)]
           on == [i \in 0..0 |-> enable]
<1>1. /\ stack = <<>> /\ enable \in BOOLEAN /\ ps \in PassStates
      /\ \A p \in Passes : ps[p].state = "DISABLE"
  BY DEF Init, Idle, PassStates, States
<1>2. stack \in Seq(Frame \cup PeekFrame) /\ Len(stack) = 0 /\ DOMAIN stack = {}
  BY <1>1
<1>3. LevelOf(ps) \in Level /\ \A p \in Passes : LevelOf(ps)[p] = "DISABLE"
  BY <1>1 DEF LevelOf, Level, States
<1>4. ActiveIn(stack) = {} /\ CallsOK(stack)
  BY <1>2 DEF ActiveIn, CallsOK
<1>5. /\ lv \in [0..0 -> Level] /\ lv[0] = LevelOf(ps)
      /\ on \in [0..0 -> BOOLEAN] /\ on[0] = enable
  BY <1>1, <1>3
<1>6. Awake(lv[0]) = {}
  BY <1>3, <1>5 DEF Awake
<1> HIDE DEF lv, on
<1>7. LevelOK(stack, 0, Awake(lv[0]))
  BY <1>6 DEF LevelOK, Sane
<1>8. \A i \in 0..0 : i = 0
  OBVIOUS
<1>9. History(stack, lv, on)
  BY <1>2, <1>3, <1>5, <1>7, <1>8 DEF History
<1>10. QED
  BY <1>1, <1>2, <1>4, <1>5, <1>9 DEF IInv, DepthAssumption

LEMMA NextOK ==
  ASSUME DepthAssumption, IInv, [Next]_vars
  PROVE  IInv'
<1>1. CASE Next
  BY <1>1, EnterOK, LeaveEarlyOK, ReturnOK, PeekOK DEF Next
<1>2. CASE UNCHANGED vars
  BY <1>2 DEF vars, IInv, History, CallsOK, ActiveIn
<1>3. QED
  BY <1>1, <1>2

LEMMA Gated ==
  ASSUME DepthAssumption, IInv
  PROVE  PassesGated
<1>1. /\ ps \in PassStates /\ enable \in BOOLEAN /\ stack \in Seq(Frame \cup PeekFrame)
      /\ Len(stack) <= MaxDepth /\ CallsOK(stack)
  BY DEF IInv
<1>2. TypeOK
  BY <1>1 DEF TypeOK, PassStates, States, DepthAssumption
<1>3. Active = ActiveIn(stack)
  BY DEF Active, ActiveIn
<1>4. EnabledOnce /\ LonersAlone /\ PeekIsReadOnly
  BY <1>1, <1>3 DEF EnabledOnce, LonersAlone, PeekIsReadOnly, CallsOK
<1>5. IgnoredAtRoot
  BY <1>1, <1>3 DEF IgnoredAtRoot, CallsOK
<1>6. ASSUME stack = <<>>
      PROVE  \A p \in Passes : ps[p].state = "DISABLE"
  <2>1. PICK lv, on : History(stack, lv, on) /\ lv[Len(stack)] = LevelOf(ps)
    BY DEF IInv
  <2>2. Len(stack) = 0
    BY <1>6
  <2>3. QED
    BY <2>1, <2>2 DEF History, LevelOf
<1>7. QED
  BY <1>2, <1>4, <1>5, <1>6 DEF PassesGated, AllLeft

\* Nested to any depth, no two calls collect tokens in one pass, passes that go
\* with no other are alone, nothing is enabled while peeking, what is ignored
\* stays so, and no pass is left enabled.
THEOREM PassesAlwaysGated ==
  ASSUME DepthAssumption
  PROVE  Spec => []PassesGated
<1>1. Init => IInv
  BY InitOK
<1>2. IInv /\ [Next]_vars => IInv'
  BY NextOK
<1>3. IInv => PassesGated
  BY Gated
<1>4. QED
  BY <1>1, <1>2, <1>3, PTL DEF Spec
=============================================================================
