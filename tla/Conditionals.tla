---------------------------- MODULE Conditionals -----------------------------
(***************************************************************************)
(* What the branch links of clang.c stand for: the conditional groups of a *)
(* source file.  A group is the set of positions of its directives; the    *)
(* first one is its #if, the last one its #endif, the others its #else.    *)
(* Groups are opened and closed like parentheses while the file is read;   *)
(* once read, a directive may only be dropped from its group, and a group  *)
(* left with a single directive is gone.                                   *)
(***************************************************************************)
EXTENDS Integers, Sequences, FiniteSets

CONSTANT Pos     \* positions of the source file

VARIABLES open,   \* groups not closed yet, the innermost last
          closed  \* complete groups

vars == <<open, closed>>

Members == UNION (closed \cup {open[i] : i \in DOMAIN open})

Fresh(p) == \A q \in Members : q < p

Init == open = <<>> /\ closed = {}

If(p) ==
    /\ Fresh(p)
    /\ open' = Append(open, {p})
    /\ UNCHANGED closed

Else(p) ==
    /\ open # <<>> /\ Fresh(p)
    /\ open' = [open EXCEPT ![Len(open)] = @ \cup {p}]
    /\ UNCHANGED closed

Endif(p) ==
    /\ open # <<>> /\ Fresh(p)
    /\ closed' = closed \cup {open[Len(open)] \cup {p}}
    /\ open' = SubSeq(open, 1, Len(open) - 1)

Abandon == open' = <<>> /\ UNCHANGED closed

Drop(p) ==
    \E group \in closed :
        /\ p \in group
        /\ closed' = (closed \ {group})
                     \cup {rest \in {group \ {p}} : Cardinality(rest) > 1}
        /\ UNCHANGED open

Next ==
    \/ \E p \in Pos : If(p) \/ Else(p) \/ Endif(p) \/ Drop(p)
    \/ Abandon

Spec == Init /\ [][Next]_vars
=============================================================================
