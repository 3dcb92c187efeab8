---------------------------- MODULE SimplePasses ----------------------------
(***************************************************************************)
(* How the parser nests the passes of simple mode.  A function that enters *)
(* a pass holds a cookie which leaves it when the function returns, or     *)
(* before: some functions parse twice, first with their pass enabled and   *)
(* then after leaving it.  Functions that only peek switch simple mode off *)
(* for as long as they run.                                                *)
(*                                                                         *)
(* stack holds a frame per such function: the pass, what it was granted,   *)
(* the state saved in its cookie and whether the cookie is still held; or, *)
(* while peeking, the mode to return to.                                   *)
(***************************************************************************)
EXTENDS Simple, Integers, Sequences

CONSTANTS
    MaxDepth     \* bound on the frames

\* What is assumed of it, which Passes checks.
DepthAssumption == MaxDepth \in Nat

VARIABLES ps, enable, stack
vars == <<ps, enable, stack>>

Frame == [pass : Passes, granted : BOOLEAN, ignore : BOOLEAN, held : BOOLEAN,
          saved : {"DISABLE", "ENABLE", "IGNORE"}]
PeekFrame == [peek : BOOLEAN]
IsPass(f) == "pass" \in DOMAIN f

\* Types of the passes and of the calls that are active.
TypeOK ==
    /\ ps \in [Passes -> [state : {"DISABLE", "ENABLE", "IGNORE"}, force : BOOLEAN]]
    /\ enable \in BOOLEAN
    /\ Len(stack) \in 0..MaxDepth
    /\ \A i \in DOMAIN stack : stack[i] \in Frame \cup PeekFrame

-----------------------------------------------------------------------------
(* What may be entered within: functions that parse may reach any other,   *)
(* through statement expressions at the latest; printing an expression     *)
(* reaches its operands only.                                              *)

Printing == {"EXPR_PARENS", "EXPR_SIZEOF"}
Leaves == {"BRACES", "CPP_SORT_INCLUDES", "EXPR_PRINTF", "EXPR_SIZEOF", "IMPLICIT_INT", "STATIC"}

Top == stack[Len(stack)]
Within(p) ==
    CASE stack = <<>> -> TRUE
      [] stack # <<>> /\ ~IsPass(Top) -> p # "CPP_SORT_INCLUDES"
      [] OTHER -> CASE Top.pass \in {"EXPR_SIZEOF", "EXPR_PARENS"} -> p \in Printing
                    [] Top.pass \in Leaves \ Printing -> FALSE
                    [] OTHER -> p # "CPP_SORT_INCLUDES"

\* parser_root() and structs ignore declarations, statements do not; forward
\* declarations are ignored but for those of parser_root().
RootDecl == Len(stack) = 1 /\ IsPass(Top) /\ Top.pass = "DECL" /\ Top.ignore
Flags(p) ==
    CASE p = "DECL" -> {{}, {"IGNORE"}}
      [] p = "DECL_FORWARD" -> IF RootDecl THEN {{}} ELSE {{"IGNORE"}}
      [] p = "CPP_SORT_INCLUDES" -> {{}, {"FORCE"}}
      [] OTHER -> {{}}

-----------------------------------------------------------------------------

Init == ps = Idle /\ enable \in BOOLEAN /\ stack = <<>>

\* simple_enter()
Enter(p) ==
    /\ Len(stack) < MaxDepth /\ Within(p)
    /\ \E flags \in Flags(p) :
        /\ ps' = Entered(ps, enable, p, flags)
        /\ stack' = Append(stack, [pass |-> p, granted |-> Granted(ps', p),
                ignore |-> "IGNORE" \in flags, held |-> TRUE, saved |-> ps[p].state])
    /\ UNCHANGED enable

\* Mutant: the pass is free again, whoever else is in it.
LeavePassFreed(f) == [ps EXCEPT ![f.pass].state = "DISABLE"]

LeavePass(f) == [ps EXCEPT ![f.pass].state = f.saved]

\* simple_leave() once the tokens are rearranged, before parsing again
LeaveEarly ==
    /\ stack # <<>> /\ IsPass(Top) /\ Top.held /\ Top.granted
    /\ Top.pass \in {"DECL", "DECL_FORWARD", "STMT"}
    /\ ps' = LeavePass(Top)
    /\ stack' = [stack EXCEPT ![Len(stack)].held = FALSE]
    /\ UNCHANGED enable

\* The cleanup of the cookie.
Return ==
    /\ stack # <<>> /\ IsPass(Top)
    /\ ps' = IF Top.held THEN LeavePass(Top) ELSE ps
    /\ stack' = SubSeq(stack, 1, Len(stack) - 1)
    /\ UNCHANGED enable

\* simple_disable(), simple_enable()
Peek ==
    /\ Len(stack) < MaxDepth /\ Within("DECL")
    /\ stack' = Append(stack, [peek |-> enable]) /\ enable' = FALSE /\ UNCHANGED ps
PeekDone ==
    /\ stack # <<>> /\ ~IsPass(Top)
    /\ enable' = Top.peek /\ stack' = SubSeq(stack, 1, Len(stack) - 1) /\ UNCHANGED ps

Next == (\E p \in Passes : Enter(p)) \/ LeaveEarly \/ Return \/ Peek \/ PeekDone
Spec == Init /\ [][Next]_vars

-----------------------------------------------------------------------------
(* Correctness.                                                            *)

\* The frames whose pass is enabled, from the outermost.
Active == {i \in DOMAIN stack : IsPass(stack[i]) /\ stack[i].held /\ stack[i].granted}

\* A pass collects tokens for one function at a time.
EnabledOnce == \A i, j \in Active : stack[i].pass = stack[j].pass => i = j

Loners == {p \in Passes : \A q \in Passes : <<p, q>> \notin Exceptions /\ <<q, p>> \notin Exceptions}

\* A pass that goes with no other is alone.
LonersAlone ==
    \A i, j \in Active : stack[i].pass \in Loners /\ i # j => FALSE

\* Peeking changes no token: no pass is enabled within, unless forced.
PeekIsReadOnly ==
    \A i, j \in DOMAIN stack : i < j /\ ~IsPass(stack[i]) => j \notin Active

\* No pass is left enabled by functions that have returned.
AllLeft == stack = <<>> => \A p \in Passes : ps[p].state = "DISABLE"

\* "All passes are mutually exclusive by default": those enabled together
\* are explicitly allowed to.
PairsAllowed ==
    \A i, j \in Active : i < j => <<stack[i].pass, stack[j].pass>> \in Exceptions

\* "Ignore pass including nested invocations": what was ignored stays so.
IgnoredWithin ==
    \A i, j \in DOMAIN stack :
        i < j /\ IsPass(stack[i]) /\ stack[i].ignore => ~(j \in Active /\ stack[j].pass = stack[i].pass)

\* Which holds while no pass is enabled around it, where being excluded
\* forgets that it was ignored.
IgnoredAtRoot ==
    \A i, j \in DOMAIN stack :
        /\ i < j /\ IsPass(stack[i]) /\ stack[i].ignore
        /\ \A k \in Active : k > i
        => ~(j \in Active /\ stack[j].pass = stack[i].pass)

\* However passes are entered, left early and peeked past, one collects tokens
\* for one function at a time, those that go with no other are alone, nothing
\* is changed while peeking, what is ignored stays so, and no pass is left
\* enabled (simple.c).
PassesGated ==
    TypeOK /\ EnabledOnce /\ LonersAlone /\ PeekIsReadOnly /\ AllLeft /\ IgnoredAtRoot
=============================================================================
