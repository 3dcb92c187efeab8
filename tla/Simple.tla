------------------------------- MODULE Simple -------------------------------
(***************************************************************************)
(* The passes of simple mode, simple.c: which of them may be entered while *)
(* others are, and what entering one leaves in its state.  ps maps each    *)
(* pass to its state and the flags it was last entered with.               *)
(***************************************************************************)
EXTENDS TLC

Passes == {"ATTRIBUTES", "BRACES", "CPP_SORT_INCLUDES", "DECL", "DECL_FORWARD", "DECL_PROTO",
    "EXPR_PARENS", "EXPR_PRINTF", "EXPR_SIZEOF", "IMPLICIT_INT", "STATIC", "STMT",
    "STMT_EMPTY_LOOP", "STMT_SWITCH"}

\* Pairs <<parent, nested>> that do not exclude each other.
Exceptions ==
    ({"DECL"} \X {"ATTRIBUTES", "BRACES", "DECL_PROTO", "IMPLICIT_INT", "STATIC", "DECL_FORWARD"})
    \cup {<<"EXPR_PARENS", "EXPR_SIZEOF">>, <<"STMT", "STMT_EMPTY_LOOP">>,
          <<"STMT_EMPTY_LOOP", "STMT">>, <<"STMT_EMPTY_LOOP", "DECL">>, <<"STMT_SWITCH", "STMT">>}

Idle == [p \in Passes |-> [state |-> "DISABLE", force |-> FALSE]]

\* is_pass_mutually_exclusive()
Exclusive(ps, p) ==
    ~ \E i \in Passes : ps[i].state \in {"ENABLE", "IGNORE"} /\ <<i, p>> \in Exceptions

\* simple_enter(), flags being a set
Entered(ps, enable, p, flags) ==
    CASE ~enable /\ "FORCE" \notin flags -> [ps EXCEPT ![p].state = "IGNORE"]
      [] OTHER ->
         IF Exclusive(ps, p) /\ \E i \in Passes \ {p} : ps[i].state # "DISABLE"
         THEN [ps EXCEPT ![p].state = "DISABLE"]
         ELSE IF "IGNORE" \in flags \/ ps[p].state # "DISABLE"
         THEN [ps EXCEPT ![p].state = "IGNORE"]
         ELSE [ps EXCEPT ![p] = [state |-> "ENABLE", force |-> "FORCE" \in flags]]

\* Whether simple_enter() returned 1.  An enabled pass is never entered
\* again as such.
Granted(ps, p) == ps[p].state = "ENABLE"

\* is_simple_enabled()
Enabled(ps, enable, p) == (enable \/ ps[p].force) /\ ps[p].state = "ENABLE"
=============================================================================
