------------------------ MODULE MCSimpleDeclForward ------------------------
(* Small files for SimpleDeclForward.                                      *)
EXTENDS SimpleDeclForward

Thing(k, key, cpp, blank, diff) == [k |-> k, key |-> key, cpp |-> cpp, blank |-> blank, diff |-> diff]
Others(cpps, blanks) == {Thing(k, 0, c, b, TRUE) : k \in {"decl", "proto", "func"}, c \in cpps, b \in blanks}
Forwards(keys, cpps, blanks, diffs) == {Thing("fwd", n, c, b, f) : n \in keys, c \in cpps, b \in blanks, f \in diffs}

Plain == {Thing(k, 0, FALSE, FALSE, TRUE) : k \in {"decl", "proto"}}
Anything == Forwards(1..2, BOOLEAN, {FALSE}, {TRUE}) \cup Forwards(1..2, {FALSE}, {TRUE}, {TRUE}) \cup Others(BOOLEAN, {FALSE})
Blank == Forwards(1..2, {FALSE}, BOOLEAN, {TRUE}) \cup Plain
Diffs == Forwards(1..2, {FALSE}, {FALSE}, BOOLEAN) \cup {Thing("proto", 0, FALSE, FALSE, TRUE)}
MCFiles ==
    UNION {[1..n -> Anything] : n \in 1..3} \cup [1..4 -> Blank]
    \cup {f \in [1..4 -> Diffs] : \E i \in 1..4 : ~f[i].diff}
    \cup [1..5 -> Forwards(1..2, {FALSE}, {FALSE}, {TRUE}) \cup Plain]
    \cup [1..4 -> Forwards(1..3, {FALSE}, {FALSE}, {TRUE}) \cup Plain]
=============================================================================
