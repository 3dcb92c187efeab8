------------------------------- MODULE Style -------------------------------
(***************************************************************************)
(* The parser of .clang-format in style.c.  Indentation is not looked at:  *)
(* what belongs to an option is found out by its scope, and options not    *)
(* known are left out by guessing where they end.                          *)
(*                                                                         *)
(* A file is a sequence of documents, a document one of entries [key,      *)
(* kind, val].  By kind, val is a token ("scalar"), a sequence of them     *)
(* ("list"), of entries ("map") or of sequences of entries ("maps").       *)
(* Priority stands for both priorities, AfterEnum for all braces.          *)
(***************************************************************************)
EXTENDS Integers, FiniteSets, SequencesExt

CONSTANTS
    Files,      \* what users write
    Dumps,      \* what clang-format -dump-config prints for a style it knows
    BadRegex    \* a string regcomp() refuses

VARIABLES
    file,
    style       \* as a parser state, see Defaults
vars == <<file, style>>

-----------------------------------------------------------------------------
(* Files as tokens                                                         *)

ScalarTokens(e) == <<e.key, ":", e.val>>
MapTokens(es) == FlattenSeq([i \in DOMAIN es |-> ScalarTokens(es[i])])
EntryTokens(e) ==
    CASE e.kind = "scalar" -> ScalarTokens(e)
      [] e.kind = "list" -> <<e.key, ":">> \o FlattenSeq([i \in DOMAIN e.val |-> <<"-", e.val[i]>>])
      [] e.kind = "map" -> <<e.key, ":">> \o MapTokens(e.val)
      [] e.kind = "maps" -> <<e.key, ":">> \o FlattenSeq([i \in DOMAIN e.val |-> <<"-">> \o MapTokens(e.val[i])])
DocumentTokens(d) == <<"---">> \o FlattenSeq([i \in DOMAIN d |-> EntryTokens(d[i])])
Tokens(f) == FlattenSeq([i \in DOMAIN f |-> DocumentTokens(f[i])])

-----------------------------------------------------------------------------
(* Options                                                                 *)

IntegerTokens == {"-1", "0", "1", "2", "80"}
Styles == {"LLVM", "Google", "GNU", "WebKit", "OpenBSD"}
Values == [Language |-> {"Cpp", "Java"}, UseTab |-> {"Never", "Always"}, BasedOnStyle |-> Styles,
           ColumnLimit |-> IntegerTokens, AfterEnum |-> {"true", "false"}]
NestedValues == [Regex |-> {"re", BadRegex}, Priority |-> IntegerTokens, PathComponents |-> IntegerTokens]
Lists == {"IncludeCategories", "IncludeGuards"}
ScopeOf == [Language |-> {"top"}, UseTab |-> {"top"}, BasedOnStyle |-> {"top"}, ColumnLimit |-> {"top"},
            BraceWrapping |-> {"top"}, AfterEnum |-> {"BraceWrapping"},
            IncludeCategories |-> {"top"}, IncludeGuards |-> {"top"}, Regex |-> Lists,
            Priority |-> {"IncludeCategories"}, PathComponents |-> {"IncludeGuards"}]
Known(key) == key \in DOMAIN ScopeOf

IsInScope(st, key) == st.scope \in ScopeOf[key]

\* style_defaults(), those not set being none.
Defaults ==
    [pos |-> 0, err |-> "NONE", scope |-> "top", depth |-> 0, guards |-> FALSE,
     opts |-> [k \in DOMAIN Values |-> CASE k = "UseTab" -> "Always" [] k = "ColumnLimit" -> "80" [] OTHER -> "none"],
     items |-> [k \in Lists |-> <<>>]]

-----------------------------------------------------------------------------
(* The cursor, st.pos being the tokens consumed so far                     *)

Peek(ts, pos) == IF pos < Len(ts) THEN ts[pos + 1] ELSE "EOF"
Pop(ts, pos) == IF pos < Len(ts) THEN pos + 1 ELSE pos
Skips(ts, pos, type) == IF Peek(ts, pos) = type THEN pos + 1 ELSE pos

First(ts, pos, hits) ==
    IF \E i \in pos + 1..Len(ts) : i \in hits
    THEN CHOOSE i \in pos + 1..Len(ts) : i \in hits /\ \A j \in pos + 1..i - 1 : j \notin hits
    ELSE Len(ts) + 1
Begins(ts) == {i \in DOMAIN ts : ts[i] = "---"}

\* yaml_document_language()
DocumentLanguage(ts, pos) ==
    LET keys == {i \in DOMAIN ts : ts[i] = "Language" /\ Peek(ts, i) = ":"}
        i == First(ts, pos, keys \cup Begins(ts))
    IN  IF i \in keys THEN Peek(ts, i + 1) ELSE "none"
Foreign(language) == language \notin {"none", "Cpp"}

SkipDocument(ts, pos) == LET i == First(ts, pos, Begins(ts)) IN IF i > Len(ts) THEN Len(ts) ELSE i

\* What is left of an option not known, a sequence or one token.
\* Mutant: only the first element of a sequence is ignored.
SkipElement(ts, pos) ==
    LET at == Skips(ts, Pop(ts, pos), ":")
    IN  Pop(ts, Skips(ts, at, "-"))
SkipUnknown(ts, pos) ==
    LET at == Skips(ts, Pop(ts, pos), ":")
        ends == {n \in 0..Len(ts) : Peek(ts, at + 2 * n) # "-"}
        n == CHOOSE m \in ends : \A k \in ends : m <= k
    IN  IF n = 0 THEN Pop(ts, at) ELSE IF at + 2 * n > Len(ts) THEN Len(ts) ELSE at + 2 * n

-----------------------------------------------------------------------------
(* Values                                                                  *)

\* parse_bool(), parse_enum(), parse_integer_impl() and parse_string(): the
\* value is the last token consumed.
ParseValue(ts, st, values) ==
    IF Peek(ts, st.pos + 1) # ":" THEN [st EXCEPT !.pos = @ + 1, !.err = "FAIL"]
    ELSE [st EXCEPT !.pos = Pop(ts, @ + 2), !.err = IF Peek(ts, st.pos + 2) \in values THEN "GOOD" ELSE "SKIP"]

\* style_set(), a limit of columns of zero being none.
StyleSet(st, key, val) ==
    [st EXCEPT !.opts[key] = IF key = "ColumnLimit" /\ val = "0" THEN "unlimited" ELSE val]
ParseOption(ts, st, key) ==
    LET r == ParseValue(ts, st, Values[key])
    IN  IF r.err = "GOOD" THEN StyleSet(r, key, ts[r.pos]) ELSE r

\* parse_Regex(), parse_Priority() and parse_PathComponents()
SetItem(st, field, val) == [st EXCEPT !.items[st.scope][Len(st.items[st.scope])][field] = val]
ParseItem(ts, st, key) ==
    LET r == ParseValue(ts, st, NestedValues[key])
        val == ts[r.pos]
    IN  CASE r.err # "GOOD" -> r
          [] r.err = "GOOD" /\ key = "Regex" ->
                 [SetItem(r, "regex", val) EXCEPT !.err = IF val = BadRegex THEN "FAIL" ELSE "GOOD"]
          [] r.err = "GOOD" /\ key = "PathComponents" /\ val \in {"-1", "0"} ->
                 [r EXCEPT !.guards = FALSE, !.err = "FAIL"]
          [] OTHER -> SetItem(r, "number", val)
NoItem(key) == [regex |-> "none", number |-> IF key = "IncludeGuards" THEN "1" ELSE "0"]

-----------------------------------------------------------------------------
(* Documents                                                               *)

RECURSIVE ParseDocuments(_, _, _), ParseItems(_, _, _)

\* The elements of IncludeCategories and IncludeGuards, one error of them
\* being remembered.
ParseItems(ts, st, failed) ==
    IF Peek(ts, st.pos) # "-" THEN [st EXCEPT !.err = IF failed THEN "FAIL" ELSE "NONE"]
    ELSE LET r == ParseDocuments(ts, [st EXCEPT !.pos = @ + 1, !.items[st.scope] = Append(@, NoItem(st.scope))], TRUE)
         IN  ParseItems(ts, r, failed \/ r.err = "FAIL")

\* parse_IncludeCategories(), parse_IncludeGuards() and parse_nested()
ParseScope(ts, st, key) ==
    IF Peek(ts, st.pos + 1) # ":" THEN [st EXCEPT !.pos = @ + 1, !.err = "FAIL"]
    ELSE LET inner == [st EXCEPT !.pos = @ + 2, !.scope = key]
             r == IF key \in Lists THEN ParseItems(ts, inner, FALSE) ELSE ParseDocuments(ts, inner, TRUE)
         IN  [r EXCEPT !.scope = st.scope, !.err = "GOOD",
                       !.guards = IF key = "IncludeGuards" /\ r.err # "FAIL" THEN TRUE ELSE @]

\* parse_BasedOnStyle(): the options of the style are read in between.
ParseBasedOnStyle(ts, st) ==
    LET r == ParseOption(ts, st, "BasedOnStyle")
        name == r.opts["BasedOnStyle"]
        base == ParseDocuments(Tokens(Dumps[name]), [r EXCEPT !.pos = 0, !.depth = 1], FALSE)
    IN  CASE r.err # "GOOD" -> r
          [] r.err = "GOOD" /\ st.depth > 0 -> [r EXCEPT !.err = "SKIP"]
          [] r.err = "GOOD" /\ st.depth = 0 /\ name = "OpenBSD" -> r
          [] r.err = "GOOD" /\ st.depth = 0 /\ name # "OpenBSD" /\ name \notin DOMAIN Dumps -> [r EXCEPT !.err = "SKIP"]
          [] OTHER -> [base EXCEPT !.pos = r.pos, !.depth = 0, !.err = IF @ = "FAIL" THEN "FAIL" ELSE "GOOD"]

ParseKey(ts, st, key) ==
    CASE key = "BasedOnStyle" -> ParseBasedOnStyle(ts, st)
      [] key \in DOMAIN Values \ {"BasedOnStyle"} -> ParseOption(ts, st, key)
      [] key \in DOMAIN NestedValues -> ParseItem(ts, st, key)
      [] key \in Lists \cup {"BraceWrapping"} -> ParseScope(ts, st, key)

\* style_parse_yaml_documents()
ParseDocuments(ts, st, nested) ==
    LET key == Peek(ts, st.pos)
        none == [st EXCEPT !.err = "NONE"]
        r == ParseKey(ts, none, key)
    IN  CASE key = "EOF" -> none
          [] key # "EOF" /\ ~nested /\ Foreign(DocumentLanguage(ts, st.pos)) ->
                 ParseDocuments(ts, [st EXCEPT !.pos = SkipDocument(ts, @)], nested)
          [] OTHER ->
                 CASE key = "-" -> none
                   [] key \in {"---", "..."} -> ParseDocuments(ts, [st EXCEPT !.pos = @ + 1], nested)
                   [] Known(key) /\ ~IsInScope(st, key) -> none
                   [] Known(key) /\ IsInScope(st, key) ->
                          IF r.err = "FAIL" THEN r ELSE ParseDocuments(ts, r, nested)
                   [] OTHER -> ParseDocuments(ts, [st EXCEPT !.pos = SkipUnknown(ts, @)], nested)

Init == file \in Files /\ style = Defaults
Read ==
    /\ style = Defaults
    /\ style' = ParseDocuments(Tokens(file), Defaults, FALSE)
    /\ UNCHANGED file
Next == Read
Spec == Init /\ [][Next]_vars

-----------------------------------------------------------------------------
(* What the entries of a file say                                          *)

LanguageOf(d) ==
    LET l == {i \in DOMAIN d : d[i].key = "Language"}
    IN  IF l = {} THEN "none" ELSE d[CHOOSE i \in l : \A j \in l : i <= j].val
ForC(f) == SelectSeq(f, LAMBDA d : LanguageOf(d) \in {"none", "Cpp"})

Item(key, es) ==
    [f \in {"regex", "number"} |->
        LET keys == IF f = "regex" THEN {"Regex"} ELSE {"Priority", "PathComponents"}
            set == {i \in DOMAIN es : es[i].key \in keys /\ es[i].val \in NestedValues[es[i].key]}
        IN  IF set = {} THEN NoItem(key)[f] ELSE es[CHOOSE i \in set : \A j \in set : i >= j].val]

\* The entries of a file, those of styles it is based on and of braces
\* taking their place.
Base(f) ==
    FlattenSeq([i \in DOMAIN f |-> SelectSeq(f[i], LAMBDA e : e.key # "BasedOnStyle")])
Unfold(e) ==
    CASE e.key = "BasedOnStyle" /\ e.val \in DOMAIN Dumps -> <<e>> \o Base(ForC(Dumps[e.val]))
      [] e.key = "BraceWrapping" -> e.val
      [] OTHER -> <<e>>
Entries(f) == LET es == FlattenSeq(ForC(f)) IN FlattenSeq([i \in DOMAIN es |-> Unfold(es[i])])

Chosen(key, es) ==
    LET set == {i \in DOMAIN es : es[i].key = key /\ es[i].val \in Values[key]}
    IN  IF set = {} THEN Defaults.opts[key]
        ELSE StyleSet(Defaults, key, es[CHOOSE i \in set : \A j \in set : i >= j].val).opts[key]
Listed(key, es) ==
    FlattenSeq([i \in DOMAIN es |->
        IF es[i].key # key THEN <<>> ELSE [j \in DOMAIN es[i].val |-> Item(key, es[i].val[j])]])

Done == style # Defaults
Applied(options) ==
    Done => LET es == Entries(file)
            IN  /\ \A k \in options : style.opts[k] = Chosen(k, es)
                /\ \A k \in Lists : style.items[k] = Listed(k, es)
Options == DOMAIN Values \ {"BasedOnStyle", "Language"}

Invalid(e) ==
    /\ e.key \in Lists
    /\ \E i \in DOMAIN e.val : \E j \in DOMAIN e.val[i] :
        \/ e.val[i][j].val = BadRegex
        \/ e.val[i][j].key = "PathComponents" /\ e.val[i][j].val \in {"-1", "0"}

\* Every option has the value last given to it by a document for C, also
\* behind options and values that are not known, sequences and nested
\* options, and behind styles that cannot be read, unless an element of a
\* list is invalid.
OptionsApplied == (\A e \in Range(Entries(file)) : ~Invalid(e)) => Applied(Options)

\* Documents for other languages are as good as absent, errors being in
\* front of them, behind them or in them.
LanguagesApart ==
    Done => [style EXCEPT !.pos = 0, !.err = "NONE"] =
            [ParseDocuments(Tokens(ForC(file)), Defaults, FALSE) EXCEPT !.pos = 0, !.err = "NONE"]

\* Every option keeps the value last given to it by a document for C behind
\* an option that is not known and holds a sequence of mappings.
OptionsBehindMaps == Applied(Options)
=============================================================================
