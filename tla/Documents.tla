----------------------------- MODULE Documents -----------------------------
(***************************************************************************)
(* Documents and what lays them out: the documents of DocExec (this        *)
(* module's own variables), printing the chunks of a diff (DocDiff), the   *)
(* columns of Ruler, and the configuration all of them follow (Style).     *)
(* Each is checked by itself: `part' tells which, v1 to v10 are the        *)
(* variables of the others, and what the part does not use stands still.   *)
(***************************************************************************)
EXTENDS MCDocExec

CONSTANTS DiffInputs, RulerSources, Configurations, StyleDumps

VARIABLES part, v1, v2, v3, v4, v5, v6, v7, v8, v9, v10

D == INSTANCE DocDiff WITH
        Inputs <- DiffInputs,
        input <- v1, pc <- v2, st <- v3, groups <- v4, ok <- v5
R == INSTANCE Ruler WITH
        Sources <- RulerSources, Aligns <- {5}, Bases <- {0, 8}, Wrap <- 65536,
        Kinds <- {"min", "max", "fixed", "tabs", "sense"},
        lines <- v1, kind <- v2, align <- v3, base <- v4, rc <- v5, indents <- v6, docs <- v7,
        phase <- v8, pass <- v9, first <- v10

Y == INSTANCE Style WITH
        Files <- Configurations, Dumps <- StyleDumps, BadRegex <- "(",
        file <- v1, style <- v2

ASSUME PartsAssumption == R!WrapAssumption

\* The constants' values; those defined with the operators of a component come
\* from an instance of its own, which has none.
DiffData == INSTANCE MCDocDiff WITH
        Inputs <- {},
        input <- v1, pc <- v2, st <- v3, groups <- v4, ok <- v5
LayoutData == INSTANCE MCLayout

AllDocs == FitDocs \cup LineDocs \cup MuteDocs \cup MinDocs
AllInputs == DiffData!AllInputs
AllSources == LayoutData!MCColumns
AllDumps == LayoutData!MCDumps
AllConfigurations == LayoutData!MCConfigurations

own == <<v1, v2, v3, v4, v5, v6, v7, v8, v9, v10>>
all == <<part, vars, own>>
Idle == /\ doc = <<>> /\ pc = 0 /\ st = 0 /\ stack = <<>> /\ forced = {}

Idle6 == v6 = 0 /\ v7 = 0 /\ v8 = 0 /\ v9 = 0 /\ v10 = 0
Idle3 == v3 = 0 /\ v4 = 0 /\ v5 = 0 /\ Idle6

DocumentsInit ==
    \/ part = "exec" /\ Init /\ v1 = 0 /\ v2 = 0 /\ Idle3
    \/ /\ Idle
       /\ \/ part = "diff" /\ D!Init /\ Idle6
          \/ part = "ruler" /\ R!Init
          \/ part = "style" /\ Y!Init /\ Idle3

ExecNext == part = "exec" /\ Next /\ UNCHANGED <<part, own>>
DiffNext == part = "diff" /\ D!Next /\ UNCHANGED <<part, vars, v6, v7, v8, v9, v10>>
RulerNext == part = "ruler" /\ R!Next /\ UNCHANGED <<part, vars>>
StyleNext == part = "style" /\ Y!Next /\ UNCHANGED <<part, vars, v3, v4, v5, v6, v7, v8, v9, v10>>

DocumentsSpec == DocumentsInit /\ [][ExecNext \/ DiffNext \/ RulerNext \/ StyleNext]_all

-----------------------------------------------------------------------------
\* What doc_fits() foresees and what the trials of a minimizer promise is what
\* doc_exec() then prints: a group that fits is on the line and within the
\* limit, and a minimizer prints the trial chosen, no other being better.
Foreseen == part = "exec" => FitsKept /\ BestPrinted

NoMute == \A i \in DOMAIN doc : doc[i].op # "mute"

\* Every text that is not muted is printed once and in order, though trials
\* print it several times and mutes nest; the lines doc_print() makes of
\* pending, optional and verbatim ones are bounded in number, without blanks at
\* their ends, blocks on lines of their own, and the column decisions rest on
\* is that of the text.
LinesSound ==
    part = "exec" =>
        /\ TypeOK /\ TextPrinted
        /\ NoMute => LinesBounded /\ NoTrailingBlanks /\ ColumnExact /\ BlocksAlone

\* Limited to changed lines nothing is lost, written twice or out of order, and
\* doc.c's assertions hold.
DiffWhole ==
    part = "diff" => D!TypeOK /\ D!NothingLost /\ D!NothingTwice /\ D!InOrder /\ D!NeverAsserts

\* What is formatted is in groups a change touches, what changed is formatted
\* as far as chunks do not hide each other, and copied lines stay whole.
DiffLocal ==
    part = "diff" => D!OnlyTouched /\ D!ChunksPrinted /\ D!LinesWholeBetween

\* Variables of a block are aligned in one column, without underflow of the
\* unsigned widths, and a block that is aligned already or was just formatted
\* is left as it is (ruler.c).
RulerAligned ==
    part = "ruler" =>
        R!TypeOK /\ R!NoUnderflow /\ R!OneColumn /\ R!IndentAligns /\ R!Stable /\ R!PreservedAtStops

\* Every option has the value last given to it by a document for C, whatever is
\* not known, nested or for another language around it (style.c).
OptionsApply == part = "style" => Y!OptionsApplied /\ Y!LanguagesApart
=============================================================================
