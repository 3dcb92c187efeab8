# Verification of knfmt

knfmt formats C source code. It reads a file into a list of tokens, parses the
list by recursive descent while emitting a document, and prints the document.
What makes it hard is that the source is *not* preprocessed: `#if`/`#else`
branches are kept, each of them has to be parsed as if it was the only one, and
nothing of the file may be lost or emitted twice on the way.

This directory models that core and the parts around it with TLA+ modules,
checks them with TLC and proves invariants with TLAPS. `PROJECT.json` says for
every definition which lines of the source it stands for.

    tlc -config BranchLinks.cfg BranchLinks       # model-check a module
    tlapm BranchLinks_proofs.tla                  # check the proofs of a module

## The system

knfmt is a single thread; what interleaves is not processes but rewrites of the
same data: the reader, the include passes, the simplifications, `clang_branch()`
and `clang_recover()` all rewrite the token list that the parser is walking, in
an order that depends on the file. Around it there are processes: several knfmt
may edit the same files in place, and other programs edit them meanwhile.

| Part | Files | State | Operations | Hard behaviour | What makes it correct |
|---|---|---|---|---|---|
| Token list | `lexer.c`, `token.c`, `libks/list.h` | `lx_tokens`, prefixes and suffixes of each token, `tk_refs` | insert, remove, move, copy, move prefixes | references counted by hand, links kept by address | every token freed once, no prefix lost |
| Preprocessor branches | `clang.c` | `branch.{parent,pv,nx}`, `TOKEN_FLAG_BRANCH`, `cl->branches` | enter, link, leave, purge, unlink | unlinked in any order; types rewritten in place; flag is a cache | chains well formed, flag exact, parents in the list |
| Traversal and recovery | `clang.c`, `parser.c` | `cl->stamps`, `pr_token.unmute`, documents of the root, cursor | `clang_stamp()`, `clang_branch()`, `clang_recover()` | rewinds, counters that must match, pointers to removed tokens | terminates; every line emitted once |
| Lexer cursor | `lexer.c` | `lx_st`, `lx_peek` | pop, peek, seek, back, peek until | halts at a branch when consuming, jumps over it when peeking | never on a removed token, peeking only goes forward |
| Token reader | `clang.c` | `cl->prefixes`, offset in the buffer | `clang_read()`, prefixes, comments, keywords, aliases | prefixes read ahead of their token | the text of all tokens is the file |
| Document engine | `doc.c` | tree of documents, `doc_state` | `doc_exec()`, `doc_fits()`, trim, minimize | looking ahead with a copy of the state | what fits is what is printed |
| Diff mode | `diff.c`, `doc.c` | chunks, `st_diff` | parse a patch, emit chunks only | groups cut by chunks | lines out of chunks are untouched |
| Parser | `parser-*.c` | none but the cursor | one function per construct | result codes GOOD, FAIL, NONE, BRCH | consumes what it emits |
| Expressions | `expr.c` | current rule and precedence | Pratt parser | precedence, associativity, recovery | tree of the C grammar |
| Simple passes | `simple.c`, `simple-*.c` | state of each pass, moved tokens | enter, leave, rewrite tokens | nesting and mutual exclusion, all or nothing rewrites | no token lost, both braces or none |
| Includes | `cpp-include.c`, `cpp-include-guard.c` | groups of includes, guard | sort, regroup, replace guard | early returns with groups half filled | a permutation of the includes |
| Ruler | `ruler.c` | columns, widths | insert, exec | unsigned subtractions | columns line up |
| Style | `style.c` | table of options, scope | parse `.clang-format` | indentation is not looked at | every option as written, unknown ones skipped |
| Main program | `knfmt.c`, `file.c` | files, temporary file | loop over files, replace in place | rename of a temporary file | file replaced or untouched |
| libks | `libks/` | arenas, vectors, maps, buffers | allocate, grow, free | cleanups, growth at the limits of `size_t` | scopes freed once |

How they interact. `lexer_tokenize()` calls back `clang_read()` for each token,
removes the discarded ones, and calls back `clang_after_tokenize()` which purges
the unbalanced branches. `parser_exec()` then loops: a document is allocated,
`parser_root()` consumes tokens through `lexer_pop()` and emits them through
`parser_doc_token()`. The token in front of which an alternative (`#else`) of a
branch hangs is flagged. `lexer_pop()` halts on it, the parser unwinds with BRCH
and `clang_branch()` removes the alternative already emitted and seeks back to
the last *stamped* token, the end of the last unit that parsed well. The same
tokens are parsed again, now followed by the next alternative; a DOC_MUTE hides
them until `pr_token.unmute` is reached. If a unit does not parse at all,
`clang_recover()` folds one alternative into a verbatim prefix, removes the
documents in question and seeks back too.

## The modules

| Module | Stands for |
|---|---|
| `Conditionals` | abstract specification: the groups of conditional directives of a file, opened and closed like parentheses, from which directives are dropped |
| `CppBranch` | the heap and the pure operators on it: find, link, unlink, revert, move prefixes, remove tokens (`clang.c`, `lexer.c`, `token.c`) |
| `BranchLinks` | the life of the links: `clang_read()` token by token, discarded tokens, `clang_branch_purge()`, then unlinks, drops, moves and removals in any order |
| `ParserLoop` | `parser_exec()`: reading as in `BranchLinks`, then units, halts, stamps, branches, recoveries and the emission, up to `lexer_free()` |
| `ClangFormat` | `ParserLoop` with prefixes that are clang-format off and on comments: regions are muted, replayed, and forgotten by `parser_reset()` |
| `Semi` | `parser_semi()` and the semicolons behind declarations, with the comments that hang off them |
| `DocExec` | `doc_exec()` and `doc_fits()`, one document after the other: groups, lines, indentation, alignment, muting, minimizers, new lines and trimming |
| `DiffChunks` | `diff_parse()`: chunks of changed lines, line by line of a unified diff |
| `DocDiff` | the document engine in diff mode: groups touched by a chunk are printed, lines in between are copied |
| `Ruler` | `ruler.c` and the alignment of declarations it makes the document engine print |
| `Expr` | `expr.c`: the operator precedence parser, the printing of its trees and the parentheses removed in simple mode |
| `Stmt` | statements of `parser-stmt.c` with the braces, `break` and `continue` of simple mode |
| `SimpleDecl` | declarations of variables grouped, sorted and moved by `simple-decl.c` |
| `SimpleDeclForward` | forward declarations sorted by `simple-decl-forward.c` |
| `Prototype` | types of arguments (`parser-type.c`), the walk over them and the names removed by `simple-decl-proto.c` |
| `Simple`, `SimplePasses` | the states of the passes of simple mode, and every way the parser nests them |
| `CppInclude` | includes sorted and regrouped while the prefixes of a token are read |
| `CppIncludeGuard` | include guards sensed, added and replaced |
| `Style` | the parser of `.clang-format` |
| `Knfmt` | the main program: files read, printed, compared and replaced in place, by processes that fail or are killed while somebody edits |
| `Arena` | frames, scopes and cleanups of the arena allocator |
| `Buffer` | growing buffers: appended to, read into from a file, taken apart into lines |
| `HashMap`, `Dictionary` | the map, and the dictionary in order of insertion that it implements |
| `Documents` | `DocExec`, `DocDiff`, `Ruler` and `Style` for TLC: from what fills a document to what is printed, and the configuration it follows |
| `Passes` | the passes over tokens, includes and guards for TLC |
| `Program` | `Knfmt`, `DiffChunks`, `SimplePasses`, `Arena`, `Buffer` and `HashMap` for TLC: what is around the formatting |
| `MC*` | the data of these instances for TLC (`MCTokens` that of four passes, `MCLayout` that of `Ruler` and `Style`); `MCParserLoop` also has the statements of the documentation that `ParserLoop` does not satisfy |
| `BranchLinks_proofs` | theorems about `BranchLinks`: types, chains, parents, references, flags, that it implements `Conditionals`, and that groups nest |
| `ParserLoop_proofs` | theorems about `ParserLoop`: all of that through the loop, the cursor, what rewinds consume, peeking, freeing, and that everything is emitted |
| `Knfmt_proofs`, `SimplePasses_proofs`, `DiffChunks_proofs`, `Arena_proofs` | theorems about the module named |
| `Containers_proofs` | theorems about `HashMap`, with its refinement of `Dictionary`, and `Buffer` |
| `Program_proofs` | what these five prove holds in the behaviours of `Program` |

What composes what. `BranchLinks` and `ParserLoop` extend `CppBranch`;
`ParserLoop` reads the file by the actions of `BranchLinks`; `ClangFormat`
extends `ParserLoop`. `BranchLinks` implements `Conditionals` and `HashMap`
implements `Dictionary` by refinement mappings. `SimplePasses` extends the
operators of `Simple`. The others meet through what they promise: the passes are
given and leave sequences of tokens, `DocDiff` is given the chunks that
`DiffChunks` reads, `Knfmt` takes formatting to be a function of the text.

`Documents`, `Passes` and `Program` are unions. Their parts share no state in the
program (a pass has ended when another one starts, an arena knows nothing of the
files), so a behaviour is one of a single part. `part` tells which; the parts
are instances over the common variables `v1`, `v2`, ..., and the modules extended
(`HashMap` and `Buffer` in `Program`) keep their own, so that their assumptions are
evaluated. A property of a union says
of each of its parts what the conjuncts, defined in the module of the part,
state. `Program` holds the parts without recursive operators, which
`Program_proofs` can prove about.

### Branches and the loop

State and code. A file is a sequence of positions `1..MaxLen`; a position is a
token or a prefix and its number stands for its place in the file (`tk_off`,
`tk_lno`). The heap `h` is one record with a field per field of the structures:
`kind` is `tk_type` normalised, `pv`, `nx` and `par` are `branch.pv`,
`branch.nx` and `branch.parent`, `pfx` is `tk_prefixes`, `flag` is
TOKEN_FLAG_BRANCH, `refs` is `tk_refs` and `toks` is `lx_tokens`. `Null` is the
null pointer. A prefix made by `clang_branch_fold()` out of the text starting at
position *p* gets the number `MaxLen + p`.

An action is a whole handler. Reading is split as the code is: `ReadPrefix` is
an iteration of the first loop of `clang_read()`, `ReadToken` the rest up to the
links, `BranchEnter`, `BranchLink`, `BranchLeave` and `SkipPrefix` an iteration
of its last loop. In `ParserLoop`, `EnterUnit` is the head of the loop of
`parser_exec()`, including the failed `lexer_if(LEXER_EOF)`; `Consume` is
`lexer_pop()` and `parser_doc_token()` of one token; `Halt` a `lexer_pop()` that
refuses; `Good`, `Branch`, `Recover` and `Fail` what `parser_exec()` does with
the result of `parser_root()`; `Free` is `lexer_free()` with
`clang_before_free()`.

Abstractions.

* The grammar is a choice: after any token consumed a unit may end well, go on
  or be invalid. This includes whatever a grammar does as long as it emits each
  token it consumes, in order. A unit that ends well has consumed something. A
  unit does not consume the end of the file.
* Emission keeps the order and the muting of `doc_exec()`; the layout is left
  out. An item of a document is a range of positions, so that a folded prefix
  emits all it covers.
* `token_branch_revert()` of a whole chain is one step; the flags it recomputes
  on the way are those it ends with, as chains are reverted from their last
  branch to their first.
* In `BranchLinks` tokens may be discarded in any order, `lexer_tokenize()`
  removes them from last to first; and any token may be removed, any prefix
  unlinked, dropped (once it is no branch) or moved, by whoever does so:
  `clang_branch()`, the simplifications, the include guards.
* In `ParserLoop` no token is discarded and simplifications and include guards
  are off, as they are by default.

History variables, read by properties only: `shared` (two alternatives start at
the same token), `branched` and `recovered` (how often, up to 2).

### The other modules

Most of the others are transformations: a source from a set of small ones, steps
that follow the walk of the code over its tokens, and properties that compare
what comes out with the source or with a definition of what it means that does
not follow the code. `Stmt` and `Expr` read both sides by the grammar of C,
`DocDiff` compares lines, `Style` compares options with the entries of the file.
Passes that rewrite tokens run twice (`Stable`), as formatting a file twice has to
change nothing the second time.

* `DocExec` and `DocDiff`: a document is a sequence of nodes in the order they
  are met, an inner one closed by a node of its own, and the stack holds the
  local variables of the C functions.
* `Stmt`: layout is the number of lines of a statement.
* `Expr`: layout is left out but for what `peek_binary_operator()` looks at. An
  operator with blanks on both sides is a token of its own (`Spaced`), wherever
  it stands behind a `)` a source is written with and without (`Layouts`), and
  formatting writes blanks where `expr_doc_has_spaces()` does. An operator with a
  blank on one side counts as one without. A name in parentheses is a type "T" or
  a variable "V", which the code cannot tell apart and C can. An expression ends
  at a semicolon, or at a parenthesis that was opened before it.
* `SimpleDecl`: formatting twice may move declarations around once more; that
  the same variables are declared together is what is stable.
* `SimpleDeclForward`: prototypes, macros and other declarations do not end a
  group in the code; extra semicolons are left out and the order that `qsort()`
  gives to equal names is open.
* `ClangFormat`: comments behind a token on its line are suffixes, which the code
  does not look at.
* `Ruler`: one column; two columns are aligned apart from each other.
* `Style`: the input is tokens; a style it is based on takes effect where it is
  named, so the files have it where clang-format would put it or alone.
* `Knfmt`: a file is an inode with a text and a flag that tells whether all of
  it has been written. `mkstemp()` draws new names, and power is not lost:
  there is no `fsync()` in the code and what a crash of the system leaves is not
  modelled. An edit between reading and renaming is lost by design.
* `Arena`: sizes are words, an object is a range of a frame. `GrowOuter` lets an
  object of an outer scope grow while a nested one is alive, which the code does
  not refuse.

## What the runs check

| Run | Question | Bound | Result |
|---|---|---|---|
| `branch_links` | are chains, parents, flags and references right after any sequence of operations, and do the links implement `Conditionals`? | 6 positions | holds |
| `parser_loop` | does the loop terminate, and is nothing lost? | 8 positions | holds |
| `clang_format` | are regions replayed as they were, and is nothing else lost? | 7 positions | holds |
| `documents` | is what is foreseen printed, are lines sound; is everything there when limited to changed lines; do columns line up; has every option its value? | groups of up to three fragments out of twelve, limit 8; three statements of nine shapes with every set of changed lines; 2 and 3 declarations; 2 documents of 2 entries | holds |
| `passes` | do statements, declarations, prototypes and expressions keep their meaning; are includes a sorted permutation within their block, are guards closed? | two nested statements; 3 declarations of 2 types; 5 things of a file; 3 arguments; 3 operators; 4 semicolons; 4 and 5 prefixes | holds |
| `program` | is a file ever half written, a temporary one left; are the chunks of a diff the lines added; are passes nested as they may; are objects apart, are buffers and maps what they should be? | 1 process, 2 files and all modes, or 2 processes in place at one file; 9 lines of diff for 5 of a file; 4 nested functions; 4 objects, 2 scopes; a text of 12, sizes up to 40; 4 keys, 5 insertions | holds |
| `branched_output` | is all of a valid file emitted? | 9 positions | violated |
| `recovered_output` | is all of a file emitted after recoveries alone? | 8 positions | violated |
| `mixed_output` | the same for one recovery among branches | 8 positions | violated |
| `peek_takes_branch` | does peeking keep out of alternatives not taken? | 8 positions | violated |
| `diff_lost` | is no line lost when a chunk begins in an alternative? | three statements with directives within | violated |
| `expr_casts` | is no operator lost, whatever the blanks around it? | 2 operators | violated |

The properties of branches and the loop:

* `LinksHold` is `ChainsWellFormed`, `ParentsHold` and `FlagsExact` in
  `ParserLoop`.
* `ChainsWellFormed`: `pv` and `nx` are inverse and in file order, a chain is
  one `#if`, any number of `#else`, one `#endif`, and once the file is read
  every branch is in a complete one. `clang_token_branch_unlink()` follows these
  links without looking.
* `ParentsHold`: `branch.parent` is in the list and has the branch as a prefix.
* `FlagsExact`: TOKEN_FLAG_BRANCH tells exactly where `token_branch_find()`
  succeeds.
* `RefsExact`, `Freed`: each token is referenced by the list, its branches and
  the stamps, and `lexer_free()` finds one reference left.
* `NoCrossing`, `ImplementsConditionals`: groups nest, each `#else` and `#endif`
  is linked to the innermost open group, and unlinking takes a branch out of its
  own group only.
* `OutputComplete`: every line is emitted once and in order although tokens are
  emitted again, muted and removed.
* `UnmuteAhead`: the raw pointer `pr_token.unmute` is a token that is still to
  come.
* `CursorInList`: the cursor and the stamps used to seek are not removed tokens.
* `PeekForward`: jumping over a branch while peeking goes forward.
* `RewindsConsumeBranches`, `Terminates`: each rewind removes a branch for good,
  and the loop ends.

The properties of `ClangFormat` and of the unions are conjunctions:

* `RegionsKept`: `OpenedByOff`, `RegionComplete` and `RegionVerbatim`. A region is
  replayed once, outside of regions every line is emitted as formatted, and the
  counter of mutes ends at zero.
* `Foreseen`: what `doc_fits()` found by looking ahead with a copy of the state
  is what `doc_exec()` does later (`FitsKept`), and the last execution of a
  minimizer prints what the trial of its best entry did (`BestPrinted`).
* `LinesSound`: every text that is not muted is printed once, though trials
  print it several times and mutes nest; no more new lines in a row than there
  should be, no blanks at the end of a line, and the column is that of the text.
* `DiffWhole`, `DiffLocal`: printing and copying meet at every chunk without a
  gap or an overlap (`NothingLost`, `NothingTwice`, `InOrder`), only groups a
  change touches are formatted, and the assertions of `doc.c` hold.
* `ChunksExact`: chunks opened and closed by single lines are exactly the lines
  added, at the ends of hunks and of the diff as well.
* `RulerAligned`: no width subtracted is larger than what it is subtracted from,
  variables end up in one column, and those that are aligned stay.
* `PassesGated`: passes are left in the state they were entered in however they
  nest, none of those that go with no other is enabled with another, and peeking
  enables none.
* `StatementsKept`, `ExpressionsKept`: what simple mode removes or inserts does
  not change what C reads; operators nest as in C. Of expressions this is said
  when their blanks tell casts from operators (`WellWritten`, kept in `clear`).
* `DeclarationsKept`, `ForwardsKept`, `PrototypesKept`: every variable keeps its
  type, every declaration stays in front of what uses it and on its side of
  directives, and of a prototype only names are removed, all or none.
* `SemicolonsKept`, `IncludesKept`, `GuardsAround`: nothing but what is meant to
  go goes, comments and references included, and blocks stay in place.
* `FormattedOnce`, and `Stable` and `Settles` within the others: formatting
  again changes nothing.
* `OptionsApply`: every option has the value last given to it by a document for
  C, whatever is not known, nested or for another language around it.
* `FilesIntact`: under the name of a file there is, at any time and wherever a
  process fails or is killed, a text that is whole and has the permissions of
  the user (`Intact`). Temporary files are those in use or of a process that was
  killed (`NoLitter`). `FilesReplaced`: only formatted text of a process editing
  in place gets there, and a process comes to its end.
* `ArenaSound`, `ArenaGivesBack`: nested scopes, growth in place and callbacks
  that run while a scope is left; what was taken in a scope is given back, and
  in the end every frame.
* `ContainersExact`, `ImplementsDictionary`, `LoopsEnd`: elements removed during
  a walk, chains moved by an expansion, allocations that fail in between, a file
  that grows while it is read.

The bounds. Each bound is a constant named in its module and given in the
cfg. In the branches, with 6 positions there are two nested or consecutive
groups and a directive more, or a group of four, hanging of the same or of different
tokens, unbalanced in every way, and the operations that follow come in every order;
the properties of this run are proved for files of any length. The loop needs
8 positions to get two rewinds with a stamp between them; 9 for nested
alternatives at the same token followed by another token. `Many` (2) bounds the
history counters: properties tell none, one and more.
The passes need two things to move across each other and one in between, twice,
so three to five; the parser of expressions three operators for a nest of two
precedences in a third; `HashMap` five insertions for an expansion, one that does
not help and one forbidden; `Arena` four objects for two frames and a nested
scope in each; `DiffChunks` nine lines for two hunks in two files; `Buffer` sizes
up to 40 so that doubling meets the largest size; `SimplePasses` a depth of four
for a pass that is ignored under an excluded one. `SIMPLE_STMT_MAX`
is 8, which no source of two nested statements meets.
`Knfmt` has two processes at the file that both replace, which is where they
meet; a second file and the modes that replace nothing only need one process.

Fairness. `ParserLoop` assumes that a step is taken as long as there is one: a
single thread that waits for nothing and is not stopped. `Fairness` is weak
fairness of `LoopNext` written out, its second disjunct saying that steps are
taken again and again. Every other state having a step, a loop that went on for
ever would satisfy it: `Terminates` holds because each rewind consumes a branch.
`BranchLinks` has no liveness and may stop (its cfg says `CHECK_DEADLOCK FALSE`):
it describes what may be done to the links, not when a caller is done.
`ParserLoop` has no deadlock other than its end, where it stutters.
`Program` has weak fairness of the parts that have to end. A process of `Knfmt`
is scheduled and its system calls return; killing it is not fair, and with two
processes nothing is claimed to end. Scopes of an `Arena` are left by the
compiler's cleanup attribute when a function returns, and it is freed by its
owner. Walks of a `HashMap`, reading into a `Buffer` and getting lines of it are
loops of their callers, which do nothing but go on.
In the runs of transformations a source is done when it is done and deadlock is
not checked.

## Where the code departs from its documentation

Six are runs, found by TLC at every check and listed under "findings". For the
others the definition that states the claim of the documentation is kept in the
module named, next to the weaker one that does hold and is checked; each was
found by TLC as a violation of that definition over the sources in question and
reproduced with the program, but for that of `Arena`, which is about what
callers of the allocator may do.

The runs:

* `branched_output`. Two alternatives starting at the same token, as in an
  `#else` of an inner and of an outer group in a row, mute the output twice and
  unmute it once. The output of a valid file is cut, with exit status 0.
  `DESIGN` says that emission goes on once the branch has been crossed.
* `recovered_output`, `mixed_output`. `clang_recover()` returns the number of
  documents "that must be removed since we're about to parse them again". It
  counts stamps. The stamps of documents removed before still count, the
  threshold of the search for a branch is missed when the search starts at it,
  and a document whose unit ended in a branch has no stamp. Source is lost, with
  exit status 0.
* `peek_takes_branch`. "While peeking, act as taking the current branch": if the
  `#endif` of one branch and the `#else` of another hang of the same token, the
  tokens peeked are those of the alternative not taken.
* `diff_lost`. An alternative with the chunk beginning at its `#else` makes the
  first alternative disappear.
* `expr_casts`. "Do not confuse binary operators and casts": the variable of
  `(a)==b`, without blanks, is taken for a type. The operand of the cast begins
  with an operator that is no unary one, which `expr_recover()` consumes; it is
  missing from the output, `(a) b`, with exit status 0 and not in simple mode only.

The definitions:

* `ClangFormat`: `BranchedRegions`, `RecoveredRegions`, `InlineRegions`. A branch
  in a region that began behind the last stamp makes `parser_reset()` forget the
  region, whose mute stays: the rest of the file is lost. A region in front of
  what is parsed again is emitted twice, and so is an off comment with code on
  its line (with the mark "off inline", which the run leaves out).
* `Semi`: `OnlySemicolons`. Of several semicolons on a line the first is popped
  and the last emitted: comments of the first are lost.
* `DiffChunks`: `ChangesCovered`. The line about a missing new line counts as a
  line of the file.
* `DocDiff`: `ChangedPrinted`, `LinesWhole`. A second chunk in the group a first
  one reaches into is not formatted; a directive behind a changed line loses its
  new line.
* `Ruler`: `Preserved`. Spaces behind tabs move aligned variables one tab
  further.
* `Expr`: `TokensKept`, `MeaningKept`. `- -a` becomes `--a`; simple mode takes
  parentheses off `(&s)->b` and `f((a, b))`; an incomplete ternary in
  parentheses disappears. What blanks do not tell apart is read the wrong way:
  the cast of `(int) * p` is taken for a variable, and simple mode leaves
  `int * p`; the variable of `(f)()` or `(f)(1)` for a type, and simple mode
  leaves `(f)` and `(f)1`. Without the parentheses around it, the variable of
  `((a))*b` is one that is read as a type the next time.
* `Stmt`: `MeaningKept`, `StaysWellFormed`, `LoopsHaveBodies`. A break is inserted
  in front of what follows an empty default; a block of one declaration loses its
  braces; the inner of nested empty loops keeps its semicolon. With
  `SIMPLE_STMT_MAX` at 2, `BracesUniform` fails too: long chains get braces in
  part.
* `SimpleDecl`: `UsesDeclared`, `StaysWellFormed`. A variable is moved behind an
  initializer that uses it; a comma with a comment stays behind.
* `SimpleDeclForward`: `UncoveredStay`. Forward declarations out of the diff are
  crossed.
* `Prototype`: `AllNamedKept`, `NoNewMix`, `StillParses`, and `OnlyNames` with a
  factor in the size of an array. The ellipsis and the arguments of pointers to
  functions count as arguments without a name; a factor is taken for a name; what
  is left may not be recognized as a type.
* `SimplePasses`: `PairsAllowed`, `IgnoredWithin`. One allowed pass among those
  entered is enough to enable another; a pass to be ignored with what is nested
  is enabled there.
* `Style`: `OptionsBehindMaps`. A sequence of mappings, like `RawStringFormats` in
  what clang-format dumps for Google, ends the parsing of `.clang-format`.
* `Arena`: `NestedKeeps` with `GrowOuter`. Growing in place skips the check that
  refuses allocations in an outer scope while a nested one is alive; leaving that
  one cuts the object off.

The passing runs state what is left when these cases are taken out, by exceptions
in the properties or sources without them. `OutputComplete`, for one, is about
valid files with at most one alternative starting at each token, and files with one recovery and no branch.

## What is proved

TLC checks small instances; these theorems hold for files, diffs, calls,
directories, maps and buffers of any size. `Spec` is that of the module the proofs are about.

| Module | Theorem | States | Assumes |
|---|---|---|---|
| `BranchLinks_proofs` | `TypeCorrect` | `Spec => []TypeOK` | `MaxLen` a natural number |
| | `ChainsAlwaysWellFormed` | `Spec => []ChainsWellFormed` | |
| | `ParentsAlwaysHold` | `Spec => []ParentsHold` | |
| | `RefsAlwaysExact` | `Spec => []RefsExact` | |
| | `FlagsAlwaysExact` | `Spec => []FlagsExact` | |
| | `LinksImplementGroups` | `Spec => ImplementsConditionals`, the refinement | |
| | `GroupsNeverCross` | `Spec => []NoCrossing` | |
| `ParserLoop_proofs` | `LinksAlwaysHold` | `LoopSpec => []LinksHold` | as above, and `PrefixKinds` kinds of prefixes |
| | `CursorAlwaysInList` | `LoopSpec => []CursorInList` | |
| | `PeeksAlwaysForward` | `LoopSpec => []PeekForward` | |
| | `UnmuteAlwaysAhead` | `LoopSpec => []UnmuteAhead` | |
| | `OutputAlwaysComplete` | `LoopSpec => []OutputComplete` | |
| | `AlwaysFreed` | `LoopSpec => []Freed` | |
| | `RewindsAlwaysConsume` | `LoopSpec => RewindsConsumeBranches` | |
| `Knfmt_proofs` | `FilesAlwaysIntact` | `Spec => []FilesIntact` | `KnfmtAssumption`: finitely many files, arguments that name them |
| | `OnlyReplaced` | `Spec => [][Replaces]_vars` | |
| `SimplePasses_proofs` | `PassesAlwaysGated` | `Spec => []PassesGated` | a depth that is a natural number |
| `DiffChunks_proofs` | `ChunksAlwaysExact` | `Spec => []ChunksExact` | `DiffAssumption`: a largest line above zero |
| `Arena_proofs` | `AlwaysSound` | `Spec => []ArenaSound` | `ArenaAssumption`, and `GrowOuter = FALSE` |
| | `AlwaysRestores` | `Spec => [][Restores]_vars` | the same |
| `Containers_proofs` | `MapKept` | `Spec => [](TypeOK /\ ListExact /\ FindExact)` of `HashMap` | `HashAssumption`: a number for each key, at least one bucket and one element for each |
| | `MapIsDictionary` | `Spec => ImplementsDictionary`, the refinement | the same |
| | `BufferKept` | `BufferSpec => []` of all six invariants of `Buffer` | `BufferAssumption`: sizes up to a largest one, two characters that end strings and lines |
| `Program_proofs` | `FilesAlwaysIntact`, `PassesAlwaysGated`, `ChunksAlwaysExact`, `ArenaAlwaysSound`, `ContainersAlwaysExact` | the invariants of `program` of the same name | those of the parts, which `Program` shows to hold of its values |
| | `FilesOnlyReplaced`, `ArenaAlwaysRestores` | the action properties in `FilesReplaced` and `ArenaGivesBack` | the same |
| | `MapAlwaysDictionary` | `ImplementsDictionary` | the same |

`GrowOuter = FALSE` excludes the one thing callers of the arena must not do, see
above; no caller in `src/` does.

TLC checked the inductive invariants, as far as it can evaluate them, before
they were proved.

### Chains and parents

None of `ChainsWellFormed` and `ParentsHold` is inductive. That an `#else` may
be linked to the top of the stack needs the stack to hold the last branch of each
open chain, and that purging leaves complete chains needs it to hold *all* of
them (`StackOK`). That the reader links to a token in the list needs the prefixes
below `lk` to be the ones linked so far and those from `lk` on to hang of the
last token (`ReadOK`). That `lexer_remove()` has somewhere to move the prefixes
to, and removes the right element, needs the list to be without duplicates and to
end with the end of file (`ListOK`). `IInv` is the conjunction.

Lemmas first tell of each operator of `CppBranch` what it changes and that it
keeps the type of the heap (`SetParentLemma`, `ExhaustLemma`, `RevertAllLemma`,
`MovePrefixesLemma`, `LexerRemoveLemma`). Cutting a set of prefixes that is
closed under `pv` and `nx` leaves chains in shape (`CutWholeChains`): this covers
unlinking an `#if`/`#endif` pair, orphans and the purge. For the purge, the set
of branches reachable along `pv` from the stack is closed under `nx` too
(`PurgeStep`). The other cases of unlink rewrite one neighbour or two
(`UnlinkIfLemma`, `UnlinkElseLemma`, `UnlinkEndifLemma`). Then one lemma per
action, `NextInv`, and the theorems.

### References and flags

References are counted by hand, with every change of `branch.parent`. What is
invariant is that `tk_refs` less the number of branches held by a token is one in
the list and zero out of it (`Held`, `RefsExactIn`). That moving prefixes leaves
no reference behind needs a prefix to hang of one token only, and that token to
be in the list (`PrefixesOK`). The flag is what `token_branch_find()` would
answer (`Settled`), but not while a file is read: the flags are set when a chain
is closed, so those of the branches reachable from the stack are excepted
(`FlagsBut(h, Open)`), and nothing is open behind the purge. `RInv` adds these to
`IInv`.

### Groups

A group of `Conditionals` is the set of branches reached along `pv` from an
`#endif` in a token's chain, an open one that reached from an entry of the stack.
The lemmas on walks say that a walk depends on the links of its members only, so
that an action that changes no link within a walk keeps the group. Unlinking
changes one chain (`OneChainChanged`) and takes one branch from it (`Dropped`):
the end of the chain is another branch when an `#endif` goes. That each branch
that hangs in a chain is on the walk from an `#endif` (`ChainEnds`) follows by
well-founded induction on the position, the chain being finite and in order.
`InitGroups` and `NextGroups` are the refinement: every step of `BranchLinks` is
an `If`, `Else`, `Endif`, `Drop` or `Abandon`, or changes no group.

That groups nest is about sets of positions only (`Nested`: directives of an open
group precede those of the groups opened within it, and none lies inside of a
complete group). The lemmas `IfNests`, `ElseNests`, `EndifNests` and `DropNests`
have no variables, `GroupsStayNested` applies them to the steps of the abstract
specification, and the refinement says that there are no others.

### The loop

The steps of `ParserLoop` fold operators over sequences: `clang_branch()` removes
a range of tokens, `clang_branch_fold()` unlinks a sequence of prefixes,
`lexer_free()` unlinks all of them and releases all stamps. Lemmas `FoldUnlink`,
`FoldRemove`, `FoldFree` and `FoldRele` tell a fold over a sequence as the last of
the heaps it goes through, and `UpTo` is the induction along these: `UnlinkAll`,
`RemoveAll`, `UnlinkEverything` and `ReleaseAll` are what is left of each loop.

Two things are needed of the heap beyond `RInv` (`Parsed`): tokens and prefixes are
still in the order of the file, a prefix lying between the token before and
its own (`InOrder`), and a prefix that was folded is gone, so that the number of
what replaces it is not taken (`Fresh`). The first makes `src` precede `dst`, hence
what is removed a range that leaves the end of file (`LinkForward`,
`RemoveBetween`), and is why peeking goes forward: the `#endif` of a chain comes
behind its other branches, so its token is not before theirs. References are those of
branches and of the list, and one more for each stamp (`HeldBy`). `Folded` is what
`clang_branch()` (`BranchStep`) and `clang_recover()` (`FoldStep`) have in common:
the heap stays `Parsed`, the tokens of an alternative are gone with the references
to them, its branch is unlinked and no other one linked. `RecoverFound` is that the
branch found by `clang_recover_find_branch()` does span two tokens. `LInv` puts
this together: `RInv` and the order of the file (`FileOrder`) while reading, then
`Parsed` and `HeldBy`, and `FreedHeap` in the end.

That the token to unmute at is met (`UnmuteAhead`) is about where the lexer halts.
No token it halts at is behind the cursor, and all stamps still in the list are
before all of these (`Ahead`); alternatives are taken there only, so what is chosen
to unmute at is no nearer, and rewinding keeps it ahead. This needs the lexer to
halt nowhere new. Unlinking, removing and folding leave a subset of the flags
(`UnlinkFlags`), except that `dst`, which gets the prefixes of what is removed,
halts if `src` did (`MovedFlags`, `Folded`). That holds because the branch an
alternative comes from moves with it when both hang of one token: the prefixes
of a token are in the order of their text (`Placed`, `InTurn`).

### The output

`OutputComplete` is about the end of a file, and nothing of it is inductive. What
is, in `OInv`, relates three things throughout the loop. `Tiled` is about the list:
the text of each token starts right behind the token before (`Follows`), and its
prefixes and the token itself cover it without gap (`Covered`). Reading makes the
file so (`ReadTiled`, `WaitingCovered`), and what starts where is why the token
that comes next begins at the line behind the cursor (`NextOfFacts`). `Emitted(m, n)`
is about the documents: `doc_exec()` of all of them prints the first *n* lines and
leaves *m* mutes. `Goal` is about the parser: the token to unmute at, or else the
one to be parsed next, the lexer halting in front of it or not.

On valid source (`ValidSource`) the documents have emitted all up to where `Goal`
starts, and are muted as long as a token to unmute at is ahead or the lexer halts
at `Goal`. A token consumed in front of it adds nothing (`TokenHidden`), one consumed
at it unmutes and adds its lines (`TokenShown`), and both follow from what a fold
does of a concatenation (`FoldsConcat`, `DocTokenItems`). `clang_branch()` removes
tokens in front of the one it unmutes at, so what is emitted from there on is as
before (`BranchTaken`, `TakenTiled`), given that the one alternative that starts at
each token leaves `dst` without flag (`Single`). This is where the condition on
alternatives is needed: with two at a token the flag stays, the document is muted
once more, and the run `branched_output` shows what is lost.

`clang_recover()` removes documents by counting stamps, so it needs what the
documents up to each stamp have emitted. While no branch was taken nor anything
folded (`Untouched`), stamps and documents go together, and those up to a stamp
emit the file up to that token. What is kept ends at the last stamp in front of
the folded alternative, the same to which the lexer rewinds (`RecoverDocuments`),
and the new prefix covers the lines of what it replaces, with the prefixes kept in
front of it (`RefoldedText`, `FoldTiled`). From there on `FoldedOnce` holds up to the
token to be parsed next, muted or not: `unmute` was set to a token which the
documents may have no mute for, and `DOC_MUTE` does nothing below zero. That
`FoldedOnce` says nothing of a second recovery or of a branch taken later is the
condition of `OutputComplete` again, and `recovered_output` and `mixed_output` show
that these lose text.

### Files

`IInv` of `Knfmt_proofs` says of each step of a process what it knows
(`ProcOK`): which descriptors are open (`FdsOK`), that the temporary file is its
own and how much of it has been written (`FileOK`), that a success recorded so
far means formatted files (`SuccessOK`). `DiskOK` says that files named in
arguments are whole. The processes interfere through the disk only:
`DiskStep` is what any other process or editor may do to it while a process
holds on to its temporary file, and `ProcOK` is stable under it. That rename
never takes a file half written follows from `Apart`: no two processes share a
temporary file.

### Passes

That a pass granted is not granted again before it is left is not a fact about
`ps`: entering it again may disable it, and its entry does not tell that it is in
use. The invariant is about the past: `History` says that there is an assignment
of states to every depth of the stack such that each call made one step
(`Moves`), the last being the present, and `CallsOK` orders the calls by who
made whom. `Shut` is the set argument: a pass that would let another be granted
is kept out of the set of passes that are awake from the moment the other is
entered.

### Chunks of a diff

`Steady` says that reader and writer count the same: within a hunk
the last line is `lno + due - 1` and the line read is the next one of the file,
one more behind a line "\ No newline at end of file" (`Inside`); out of one,
nothing is due (`Outside`). With `Ordered` and `Exact` it says that the chunks of
each file are in order and are those of the lines added so far, the open one
reaching up to the line read last. A hunk that ends with the largest line number
is never left, as the counter wraps around (`Stuck`): what follows is read as rows
of it, and the diff ends in an error. `Matched` and `Closed` are the lemmas on
`matchline()` and `diff_end()`.

### Arena

`Layout` is about memory: objects lie in frames that exist, in front of their
length, and apart from each other (`Covers`, `Apart`). `Nested` is about time:
when a scope is left, what is cut back is exactly what was made since it was
entered, that is, the frames and lengths noted on entry are a prefix of the
present ones (`Kept`) and hold no object of an inner scope. Cleanups run down the
list of the scope that is left and `RanBelow` and `CleanupsOnce` say which have run.
Well-founded induction proves that frames are freed until the one noted is met.

### The map

`MapInv` says that there is a sequence of elements that `prev`, `next`, `head` and
`tail` link both ways, no two with the same key (`Listed`); that a table of *n*
buckets holds each of them once, in the bucket that its hash tells (`Table`); and
that the iterator remembers the successor of the element just met as long as that
one is there (`WalkOK`). `ListExact` and `FindExact` are not inductive: they
follow a list from its head, and a deletion in the middle cuts that walk. That two
elements never share a key, which is up to the callers, makes the first match
in a chain the only one, and so `MAP_REMOVE()` remove the element it means.

`FilledPut` is one element put in front of a chain, which insertion and each of
the moves of `HASH_EXPAND_BUCKETS()` have in common; with `UpTo`, the induction
along the elements moved (`MovedAll`), all are in the new table, whether or not
expanding helped (`ExpandedTable`).
The walk of the properties, `From`, is shown to be a tail of the sequence, so that
order and walk of the dictionary are the keys of the sequence and of its tail.
Then each step is one of the dictionary. A removal during a walk takes a key that
is not ahead, as the iterator has moved past it.

### The buffer

`BufferInv` has four parts. `Stored`: memory of at most `UMax` cells whose first
`len` are the text. Its other cells may hold anything, so that the writing of the
end of a string behind the content has to be shown to leave it alone. `Flags` are
the types. `FileRead` ties content, position and size to the file: why `read()`
returning nothing means the end of the file is that there is room left whenever
more is reserved after each read, and that a buffer of the size of the file is full
at its end. The conjunct that the buffer has at least 8 characters is needed for
that: an eighth of less would be nothing. `LinesGot` says that the lines so far,
each with its end, are the text up to the offset. `Doubles` and `DoubledIs` are
about the sizes on the way to one that is enough: it fits the integers, or there
was an overflow and nothing was written.

### Unions

The behaviours of `Program` are those of one part. Each lemma `...Same` and
`...Next` shows that the operators of the part are those its proofs are about,
`...Step` that the part's inductive invariant is kept by every step of `Program`.

### Model-checked only

* Liveness (`Terminates`, `LoopsEnd`, the ends of `FilesReplaced` and
  `ArenaGivesBack`): out of reach of the prover.
* What recursive operators compute, for every input: needs induction over data.
  `Expr`, `Stmt`, `Style`, `Ruler`, `SimpleDecl`, `SimpleDeclForward`,
  `Prototype` and `CppInclude` declare them, and the runs `documents` and
  `passes` reach them. `DocExec` and `Semi` fold over sequences in ways the
  induction of `ParserLoop_proofs` would have to be repeated for.
* `RegionsKept` of `ClangFormat`. It is about output of a second kind, with the
  lines of regions printed as they are and the documents in between muted by a
  counter of its own. `OInv` would have to be restated for these items, with the
  region that a token is in as a part of `Goal`; TLC covers it for its bounds.

## Plan

Done: the model of branches, traversal and recovery; regions and semicolons; the
passes of simple mode; documents, diffs and the ruler; expressions; includes;
options; the main program; arenas, buffers and maps. Proved: the links of
branches with their refinement, the loop over them, files, passes, chunks, arenas,
maps with their refinement, buffers.

Worth proving next: `RegionsKept` of `ClangFormat`, on top of what
`ParserLoop_proofs` has.

## Not modelled

* The grammar of C beyond the parts named above: attributes, brace initializers,
  asm, extern, K&R functions and macros that look like declarations or
  statements. To the loop they are a choice; what they add is layout.
* The reading of characters: keywords, literals, aliases and the text of
  directives. These are tables and scanners without state of their own.
* The layout of `cpp-format.c`, which reflows the text of one directive, and the
  trimming of comments.
* The passes of simple mode that add or move a keyword or rename a function of
  one construct.
* Options, traces, the search for `.clang-format`, and of the options all that
  differ by name only.
* `libks`: strings, arithmetic, SIMD and wrappers of system calls.
* `doc_width()`, `doc_max()` and functions that only build documents.

`PROJECT.json` lists every part with the reason.
