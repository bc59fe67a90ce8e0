# A TLA+ verification project for yanger

yanger is an extensible YANG validator and converter: an Erlang program (`src/src/*.erl`) with a parser and
statement-grammar engine in Rust (`src/c_src/rust_atom`), called through a NIF. One run reads the files of the
command line and everything they import and include, validates them, and prints them in some format. It is a
sequential program - one Erlang process walks recursive functions over a context record `#yctx{}` that is passed
and returned - so its hard behaviours are not interleavings of processes but

- **recursion that meets itself**: modules that import each other, definitions and groupings that refer to each
  other in a circle; each is told from a finished one by a *mark* in a map (`processing`), which must be the call
  stack, no more and no less;
- **state that is read at one moment and relied on later**: the context's `canonical` flag, the `latest` revision
  of a module, copies of a map kept in closures;
- **order**: of files, of linkage statements, of maps, of the clauses of a function;
- **partial failure**: an import that fails, an output plugin that throws, a clause that returns the wrong shape, a
  grammar whose rules cannot be resolved - the run goes on or ends, and the errors, the exit status and the output
  file must agree;
- **state of the Rust library that outlives a call**: global tables of argument types and grammars that every plugin
  adds to, an error context that is the only thing the caller looks at, a heap of statements that each failing call
  must free;
- **the same thing read twice**: `if-feature` expressions, numbers and dates are checked by one parser and converted
  by another, which must agree.

Source references below are relative to the repository, which is at `src/` (so `src/src/yang.erl` is its
`src/yang.erl`).

## Inventory

| Component | Source | State | Operations | Modelled in |
|---|---|---|---|---|
| Run driver | `yanger.erl` `do_main`, `run`; `yang_error.erl` | `#yctx.errors`, the modules added, the output file, the exit status | add each file, post-process, validate features, decide, open, emit, report | `RunDriver` |
| Module loader | `yang.erl` `add_file` .. `parse_linkage`, `v_import`, `v_include`, `v_all_includes`, `post_add_modules` | `#yctx.{files,revs,modrevs,canonical,primary_module_names,errors}`, `#module{}` under construction, the call stack | parse a file, register it, follow an import or include, take the result, finish | `ModuleLoader` |
| Identities, features, typedefs | `yang.erl` `mk_module_maps` .. `mk_type` | one map per kind with `v_status` per entry | open, follow a reference, close | `Definitions` |
| Groupings | `yang.erl` `mk_groupings`, `add_grouping`, `mk_children` (uses), `topo_sort` | the map of groupings, copies of it | sort, open, copy children, close | `Groupings`, `TopoSort` |
| Augments | `yang.erl` `augment_children`, `insert_children`, `mk_case_from_shorthand`, `v_unique_names` | `#module.children`, `UndefAugNodes` | walk to the target, leave placeholders, insert, replace, run hooks, report | `Augments` |
| Lexer and statement parser | `parser.rs`, `rust_atom/src/lib.rs` | position in the text, calls of `parse_statement`, the heap, the error context | keyword, argument, block, end of file, free | `Parser` |
| Grammar tables | `grammar.rs` (install part), `rustler_yang_parser/src/lib.rs`, `yang_parser.erl` | the global tables of argument types and grammars | load, install types, install grammar, fix, add rules by use-in | `GrammarTable` |
| Check of a module | `grammar.rs` `yang_grammar_check_module` .. `match_rule` | the prefix map, the copies of the rules, the error context | resolve prefixes, match, skip, enter, leave | `CheckModule` |
| Arguments | `core_types.rs`, `core_validators.rs`, `arg_to_term` | none | validate, convert | `Arguments` |
| if-feature | `rust_atom/src/lib.rs`, `yang_if_feature.erl`, `yang.erl` `check_if_features` | tokens, a checkpoint | validate, parse again, evaluate | `IfFeature` (the circles of features are in `Definitions`) |
| Schema tree | `yang.erl` `mk_children`, remote augments, refine, `post_expand_module`, unique, keys | `#sn{}` trees, augment lists | expand, augment, refine, check | not modelled |
| Deviations | `yang.erl` `apply_remote_deviations` .. | the deviated trees | deviate, re-type | not modelled |
| Types | `yang_types.erl`, `w3cregex.erl`, `rustler_w3cregex` | none | ranges, enums, bits, identityref, union | not modelled |
| Leafref and XPath | `yang.erl`, `yang_xpath.erl`, `xpath_*` | the trees | check paths | not modelled |
| Plugins | `yang.erl` `load_plugins`, `run_hooks`; `yanger_plugin.erl` | hook lists, registered formats and options | load in dependency order, run hooks | not modelled, but `TopoSort` and the calls of `GrammarTable` |
| Atoms, table of core statements | `rust_atom/src/lib.rs`, `build.rs`, `grammar.rs` | the interned names | intern | names are values in the models |
| Output formats | `plugins/yanger_{tree,yang,yin,swagger,depend,sn,expand}.erl` | none between runs | print | only how they end, in `RunDriver` |
| Extension plugins | `plugins/yanger_{smiv2,restconf,structure}.erl` | registered grammars and hooks | | not modelled |
| getopt | `getopt.erl` | | | not modelled, vendored |

How they interact: when plugins start they install argument types and grammars in the tables of the library
(`GrammarTable`). `yanger:run` calls `add_file` (loader) per file. The loader has the text parsed: `Parser` makes a
tree of statements, `CheckModule` walks it with the grammars in the tables (its constant `Grammar`) and calls the
validators of `Arguments` and `IfFeature`, and the tree is converted, or the errors returned. The loader takes either
(`wellformed` and `ordered` of a file), follows the linkage statements by calling itself, and then builds the module:
its definitions, groupings and schema tree. Each of these adds to `#yctx.errors` through `yang_error`, which decides
by the options whether a problem counts. After all files `post_add_modules` checks across modules, plugins transform,
and the driver decides from the errors what to print, what to write and how to exit. The composition is through data
passed on: `RunDriver` takes what adding a file comes to (`ok`, `fails`, `crashes`, and the problems found) as input,
which is what `ModuleLoader` and the definitions decide; `Definitions` and `Groupings` take the definitions of
submodules and imported modules as given, which is right because the loader refers to *finished* modules only - that
is theorem `ImplementsDepthFirst`.

What makes each component correct:

- *loader*: a circular import is reported exactly when there is one; nothing half built is ever handed out;
  a stored module is never replaced; each linkage statement leads to an entry or an error; the revision taken is the
  one asked for or, without a date, the latest known; a run without errors has everything it was asked for; the end
  is reached for all files.
- *definitions*: circles are reported exactly; an identity's stored bases lead to all identities it is derived
  from; each missing reference is reported once; the end is reached, and the run does not crash.
- *groupings*: each is complete when it is used; circles are reported; each missing grouping is reported once.
- *augments*: the tree is the same whatever the order of the augments; what is missing or misplaced is reported;
  hooks run once per node; applying an augment again changes nothing.
- *parser*: the files accepted are those of the language, with the statements that are in them; a failure leaves one
  error and frees what was made; the end is reached.
- *grammar tables*: a rule leads to the statement it names, whatever else is installed and in which order; a plugin
  that is told `ok` has got what it asked for; an argument is checked as the type was given that had its name first.
- *check*: a module is accepted exactly if every statement is allowed where it stands, as often as it stands there;
  everything missing is reported once; a failure leaves an error.
- *arguments and if-feature*: the parsers agree with each other and with the language; numbers are not cut off.
- *driver*: exit status, printed errors and output file agree with what was found, in whichever step.

## Modules

**`DepthFirst`** - the abstract specification: a set of nodes, each `new`, `open` or `closed`; an open node adds
dependencies, but only on closed nodes; an open node closes. This is what every recursive validation of the
program promises. From it follows that dependencies of closed nodes never form a cycle (`NoCycles` in
`ModuleLoader_proofs`).

**`ModuleLoader`** - the Erlang call stack is `stack` (the modules inside `parse_linkage`, innermost first, each with
the linkage statement it has reached), `modrevs` is `#yctx.modrevs` with a module under construction kept under its
key (in the code it is the atom `processing` there and a `#module{}` in a local variable; here the record's `state`
tells them apart and no lookup reads the rest of it while it is processing), `ret` is what `search_module` has
returned and `v_import`/`v_include` has not yet taken. Actions: `AddFile`, `AddFileUnparsable` (command line),
`LinkKnown`, `LinkCircular`, `LinkNotFound`, `LinkUnparsable`, `LinkFile` (the ways `search_module` / `search_file` /
`add_parsed_stmt_tree` can go), `TakeImport`, `TakeInclude`, `Finish` (`v_all_includes`, registration, return),
`PostAddModules`. A *scenario* is everything outside the program - the files with their contents, the command line,
`-c` - and is chosen in `Init`. Abstracted: text and positions (an error is known by its code, file and linkage
statement), prefixes, features and everything after the linkage statements (a file has a `body` or not).

**`..._proofs`** - theorems about the module they are named after, see below.

**`Definitions`** - one module for the three kinds of definitions that follow one scheme (`mk_*_map0` loop,
`add_*`, `chk_base` / `chk_if_feature` / `mk_type`); each of the places where they differ is a test of `Kind`: the
feature loop takes the unvalidated entry, an identity with several bases in a YANG 1 module is rejected with a value
of the wrong shape (`lost`), a circle crashes for a typedef. `above` is where the stored copies of the bases lead.

**`TopoSort`**, **`Groupings`** - `TopoSort` has what one round of `yang:topo_sort` does to a list of pairs;
`Groupings` collects the pairs (`CollectDeps`, one call of `grouping_deps`), sorts them (`SortPairs`, a `Round` per
round of `topo_iterate`, until it is `Sorted` or finds a `Cycle`) and runs the loop over the result. `copy` is the
copy of the map that nested groupings look into. Each grouping has one leaf of its own; `leaves` is whose leaves an
entry ends up with. After its first `uses` a grouping hands its own scope on instead of its parent's, so a grouping that
is added from inside another sees the nested one of that (`InScope`): a `uses` of it is resolved (`UsesOuter`), a nested
grouping of the same name reported (`UsesRaw`). This happens with circles only.

**`Augments`** - a tree is a function from the paths of its nodes to a record: kind, the augment whose statement it is
(`by`, standing for the position in its `stmt`), how often its hooks ran. A placeholder (`__tmp_augment__`) is a node
of kind `tmp`; `undef` is `UndefAugNodes` grouped by position. `ApplyAugment` is one round of the fold in
`augment_children`, with everything the recursion does on its way back; `EndSubmodule` and `EndModule` are the ends of
the two calls of `parse_body`. The order of siblings is abstracted, so which of two clashing statements an error names
is too. The reference is `Closure`: all nodes the statements add, found by iterating them regardless of order.
Accepting is compared with it in both directions (`AcceptsAnyOrder`, `RejectsFaults`). Both have exceptions that the
code needs: a target in a choice must not lie ahead (`ChoiceAhead`, see the deviations below), and a node that does
not fit its parent is only found if the augments come in order, because a node that replaces a placeholder, or is put
below one, is checked against no parent. Where the kind of a placeholder turns out to be choice after an augment has
gone through it, a node may silently end up one level too deep; that is why `RejectsFaults` compares the tree under
`~ChoiceAhead` only.

**`RunDriver`** - `yanger:run` with the error levels of `yang_error`. Actions follow the steps of `run` and the
branches of its final choice; `exit` says how the run ended, `file` what became of the output file. The errors are
a set: which there are decides the run, not their order (`print_errors` sorts them).

**`Parser`** - `yang_parse`. A file is a sequence of characters, of which there are as many kinds as the code tells
apart; "V" and "W" stand for `yang-version` and `1.1`, and the escapes `\n` and `\t` are left out with the line
buffer (`readline` is the end of the file, or nothing). The lexer functions are functions of the position; the
recursion of `parse_statement` is `stack`, and `heap` is what is allocated: `<<"stmt", n>>` and `<<"arg", n>>` of the
n-th statement, `<<"arg", 0>>` for an argument that no statement has yet. One action per way a call goes on, and
`FreeStatement` for each call that fails on the way back. `ParsesExactly` compares with `RefRead`, a definition of the
language in two passes: each character has a mode, tokens are what the modes separate, and an automaton with a stack
reads the tokens.

**`GrammarTable`** - the tables `types` and `grammar` and the calls that plugins make. A scenario is the core types
and grammar and a sequence of calls. What is checked for a type (`check`) follows from how it was given (`NewSlot`): a
validation function or a compiled regexp (`cb`), nothing (`any`, as for the core's `string`, `core_types.rs:156`), or,
after a regexp that does not compile, the regexp as it was written (`raw`). A rule's pointer to a specification is the
pair of their places in the table. What memory that was allocated and never written holds (`Stale`) is any slot.
`AddGrammar` is `yang_install_grammar` with `fix_grammar`; the loop over use-in lists is one action per entry, since
it stops half way.

**`CheckModule`** - the walk of `chk_statements`, one frame per call with its copy of the rules (`occ`, `start`).
`MatchRule` is `match_rule`: the rule, the copy it leaves behind and the errors. `Valid` is the reference: what each
statement must satisfy, without marks, copies or order of checking.

**`IfFeature`** - an expression goes through `yang_parse_if_feature_expr`, with its one checkpoint, through the Erlang
scanner and parser, and through `check_if_features`. The reference is the grammar of RFC 7950, quoted in the module,
as derivations over the tokens. It has a RECURSIVE operator (`Eval` walks an expression tree) and no theorems.

**`Arguments`** - validator and conversion of every core type. The limits of `i64` and `u64` and of the length of an
atom are constants, so that the theorems speak of the real ones.

Every module that has runs also holds *fault* operators (commented `Fault:`), each a definition changed as a
plausible bug would: a lost mark, a swapped argument, a skipped check. They are not part of the specification;
substituting one for the definition after it makes the property listed with it in `PROJECT.json` fail.

## Runs

| Run | Instance and bounds | Shows |
|---|---|---|
| `loader` | graphs: three modules, each with any list of up to two imports of the three, one also of a module that does not exist; revisions: a module with two revisions, imports with either date and none, files that hold another revision or module than their name says, a file that does not parse; submodules that include each other and import, with and without `-c`, yang-version mismatches | loading ends; `CIRCULAR_DEPENDENCY` exactly when the reachable graph has a cycle; nothing is lost; never an older revision than one known; what a run without errors guarantees; submodules carry their module's revision; canonical order until the first import; refines `DepthFirst` |
| `definitions` | three definitions a, b, c with up to two references each, to each other, themselves, a submodule's and an undefined one, alone or with a fourth that clashes with a submodule's; all kinds | circles, derivations, crashes, the end |
| `groupings` | modules of three groupings, direct and nested uses, also of a nested grouping that is not there | order, expansion, circles of direct uses, the end |
| `augments` | two trees of a module's own nodes (with and without a choice), every sequence of three augments out of a pool of 21 (targets up to four deep, missing, in a leaf, in a choice; contents of every kind), alone or the first two in a submodule | closure of the statements in any order, faults found, hooks once, repetition harmless |
| `driver` | two files with every outcome, every outcome of the checks and the plugin, six option settings, five output settings | exit status, printed errors and output file agree |
| `parser` | every text of up to three characters of fourteen kinds at each place where the lexer meets it, indented strings, sequences of statements | the language with its trees, one error per failure, everything freed, when reading ends |
| `grammar_table` | all sequences of three calls out of twelve: types whose regexp compiles or not, one that redefines a type of the core, grammars that refer to the core, to each other or to nothing | rules lead right, failures last as long as their cause, `ok` means installed, arguments are checked as the first type of the name was given, also after a failed installation |
| `check_module` | headers of up to three parts of eleven, bodies of up to five of thirteen parts, both versions and orders | accepts exactly the valid modules, every missing statement reported once, nothing reported below what is skipped, failures leave an error |
| `if_feature` | expressions of up to seven tokens, texts of up to four pieces | the language, the value, and when the second parser accepts |
| `arguments` | every type with all numbers to beyond the limits (20 and 41 for those of `i64` and `u64`), dates around the ends of months, words around the length of an atom (6) | numbers keep their value, dates exist, what is accepted is converted |
| `parser_hangs` | the instance of `parser` | finding 1 |
| `if_feature_not` | the instance of `if_feature` | finding 2 |

*Why the bounds are enough.* Three nodes give every shape of a cycle relative to where the search starts: a node on
it, a node leading to it, a node beside it; two references per node give a search that backs out of one branch and
meets the mark in the other. Three augments allow a placeholder below a placeholder that are replaced one after the
other, in either order, and two augments of a submodule allow the same between its two applications. Two revisions and
one unknown date are what the comparison in `get_modrev` can tell apart. Three characters are the longest thing the
lexer looks at (`*/` and what follows it), and each place has the statement around it. Three calls are an
installation, what it disturbs and what comes after that. Bodies of five parts have one part before, between and after
two fixed ones, with two sections of rules. The limits of `arguments` are far enough apart for every order of the
comparisons; the theorems hold for all. Two files and one problem of each kind per step are what `success` and
`HasErrors` can tell apart. No state variable is unbounded, so no run has a state constraint.

*Deadlock* is checked in all runs; a run that has ended stutters by the action `Terminated`.

*Fairness.* The program is sequential and nothing outside it can hold it up once a file is read, so the runs of the
specifications with liveness properties are fair to `Next` as a whole (`WF_vars(Next)`) and to no action by itself.
The others state no liveness and have no fairness: what the driver waits for (a file, a plugin) is not its to promise,
and that the parser does not always come to an end is stated as safety (`ReadsToTheEnd`, `NeverHangs`).

## Proofs

`ModuleLoader_proofs` proves, for all sets of files, names and revisions and all scenarios:

| Theorem | States |
|---|---|
| `TypeCorrect` | `Spec => []TypeOK` |
| `MarkIsCallStack` | the modules marked `processing` are those on the stack, each once |
| `CallsAnswer` | each frame waits at the statement that asked for the next one, and `ret` is stored and is what was asked for |
| `SearchesAreNew` | `search_file` never yields a module the context has |
| `StoredForGood` | a stored module is never marked, rebuilt or replaced |
| `CanonicalSoFar` | while the context is canonical, every module in it was checked |
| `ImplementsDepthFirst` | `ModuleLoader` implements `DepthFirst` under the mapping of its marks and entries |
| `ContextAcyclic` | imports and includes of stored modules never form a cycle |
| `NoStatementLost` | an import or include that is passed is resolved or reported (`NothingLost`) |
| `RevisionsNeverFallBack` | a later import of a name without revision never gets an older one (`NeverAnOlderRevision`) |
| `CleanRunsAreComplete` | what a run without errors guarantees (`CleanRun`) |
| `RevisionsHandedDown` | after a run without errors each submodule has the revision of its module, unless one was read by itself (`RevisionHandedDown`) |
| `CirclesAreDecided` | in a graph of imports a circle is reported exactly if there is one, and what is reached is read (`CircularityDecided`) |

`NoCycles` in the same module is about `DepthFirst` alone.

*The argument.* None of these is inductive by itself. The invariant is
`IInv == TypeOK /\ ProcessingIsStack /\ DepsLoaded /\ CallChain`. That a closed module depends on closed modules only
needs `DepsLoaded`: everything in the lists of an entry is stored, not marked. A module gets into these lists from
`ret`, so `ret` must be stored; it is when found (`LinkKnown`), and when a call returns (`Finish`) because the module
is stored in that step. That it is the *right* module is `CallChain`, which follows a request down the stack:
between the call and its return the callee's frame lies directly above the caller's, whose `at` has not moved. And
that `Finish` stores the module that was marked, and only that one, is `ProcessingIsStack`. The refinement mapping
takes absent to `new`, `processing` to `open`, `module` to `closed`, and imports and submodules to dependencies; each
action is then a step of the search or a stutter, and acyclicity is inherited: the set of nodes of a cycle would have
to contain a node closed before the one it depends on.

`NoStatementLost` rests on two observations: `Kept`, that no step takes away an error, a reference or a stored module,
so what was once resolved or reported stays so; and that only `Advanced` moves a frame past a statement, each of its
uses (`AdvanceLoses`, `FailedLoses`, `EnterLoses`, `FinishLoses`) having just resolved or reported it. For the failure
of a call this needs `SearchesAreNew`: otherwise `add_parsed_stmt_tree` could refuse a file, as given twice, under a
code that says nothing of the import. `RevisionsNeverFallBack` uses that a module which waits for a file without a
known revision has imported nothing of that name yet (`WaitsForFirst`), and that what a call for no particular revision
returns is at least as new as what the module has (`ReturnsLatest`). `CleanRunsAreComplete` collects, for a run that has
no error so far, that each file given is stored or still to come (`ArgumentsAdded`), and for each entry what the checks
at its `Finish` found (`SubmodulesBelong`, `IncludesComplete`, `NamespacesOwned`); lists only grow, and only while the
module's frame is on the stack (`Grows`), so what was checked stays true.

`RevisionsHandedDown` is about chains of includes: what a submodule is given is what the module or submodule that
includes it has, whose own revision came the same way (`HandedDown`). It holds while the run is free of errors and none
is certain to come (`RefusalToCome`): a submodule that belongs to another module is entered before `v_include` refuses
it. `CirclesAreDecided` adds to the invariant that only what can be reached is stored, and what an error may be in a
graph of imports (`GraphInv`). An error is a circle, because the modules on the stack import each other down to the
one that is found again; conversely, if none is reported at the end, every module in the context has all its imports
in the context (`NoStatementLost`, `CleanRunsAreComplete`), so the context holds all that is reached, and
`ContextAcyclic` says that it has no circle.

*Assumptions.* `RevisionAssumption` (a finite set of positive numbers) and `ScenarioAssumption` (well typed; a
revision statement is part of the body, since it follows the linkage statements; a module belongs to itself).
TLC evaluates both on every instance.

`Definitions_proofs` proves, for any number of definitions of each kind, any references and any order of the loop:

| Theorem | States |
|---|---|
| `TypeCorrect` | `Spec => []TypeOK`; the marked definitions are those on the stack, each once |
| `CirclesReported` | a circle of the module's own definitions is reported, and what is reported is one |
| `CrashesExplained` | only a circle of typedefs or a second base in YANG 1 ends the validation early |
| `DerivationsComplete` | without a circle, `above` holds exactly what an identity is derived from |
| `TypedefsDepthFirst` | the validation of typedefs implements `DepthFirst` |

*The argument.* One half is a matter of the stack: `Path` says that each definition on it waits at its reference to
the one above, so a reference to a marked definition closes a circle that is really there. The other half has to show
that a circle cannot be passed by. The invariant `Sound` speaks of the *settled* definitions - done, or marked with
all their references done: as long as no circle is reported, they refer to settled definitions only and every set of
them has a member that refers to none of the set. `Close` makes the topmost definition done, which settles nothing
that was not settled before; a step that settles a definition adds one that refers to older ones only. At the end
`Pending` says that everything to be validated is done, hence settled, hence without a circle. `DerivationsComplete`
adds what is collected (`BasesRight`): the bases of a frame lead only to what the identity is derived from, and, while
no circle is reported, each base is done, brings its own bases with it, and all references passed are covered. A done
identity's `above` is then closed under reference, and the derivation is the smallest such set.

`Groupings_proofs` proves, for modules with any number of groupings, of any shape:

| Theorem | States |
|---|---|
| `TypeCorrect` | `Spec => []TypeOK` |
| `GroupingsInOrder` | without a circle, each grouping used is done when it is used, in the map and in the copy of it (`HandledWhenUsed`) |
| `GroupingsExpanded` | without a circle, each grouping ends with the leaves of exactly those it needs (`ExpandedCompletely`) |
| `CirclesReported` | `CIRCULAR_DEPENDENCY` is reported exactly if there is a circle of direct uses, or a nested grouping that uses itself (`DirectCircleReported`) |

*The argument.* `SortInv` is the correctness of the sort: every edge is still among the pairs or its left-hand side is
in the sorted list, nothing in the sorted list is in the pairs, and nowhere in that list does a grouping come before
one it uses. A round keeps this, since what it takes is on no right-hand side; and if it can take nothing, each
left-hand side is also a right-hand side, which is a circle (`CycleFound`). The last steps, adding the names that are
left, removing duplicates and the dummy, keep the order (`ChosenApart`, `LastOccurrencesOK`). `OrderInv` carries it
through the loop: what the names to come use is done, or being added, or comes before them, so `add_grouping` never
calls itself, and the copy that is made when it starts has everything. `LeavesInv` says what a call has gathered: the
reach of the `uses` passed, where the reach of a grouping is the smallest set closed under `Needs`. The reach of a
grouping is its own leaf and the reach of what it needs (`ReachOwn`), which is how `Close` keeps it. `CircleInv` has
to do without an order, because with a circle there is none. While nothing circular is reported, the groupings done
use groupings done, and each set of them has a member that uses none of the set; the one that `Close` adds uses older
ones only. The other way round, a `uses` of a marked grouping closes a circle, as each call waits at its `uses` of the
one above it (`CallInv`). What the list functions compute (`Chosen` is a recursive function) is proved by induction on
the length of the list, in the form of a set of numbers without a least element (`NumberInduction`).

`RunDriver_proofs` proves the properties of the driver for any number of files, any codes and any options
(`TypeCorrect`, `ExitCorrect`, `NothingLeftUnsaid`, `HarmlessSucceeds`, `OutfileCorrect`, `OverwritesSafely`). Its
invariant says of each step what has been collected when it is reached (`Collected`: every file no longer pending is
in `errors` with what was found in it, and was added if `success` still holds; `Checked`, `Emitted`), that `errors`
holds nothing else (`Origin`) and nothing of the plugin before it was called (`Early`, so that what decides whether it
is called can be told at the end: `Emits`) and an error for each file that was not added (`Failed`), and what each
exit leaves behind (`Ended`). It assumes of the scenarios that a file that is not added has an error
(`ScenarioAssumption`).

The library:

| Theorem | States |
|---|---|
| `GrammarTable_proofs!TypeCorrect` | `Spec => []TypeOK` |
| `GrammarTable_proofs!TableResolved` | for all grammars, types and calls: `fix_grammar` fails exactly while some rule in the table leads nowhere, and when it succeeds nothing is unresolved |
| `GrammarTable_proofs!RulesAlwaysLeadRight` | a resolved rule leads to the statement it names, alternatives to different ones in their order |
| `GrammarTable_proofs!OkStaysInstalled` | what a plugin was told `ok` for is in the table, resolved and used where it asked for, from then on |
| `GrammarTable_proofs!ArgumentsStayChecked` | whatever succeeds or fails, an argument is checked as the type was given that had its name first, up to a type whose regexp does not compile |
| `Parser_proofs!FailureFrees` | for every file, a parse that fails has freed all statements and their arguments, but for one argument that had no statement yet |
| `Parser_proofs!HangsInWordsOnly` | for every file, only an unquoted word at its end keeps `get_string` from returning (`ReadsToTheEnd`) |
| `Parser_proofs!FailuresStopAtOnce` | for every file, a parse that fails stopped at the first error that is not about an escape, reported once and last (`StoppedAtOnce`, half of `ParsesExactly`) |
| `Parser_proofs!ParsedExactly` | for every file, it is accepted exactly when it is in the language of `RefRead`, with the statements, the arguments and the errors for escapes that this says, and one for what follows the module exactly when something does (`ParsesExactly`) |
| `Parser_proofs!TypeCorrect` | `Spec => []TypeOK` |
| `CheckModule_proofs!FailureNoticed` | for every grammar, tree and order, a check that returns false has left an error |
| `CheckModule_proofs!NothingBelow` | for every grammar, tree and order, nothing but a prefix is reported below a statement of an unknown module or one that was rejected (`NothingBelowSkipped`) |
| `CheckModule_proofs!MissingReportedOnce` | for every grammar, tree and order, a mandatory substatement of a statement that was entered is there, or is reported missing exactly once (`AccountedFor`) |
| `CheckModule_proofs!AcceptedIsValid` | for every tree and order, and every grammar with tables for `module` and `submodule` as in `HeaderAssumption`, a module is accepted exactly when it is valid (`AcceptsExactly`) |
| `Arguments_proofs!NumbersKept` | for all limits, a number that a numeric type accepts becomes its value, and one that it refuses is outside of the type |
| `Arguments_proofs!ConversionSucceeds` | what a validator accepts is converted, but for words that make no atom |
| `Arguments_proofs!DatesAreDays` | for every year, a date is accepted exactly if there is such a day |

*The arguments.* In `GrammarTable` a table once fixed has no unresolved rule (`FixResolves`), one that is stuck stays
so (`StuckStays`), because no later grammar can take the name of one that is there, and use-in adds resolved rules
(`AddRuleResolved`) - but it must not run on a table that is stuck, so `Adding` is part of the invariant. The other
three rest on `Kept`: no step takes away a grammar, a statement, a rule or a pointer that is not null (`GrammarKept`),
so look-ups find what they found before (`GrownFinds`, `GrownStatementSpec`). That alternatives lead to different
specifications is a matter of counting (`OffsetGrows`, `LaterSpec`); it holds for rules that `fix_grammar` resolved,
so `Leads` says that a rule for a statement of the core is one, and `MatchesInCore` that only those have alternatives.
`OkInv` says which use-in entries of the call being served are in the table, `ArgInv` that every name given before the
first failure has a slot, the first of which is checked as the name was first given, and that the arguments of the
grammars point to slots of which that is true (`SlotsAdded`). In `Parser` what the lexer returns has to be known
first. Its functions are defined by their values at later positions; that there are such functions at all, and that a
fact holds of their values at every position, is `Recursion` and `DownInduction`, used for white space, indentation,
the rest of a quoted string and concatenated strings (`SkipOK`, `AfterIndentOK`, `QuotedOK`, `QuotedStringsOK`): each
goes forward and stops at the end of the buffer, and only for unquoted strings is there no such end. `HeaderFacts`
says what `parse_statement` knows when it allocates. `ErrorInv` then is the order of the errors: while the parse goes
on there are none but those for escapes, and any other is the last. And there the outermost statement on the stack is
always the first one made (`StackInv`), so freeing it frees all, and what is allocated belongs to a statement of the
tree (`HeapInv`). For `ParsedExactly` the automaton of the reference is put at positions: `RefAt(p)` is what it is
after the tokens that begin before p, and `RefInv` says that between two calls it is where the parser is, with its
stack, its statements and its errors, and that once a call has failed it never accepts. That takes one lemma for each
thing that the lexer reads in one go and the reference character by character: comments hold no token (`SkipsBlank`),
`get_keyword` accepts the words that are keywords (`KeywordsAgree`), the rest of a string has the value and the
illegal escapes of the token (`RestHolds`, `StringToken`; both passes agree on which white space of a further line
counts, `NextLine`), strings joined by `+` are read by both or by neither (`PlusHere`, `StringsRead`), and so the
beginning of a statement (`HeaderReads`). In `CheckModule` every way in which the result becomes false adds an error,
except at the end of the outermost list, where `add_stmt_err` has no statement to report at; `OuterInv` says that
there the module statement was either given or is still to come, or there is an error already, and the lemmas about
`match_rule` (`LeaveBehindOK`, `TakeRuleOK`, `MatchOK`) that it leaves the outermost list alone unless it takes its
rule. `NothingBelow` follows the walk by the statements it has still to come to (`ToCome`) and those it is inside of
(`OpenFrom`): a statement is entered after it was matched and before anything is reported at it, what is refused is
never entered, and everything reported lies in what has been passed (`PathInv`). `MissingReportedOnce` needs that set
exactly, not only as a bound (`MovedExactly`, `WentExactly`, `CameExactly`), and an account of every statement
(`Account`): while the call for it is under way, the copy of each mandatory rule tells whether a statement that the
rule admits was entered or the rule was reported missing (`RuleOK`), and when the call is over each such rule has one
of the two (`Closed`); `match_rule` changes the copies in no other way (`MatchChanges`), and `MissingErrors` reports
each rule once (`MissingFor`). What a statement counts for is given by a reference definition, which knows neither
sections nor the order of the walk: that the rule found from the start of the section is the one of the reference is
`HitIsRef`, which needs `AlternativesAssumption`, and that the map of the prefixes, whose loop may stop early, gives a
statement the module of the first declaration of its prefix is `PrefixSteps` and `TakenFirst`. `AcceptedIsValid` goes
both ways with one invariant (`FoundInv`), which speaks of checks without an error so far. `match_rule` remembers
nothing of the statements it took but the marks in its copy of the rules and where the section starts; `Tells` says
what these tell of the statements taken, no more and no less: that `0` stands for a statement that took the rule, `-`
for one beyond it in canonical order, and that what is before the start of the section lies before a cut that some
statement has passed. With that, a rule that is found and admits a statement (`Admits`, `MatchExactly`) is one the
reference allows after each statement taken before (`TellsAfter`), and one the reference allows is found and admits it
(`FoundWhenValid`, `AdmitsWhenValid`, which need that every mandatory statement of a valid list is somewhere in it).
`Exact` is this for all calls under way, with the conditions of the reference for all statements passed; it is kept by
each kind of step (`ExactMoved`, `ExactEntered`, `ExactReturned`). The reference counts statements and sections; that
this is a condition on pairs of statements of a list and on single rules is `ListExactly`. At the end nothing is to
come, so the conditions hold of all statements (`EndValid`), and that no mandatory statement is missing comes from
`Account`. The header is circular at first sight: the loops over the prefixes and for the version run before anything
is checked and rely on what the check is to find out - at most one `prefix`, imports before the body, nothing
unexpected before `yang-version`. `HeaderFits` is what the check of the module's own list establishes without use of
the version, and from it follow that the map holds all prefixes (`PrefixesTaken`) and that the version found is the
module's (`VersionFound`). In `Arguments` the invariant only carries the validator's answer to the conversion; the
work is in the arithmetic, `YearLength` above all: the Gregorian count of days grows by 366 in the years that
`chk_date_rs` calls leap years.

*Assumptions.* `GrammarAssumption` and `ScenarioAssumption` of `CheckModule` (every grammar is well typed, `module`
and `submodule` have one, a statement comes after the one around it, and no keyword is `$cut`, which is no identifier)
and its `AlternativesAssumption`: no cut is between two rules for the same statement, and a specification that is
selected by its argument is selected by the same words in both versions of YANG. In the core grammar the only rules
with alternatives are those for `deviate`, which follow each other (all but the last selected by a fixed word), and
the only cuts are those in `module` and `submodule` (`src/c_src/rust_atom/core_stmts_data.txt:93`).
`AcceptsAssumption` says that validators are called with arguments, and `HeaderAssumption` what the loops over the
header take for granted of the tables of `module` and `submodule`: they are not selected by an argument; a module has
no rule for `belongs-to` and a submodule none for `prefix`; at most one of each of `yang-version`, `prefix` and
`belongs-to`; a cut separates `import` from the rules of the body, and `yang-version` from what would end the search
for it. In the tables (`src/c_src/rust_atom/core_stmts_data.txt`, lines 1 to 66) the rules of the header stand before
the first cut, `import` and `include` before the second; without the first, a `yang-version` after a `description`
would be accepted but not seen. Plugins add rules for statements of their own module only. Further, those of
`GrammarTable` (well typed scenarios, the regexps of the core compile, no plugin installs the core's module), those of
`Groupings` (a nested grouping has a name of its own, well typed scenarios with at most one nested in each),
`LimitsAssumption` (18 <= IntMax < UintMax, which i64 and u64 satisfy), `YearAssumption` (years from 1 on) and
`ScenarioAssumption` of `Arguments` (a prefix is no longer than its word, `unbounded` makes an atom). All are
evaluated by TLC on the instances. The regular expression of dates admits the years 1000 to 2999 only.

Properties that no run lists because they are proved for all instances: `TypeOK` of `RunDriver`, `ModuleLoader`,
`Definitions`, `Groupings`, `GrammarTable` and `Parser`; `HarmlessRunSucceeds` and `OverwritesForCleanModels` of
`RunDriver`; `ProcessingIsStack`, `CallChain`, `SearchFindsNew`, `StoredOnce` and `NoImportCycle` of `ModuleLoader`;
`RefinesDepthFirst` of `Definitions`.

*Only model-checked.* All of `Augments` and `IfFeature`. The liveness properties (`Termination`) stay with TLC:
liveness under fairness is outside what the prover can do.
`IfFeature` has a RECURSIVE operator, which the prover does not take. An induction principle with a predicate as
parameter is not available either; induction over the numbers in a set is, and the proofs of `Groupings`, `Parser`,
`CheckModule` and `GrammarTable` use it.

## Findings

Each of these has a run whose counterexample is a run of the code.

1. `src/c_src/rust_atom/src/parser.rs:267` - a file that ends in an unquoted argument, without a newline, is read for
   ever (`NeverHangs`).
2. `src/src/yang.erl:1646` - an expression such as `not` followed by something that is no expression passes the first
   parser as a feature called `not` and is refused by the second, whose failure the caller does not expect
   (`ThisCallWillNotFail`).

The following deviations are in the models and excepted by name in the properties that hold:

- *driver*: with `-o` the output of a format registered for models with errors is deleted because of the model's errors
  (`src/src/yanger.erl:457`).
- *loader*: a submodule read because the command line names it before its module has no module revision
  (`src/src/yang.erl:650`), and the module takes that record when it includes it; `RevisionHandedDown` states that this
  is the only way a submodule is left without the revision of its module.
- *loader*: following an import switches the canonical check off for good, so submodules included after it, and later
  files, are not checked (`src/src/yang.erl:702`; hence the `Until` in `CanonicalUntilImport`); a module that ends with
  its linkage statements is not checked for missing includes (`src/src/yang.erl:900`; the conjunct `f.body` of `CleanRun`).
- *definitions*: circular typedefs end in an internal error, not in the error message added for them
  (`src/src/yang.erl:1882`), and an identity with several bases in a YANG 1 module makes `add_identity` return the
  context in place of the map, so the next lookup crashes (`src/src/yang.erl:1538`; both in `CrashExplained`).
- *groupings*: those that use each other through a nested grouping are not reported and lose their leaves
  (`src/src/yang.erl:2133`; hence the `Direct` in `DirectCircleReported`); in a circle a nested grouping of the caller
  may be in scope (`src/src/yang.erl:2293`; `InScope`).
- *augments*: a placeholder in a choice gets a case around it and is not found by the augment that adds its node, so a
  correct module is rejected (`src/src/yang.erl:2396`; `ChoiceAhead`).
- *parser*: when the file ends right after an argument, it is never freed (`src/c_src/rust_atom/src/parser.rs:411`;
  `FailureFreesAll`); an unterminated comment after the module goes unnoticed.
- *grammar tables*: a grammar whose rules cannot be resolved stays in the table and makes every later installation fail
  (`src/c_src/rust_atom/src/grammar.rs:466`; `FailsWhileUnresolvable`); a type whose regexp does not compile stays there
  without a check (`grammar.rs:397`; `ArgumentsChecked`).
- *check*: a `module` statement with a declared prefix is skipped, and the module accepted; a `yang-version` with a
  prefix counts as the module's version (`grammar.rs:608`; both in `Deviant`).
- *arguments*: words that are too long for an atom, or not UTF-8, pass the validator and raise `badarg` in the NIF, with
  no error in the list (`src/c_src/rustler_yang_parser/src/lib.rs:238`; `ConvertsWhatItAccepts`).

## Plan

What is done, in the order of its importance: `DepthFirst` and `ModuleLoader` with their proofs, since everything else
rests on modules being finished when used; `RunDriver`, `Definitions`, `TopoSort` and `Groupings` with proofs;
`Augments`; the library: `Parser`, `GrammarTable`, `CheckModule`, `Arguments` with proofs, and `IfFeature`.

What would come next:

1. `SchemaTree`: `mk_children`, `uses` with refine and augment, augments of other modules and those inside `uses`
   (which are applied in reverse), keys and `unique`, on top of `Groupings`. Abstract specification: the closure of the
   statements, as in `Augments`.
2. `Deviations` on the trees of `SchemaTree`, with the skipped modules of `apply_remote_deviations`.
3. `Plugins`: loading order with `TopoSort`, hooks and conditional hooks (which depend on `primary` of the loader).
4. `Ranges` and the other pure parts of the types, as operators checked against reference definitions.

Theorems worth proving next: of `Augments`, that hooks run once and that an accepted tree is the closure.

## Not modelled

- The schema tree beyond groupings and a module's own augments (refine, augments of other modules and inside uses,
  unique, keys), deviations, leafrefs and paths: they work on trees that all earlier steps have made, and a faithful
  model of bounded size needs these trees as its state. Two known hazards there have no property: references through a
  prefix when two revisions of a module are imported (`yang.erl:1168`), and deviations skipped when one target is
  missing (`yang.erl:3657`).
- Types other than the arguments of statements: functions without state. Regular expressions are matched by libxml2.
- XPath (scanner and generated parser), output formats and extension plugins: functions from trees to text or errors; how
  they end is an input of `RunDriver`.
- Failures of `malloc`, I/O errors in the middle of a file, and memory of the library other than statements and
  arguments.
- Atoms: interning makes names comparable as pointers; in the models they are compared as values. The table of core
  statements is data, generated by `build.rs`; the instances have small grammars in its shape.

Files of the search path do not change during a run. The option `-D`, `--print-deps` and the like print and exit
without touching the state modelled.
`Augments` leaves out a submodule that refers to nodes of its module: the code
reports them missing in the submodule, and the module then has the placeholder and its own node side by side.
Features, status and config of augmented nodes are left out too.
