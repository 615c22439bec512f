# capa-x in TLA+

capa-x recognises capabilities of programs: it takes a sample (or the frozen
features of one), a set of rules, and says which rules match, where, and why.
This directory models how it gets there: how a file becomes an image, how code
is recovered from the image, how library functions are named, how rules are
accepted, ordered and rewritten, how they are matched bottom-up through the
scopes of a program or of a trace, how work is spread over threads and shared
between analyses, and how the result document explains the matches. The modules
are checked with TLC on small instances; for eight components the central
properties are also proved with TLAPS for every value of the constants.

## 1. The system

| part | source (`src/capa-x/src/`) | state | operations | what makes it correct |
|---|---|---|---|---|
| worker pool | `parallel.rs` | shared `cursor`, `failed`; per worker `produced`, `error`; the joiner | `try_map`, `map` | the result is the serial one at every job count; each item once; no thread left behind |
| match engine | `engine.rs` | an insertion-ordered feature set | `insert*`, `merge*`, `evaluate`, `evaluate_boolean`, `index_rule_matches` | the boolean pass, the short-circuit pass and the full pass agree, errors included |
| rule index, optimizer | `capabilities/ruleset.rs` | `always`, `exact` and the scan buckets | `required_features`, `candidates`, `optimize_node` | no rule that would match or fail is skipped; reordering keeps the outcome |
| scope matcher | `capabilities/ruleset.rs` | candidates, feature set, results | `match_scope_borrowed` | same matches and same failure as the linear matcher |
| rule graph | `rules/graph.rs` | `marks`, `order`, the call stack | `RuleSet::new` | dependency-first order of all rules, or a true complaint |
| rule set construction | `capabilities/ruleset.rs`, `com.rs`, `rules/scope.rs` | stack of rules, finished rules, lists per scope | `MatchingRuleSet::new` | closed, dependency-first lists that do not depend on load order; no nested subscope left |
| static driver | `capabilities/static_analysis.rs` | matches per scope, counts | `find_{instruction,basic_block,code,file,static}_capabilities` | matches mean what the rules say; `--jobs n` equals `--jobs 1` |
| span matcher | `capabilities/dynamic_analysis.rs` | window, live union, last matches | `SpanOfCallsMatcher::next` | the union is that of the trailing calls; each run of matches is recorded where it starts |
| dynamic driver | `capabilities/dynamic_analysis.rs` | matches per scope, counts | `find_{call,thread,process,file,dynamic}_capabilities` | as the static driver |
| result document | `result_document/from_capa.rs` | none | `build_match`, `build_result_document` | builds for every set of matches, and every reference in it is explained |
| entry point | `api.rs` | one call of `analyze`: its phase, features, library functions | `load_input`, `analyze` | the phase order; the first failing phase decides the error and the exit code; a call gets what it would get alone |
| image loaders | `extract/loader/image.rs` | sections, bindings, relocations of an image | `from_pe`, `from_elf`, `from_macho`, `from_shellcode`, `bytes_at` | an address reads the byte of the file that is mapped there, zero, or nothing |
| ELF system and imports | `extract/loader/elf_os.rs` | headers that parsed | `detect_elf_os`, `dynamic_import_symbol_names` | damage to one structure hides nothing but that structure |
| seeds | `extract/recovery/recovery.rs` | a map from address to seed kinds | `collect_seeds`, `add_backend_fallback_seeds` | every start is code of this image and named by a table of this image |
| code recovery | `extract/recovery/` | instructions, functions, seeds, worklists, typed data, the no-return set | `analyze_seeded_image`, `recover_functions`, `discover_flow`, the waves | no start is lost, nothing waits for ever, blocks are cut by the set that is published, code and data stay apart |
| abstract emulator | `extract/recovery/emucode.rs` | registers, flags and memory, each known or not | `State::step`, `evaluate_candidate` | what it claims to know is true |
| FLIRT | `extract/recovery/flirt.rs` | process-wide signature cache, names | `embedded_with_options`, `identify_with_local_starts`, `enrich_static_features` | one initialisation for all; a name rests on a signature that nothing disputes |
| rule grammar, scope tables | `rules/grammar.rs`, `rules/scope.rs`, `rules/meta.rs` | none | `rule_from_yaml`, `build_statements` | accepts what the matcher can evaluate |
| freeze files | `freeze.rs` | none | `load`, `loads` | the tree of scope instances survives |
| extractors, renderers, CLI, bindings | `extract/`, `render/`, `../../capa-x-cli` | none or I/O | | |

Calls go one way: the entry point loads an input (loaders, recovery, FLIRT,
extractors, or a freeze file), builds the rule set (graph, then construction),
runs one of the two drivers (which use the scope matcher, and it the engine and
the index), and builds the document from the rule set and the matches. Two
things cross that order. A match is *published* as a feature: by the scope
matcher for the rest of the same scope, and by the drivers (*promotion*) for
the scopes around it. And the worker pool runs the per-function part of the
static driver, of feature extraction and of rule and signature loading in
parallel, sharing only immutable data. Between analyses of one process only the
parsed signatures are shared, behind a `OnceLock`.

What is hard here: the pool under every interleaving with failures and panics;
feature sets whose insertion order decides evidence while hash maps feed them;
three evaluators and an index that must agree on success *and* on error;
a window whose union is maintained by subtraction; suppression of repeated
matches that the document later looks up; names invented after names were
checked; a worklist that callees, pointers, callbacks and whole waves feed while
it is drained, inside a loop that starts over when the no-return set grows; an
emulator whose partial knowledge decides which code is found; files whose
headers lie. `PROJECT.json` lists these hazards at their lines.

## 2. Modules

| module | models | composed of |
|---|---|---|
| `MapContract` | what a caller of `try_map` may rely on: one step from pending to the result | |
| `TryMap` | `try_map` step by step | refines `MapContract` |
| `Engine` | feature sets, rule bodies, the evaluators | |
| `RuleIndex` | index, candidates, optimizer | `Engine` |
| `MatchScope` | the candidate loop | evaluator and index are constant operators; `MCMatchScope` supplies those of `Engine` and `RuleIndex` |
| `RuleGraph` | `RuleSet::new` | |
| `Subscopes` | COM expansion, extraction, closure, ordering per scope | `RuleIndex` |
| `RuleSetBuild` | `MatchingRuleSet::new` as steps | `Subscopes` |
| `ScopeMatching` | what both drivers share: seeding, promotion, file scope; and the declarative reading `Meaning` of a rule | `Subscopes` |
| `ResultDocument` | match trees and splicing | `ScopeMatching` |
| `StaticDriver` | `find_static_capabilities`, then the document | `ResultDocument`, the contract of the pool |
| `SpanOfCalls` | `SpanOfCallsMatcher` | matching is a constant operator; `MCSpanOfCalls` supplies `Engine`'s |
| `DynamicDriver` | `find_dynamic_capabilities`, then the document | `ResultDocument` |
| `CodeImage` | a loaded image as recovery sees it, the analysis record, typed locations | |
| `FunctionViews` | native and compatibility blocks of a function; can it return | `CodeImage` |
| `Pointers` | `evaluate_candidate`, the bounded walk over every path from an address; `pointers.rs`: candidates, typed slots, tables of pointers | `FunctionViews` |
| `Callbacks` | `callbacks::discover`: calling analysis of a finished function | `Pointers` |
| `JumpTables` | guarded dispatches (`switch.rs`), tables, preparation of a function's locations | `Callbacks` |
| `CodeFlow` | `discover_flow`: one walk as a stack of tasks | `JumpTables` |
| `Recovery` | `recover_functions` with its waves, and the passes around it | `CodeFlow` |
| `Loader` | `LoadedImage` from PE, ELF, shellcode and Mach-O | |
| `Seeds` | starts of functions named by tables or guessed by scans | `Loader` |
| `ElfOs` | system and imports of an ELF file | |
| `Emulator`, `Cpu` | `emucode::State`; the machine with all its bits that it approximates, and small programs for both | `Cpu` extends `Emulator` |
| `Flirt` | signatures, the prefix index, naming, tail blocks | |
| `Analysis` | several callers of `analyze` | |
| `MCFiles`, `MCFlirt` | small files, programs and signature files, and what must hold of each | instantiated by `MCAnalysis` |
| `MCAnalysis` | callers, or one phase of one analysis step by step | `Analysis` and all of the above but recovery |
| `TryMapProofs`, `MatchScopeProofs`, `RuleGraphProofs`, `SpanOfCallsProofs`, `AnalysisProofs`, `RecoveryProofs` | theorems | the module each is named after |
| `EngineProofs` | theorems about `Engine` and `RuleIndex` | `MCEngine`, whose `Trees` and features are any |
| `RecordProofs` | theorems about what `Recovery` records: the call graph, typed locations | `RecoveryProofs` |

Correspondence, in short (`PROJECT.json` has the lines):

* **TryMap.** `main` is the caller's program counter, `pc[w]` that of worker
  `w`: `"load"` before `failed.load`, `"claim"` before `fetch_add`, `"apply"`
  inside `f`. What `f` does to an item is a function `f` from items to `"ok"`,
  `"err"`, `"panic"`, chosen initially. Atomics are `Relaxed`; a load of
  `failed` may return an old value, which equals taking the step earlier, and
  `fetch_add` is atomic at any ordering. Values are represented by the index
  they came from.
* **Engine.** A feature set is a sequence of entries without repeated keys, so
  insertion order is there. A body is a record with `op` and `kids`. Whether a
  string query accepts a string is the relation `Accepts`, so that a substring
  may accept several strings and a string several substrings. Outcomes are
  `yes`, `no` and `error`; errors end an evaluation exactly where `?` does.
  A function of the code that calls itself on the children of a statement is a
  step over the values of the children (`BooleanStep`, `EvaluateStep`,
  `CostStep`, `OptimizeStep`, `RequiredStep`) and `BottomUp`, the recursive
  function over the statements of the body that applies it; `MaxDepth` bounds
  how deep statements nest, so that the set of them is defined without
  recursion over the body.
* **RuleGraph.** The recursion of `visit` is a stack of frames, each with the
  dependencies its loop has left. The source sorts them; names are numbers.
* **Subscopes, RuleSetBuild.** Rule names are sequences, so that the synthetic
  name `a/1` is `a` with `1` appended, and a user can write it too.
* **Drivers.** A sample is a tree of scope instances, each with its features.
  One action matches one function (in any order: `AnalyzeFunction`) or one
  process (in order: `AnalyzeProcess`); the order of a hash map is a choice of
  the action. `try_map` is used through its contract.
* **CodeFlow, Recovery.** What lies at an address is decoded once into a record
  (flow kind, length, operands), so two instruction streams may overlap as in
  memory. `walk` holds the locals of `discover_flow`, `main` those of
  `recover_functions`; one action is one turn of one of their loops, with
  everything the turn calls. Loops whose order nobody can observe are sets
  (which delayed branches are promoted), and iteration over a `BTreeSet` is a
  sequence given by rank (`Ascending`). The machine state of a candidate's path is cut
  down to one register here; the whole machine is `Emulator`'s subject.
* **Emulator, Cpu.** A byte has two bits, so that a register of eight bytes
  stays small and every carry, sign and overflow still happens. The mask of
  known bits is a set of whole bytes in the code, so a register is a function
  from byte positions to bytes or `None`. `Cpu` computes with ordinary
  arithmetic on whole numbers; it shares the operand syntax and the results of
  single operations on known values (`Binary`, `Unary`) with `Emulator`, and
  nothing of the bookkeeping of what is known.
* **Loader, Seeds.** A file is its bytes and the headers that `goblin`
  (external) parsed. Addresses wrap, saturate or overflow at `Limit` as they do
  at `u64::MAX`. Errors are `None`: which one it was matters to no property.
* **ElfOs.** Contents are cells; a text is the set of the fragments it
  contains, as `contains` and `find_subslice` look at it.
* **Flirt.** Checksums, tails and footers (`lancelot`, external) are a
  predicate on the bytes behind a pattern.
* **Analysis.** An input says what it looks like, which phases fail on it and
  what each database knows of it. The `OnceLock` is three states (unset,
  loading by a caller, ready with a value or an error).
* **ResultDocument.** A tree keeps what the question "is it explained" needs:
  success, the node, its children. Locations and captures are not copied.

## 3. Runs

| run | instance | result |
|---|---|---|
| `try_map` | up to 3 jobs, up to 4 items, each ok, failing or panicking | 109,728 states. `ResultIsSerial`, `ExactlyOnce` hold, the call `Terminates`, and `ImplementsContract` |
| `engine` | bodies up to three levels over string, substring and two byte features (one a prefix of the other), feature sets of up to 2 entries at 2 addresses | 384,175 states. `PassesAgree` (the boolean pass is the short-circuit one, and both agree with the full one except below an empty `optional`), `OptimizerPreservesOutcome`, `IndexIsSound`, `OutcomeIgnoresInsertionOrder` |
| `match_scope` | every list of three rules from 11 bodies, inputs with and without promoted matches | 49,396 states. `MatchesLikeLinear`, `FailsLikeLinear` |
| `rule_graph` | two and three rules, four names, one nested namespace, any references | 57,801 states. `DependencyFirst`, `OrdersEveryRule`, `CycleIsReal`, `Terminates` |
| `rule_set_build` | three rules with nested subscopes, known, empty and unknown COM names, references by name and namespace | 17,548 states. `OnlyRootSubscopes`, `ListsAreDependencyFirst` (and complete), `LoadOrderIrrelevant` |
| `static_driver` | three rules at file, function, basic block and instruction scope; files with up to two functions, one with a shared block, both hash orders | 5,116 states. `MatchesMeanTheRules`, `EvidenceIgnoresHashOrder`, `SameAsSerial`, `DocumentExplains` (it builds, and every reference is explained) |
| `span_of_calls` | windows of 2 over threads of 4 calls, one of which repeats a global feature at its own address | 4,100 states. `LiveUnion`, `RecordsStarts`; `RunIsRecorded` follows (a theorem) |
| `dynamic_driver` | rules at call, span, thread, process and file scope, windows of 2 | 3,968 states. `MatchesMeanTheRules`, `DocumentExplains` |
| `recovery` | every program of three free slots (12 instructions each: calls, jumps, branches, returns) in front of a no-return import thunk, a loop and a function that calls back, natively and in compatibility mode; and one image for each mechanism: tables, switches of every form, adjacent tables, relocated and scanned pointers, typed slots that are executed, callbacks, stubs, locals, fragments, cookies, overlapping starts, nested waits | 149,310 states. `CallGraphIsClosed`, `NothingIsLost`, `CutCallsMatchTheSet`, `DecisionsAreFinal`, `NativeBlocksAreSound`, `NobodyIsLeftWaiting`, `TypedLocationsAreDisjoint`; recovery `Terminates` |
| `analysis` | two callers with every kind of request, a good and a bad bundle, a custom path edited once; or one phase: PE, ELF, Mach-O and shellcode files of a few dozen bytes at most with headers that lie, ELF files with each clue and each damage, runs of three instructions on four machines, programs of a few functions with nine signatures in several files | 294,117 states. `LoadedBytesAreTheFile`, `SeedsAreSound`, `ElfEvidenceIsFound`, `EmulatorIsSound`, `LibraryNamesAreJustified`, `SameAsAlone`, `EveryAnalysisEnds` |

Type invariants of the proved modules are theorems or parts of their inductive invariants and not spent as
properties of a run. Every property of a passing run is broken by a mutant that
a plausible slip would produce (`PROJECT.json`, "mutants").

What the properties of the two large runs say:

* `CallGraphIsClosed`, `NothingIsLost`: whatever a walked instruction calls in
  executable memory is a function at the end, and so is every start that was
  taken from the queue and every executable extent a walk has captured, unless a
  budget was hit and a diagnostic says so. Exceptions are what the code does:
  functions that a walk left waiting for good (below) stay out, even when a
  later walk completes them; a callee whose extent is beyond the limits is only
  noted (`TooLarge`); a start that only a pattern supports and that was popped
  when its bytes were walked already is not brought back by the Go wave, nor by
  a call that a walk of the import-call wave returned (`PassedOver`; two history
  fields of `main` record both events: `skipped`, the patterns popped in walked
  code, and `waved`, the calls of that wave's walks); and calls that no walk
  recorded, because their bytes lie inside another instruction, do not count.
* `CutCallsMatchTheSet`: the sweep that is published used the no-return set
  that is published, also when the passes end at their limit.
* `DecisionsAreFinal`: within a pass nothing that happens later, a retyped
  pointer, a split table or a deleted location, takes a function out of the
  no-return set or brings a cut call back.
* `NativeBlocksAreSound`: edges end at blocks of the function, and no
  instruction is in two blocks unless the function runs over the same bytes in
  two ways.
* `NobodyIsLeftWaiting`: functions delayed behind an active ancestor are
  finished before the walk ends. The exception is two levels of waiting: a
  function that was itself released does not release those that wait for it
  (`recovery.rs:2320` says so), and neither does the root of loose code; both
  stay without an extent.
* `TypedLocationsAreDisjoint`: the two lists that `pointers.rs` searches by
  bisection stay sorted, disjoint and maximal, whatever is typed and cut.
  Typing and executing a range may coexist: a pointer that an instruction reads
  is typed even where an instruction starts inside it.
* `EmulatorIsSound`: whatever is known in the abstract machine has that value
  in every machine it stands for. Those are not all machines that have the known
  values: the code follows the reference emulator, whose unknown pointers are
  taints off every map. So a load through an unknown address yields the taint
  byte as a *known* value (`emucode.rs:223-226`), a store or push through one is
  dropped (`246-250`), and an unknown repeat counter counts as not zero (`731`).
  A run ends before the first instruction for which that is not so on its
  machine (`Departs`); for a pointer into the stack behind an unknown register,
  `push ax; leave; mov ax, [sp]` for example, the property claims nothing, and
  without `Departs` TLC finds it violated. Each run has one of four machines:
  two valuations, in each of which every register has another value (pointers
  off the stack; or pointers into it, and a counter that is zero), times two
  settings of the flags.
* `LibraryNamesAreJustified`: the prefix index finds what a scan finds, a name
  has a matching signature whose references are met and no rival, and a
  function's tail blocks are those its jumps reach.
* `ElfEvidenceIsFound`: each sample is built around one strongest clue or one
  symbol table, with other structures damaged or weaker clues added; the
  builder knows the answer.
* `SameAsAlone`: `Alone` is written as one expression over the request, not as
  phases.

What the instances leave out, beside what section 5 names: results of the pool
are sets of indices, so its final sort by index (`parallel.rs:210`) is not
exercised. A delta of `LC_FUNCTION_STARTS` of ten groups has 70 bits, of which
the code keeps 64; the model cuts off too (`DeltaAt`), but with its six-bit
words three groups fill a word exactly and nothing is lost. No ELF sample has a
section whose end overflows and so ends the search for the string table.
`LibraryNamesAreJustified` asks that a name has a signature and no rival, not
which of two databases that agree is credited.

Why the bounds are enough to be interesting: three workers and four items are
the least with an idle worker, a second failure behind the first, and an item
never claimed; a window of two over four calls slides twice, and a run of
matches may end and start again; three rules are the least with a dependency, a
dependent and a rule between them, and the least for a cycle that is not the
first rule's; two functions are the least for which order exists. Three free
slots of code are enough for a call over a call, a call that becomes
no-return in the second pass, and a jump into the middle of a function; budgets
(`MaxFunctions` 4, `MaxInsns` 6, `MaxSteps` 8, `MaxPasses` 3) are small enough
to be hit and large enough that most programs stay below them. Two callers are
the least for the cache; more would only wait. Three instructions are the least
for a value that is set, partly overwritten and then used. Files have two
sections, the least for which they can overlap or leave a gap.

Two runs show a sentence of the repository that the code does not keep. They
are worded after that sentence, and TLC's counterexample is what the code does.

| run | property | what happens |
|---|---|---|
| `engine_assert` | `FullPassAgrees` | `not` over an empty `optional` passes the boolean pass and fails the full one: the debug assertion of `ruleset.rs:145` fires |
| `other_slice` | `SeedsAreSound` | with `--arch` for a slice that is not the first, the image is that slice's and the seeds are the first's (`recovery.rs:1107`) |

### Observations

Found while modelling; not runs, because they are no more than a reader needs
to know to read the properties.

* A later item may panic while an earlier one fails: the pool then panics where
  the serial loop returns the error (`parallel.rs:191`; the comment at 129-132
  asks for identical surfacing). `ResultIsSerial` is about calls without a
  panic.
* A body that *is* a subscope statement is never extracted (`ruleset.rs:521`),
  and evaluating it ends in `UnextractedSubscope`, which `engine.rs:101-103`
  calls a driver bug. `OnlyRootSubscopes` says it is the only case.
* Span matches are not promoted (`dynamic_analysis.rs:178`), so a thread or
  process rule with a `span of calls` subscope, which `grammar.rs:158` calls
  supported, never matches. `MatchesMeanTheRules` leaves those rules out.
* A reference to a namespace at a call takes the thread fallback for each rule
  of the namespace, so the document may also show an older match of a rule that
  did not match there. A document cannot be built when a rule bears the name of
  a namespace other rules are in (`HasAmbiguousName`): the leaf is published
  for the namespace and looked up as the rule.
* A user rule called like a synthetic one (`a/1`) replaces it or is replaced.
* A call target that a *fragment* reaches and only heuristics knew is not
  queued again (`recovery.rs:947`, against 640-661): it stays a seed. The
  comment at `importcalls.rs:14-15` expects a function.
* The Go wave seeds what the runtime names as its main function
  (`recovery.rs:751-757`) but queues it only if it was no seed before. One that
  a pattern had found and the loop had passed over stays a seed, though
  `golang.rs:5-8` expects a function; the comment at `recovery.rs:873-879` shows
  how the cookie wave avoids it.
* A pass may also *remove* functions from the no-return set, since the views it
  is computed from are those of another sweep; `noreturn.rs:75-78` says each
  pass only adds. The passes end because they are counted.
* Natively, a cut call whose next instruction is reached otherwise keeps its
  fall-through edge.
* An ELF relocation whose addend is zero seeds the image base
  (`recovery.rs:1610-1616`). `bytes_at` returns an empty slice just past the
  backed bytes, so that address counts as executable. Where two maps overlap, a
  signature seed may lie in memory that the other map makes non-executable.
  Mapped ELF bytes are not counted against the limit as PE's are.
* `apply_name` may overwrite a name that was recognised before
  (`flirt.rs:922-966`).
* The emulator runs a repeated string instruction once, as the reference it
  follows does, and `hooked_call_return` reads the fill value where the slot is
  unmapped.
* `api.rs:455-462` says `auto` takes the first `x86_64` slice; the code takes
  the first supported one. The head comment of `elf_os.rs` puts the ident
  directive third; `detect_elf_os` tries it tenth. `sh_link` is narrowed to 16
  bits and not compared with the number of sections.

### Fairness and deadlock

`FairSpec` of `TryMap` has weak fairness of the caller and of each worker: they
are operating-system threads that are eventually scheduled, and no step waits
except `join`. `FairSpec` of `RuleGraph` has weak fairness of `Next`: it is
one sequential call. `Recovery` is one sequential loop as well: its fairness
says that it goes on taking steps until it is done. `Analysis` has weak
fairness of each caller: callers are threads, and one that waits for the
`OnceLock` waits only for another caller that is itself scheduled. The other
specifications check safety only. All have a stuttering step for a call that
has returned, so a deadlock would be a call that cannot go on; `engine` alone
switches the check off, because its feature sets stop growing at the bound
`MaxEntries`.

## 4. Theorems

All are for every value of the constants, under the named assumptions of the
modules, which TLC evaluates in the runs.

* **The pool** (`TryMapProofs`). `Inv` says that the indices below the cursor
  are exactly the ones workers hold, each held once; a held index has the
  verdict of `f`; a worker ends only after a recorded failure or past the last
  item; and the joiner has passed only ended workers. The last but one is what
  makes the result serial: if index `i` fails first, everything below `i` was
  claimed before it and the workers that claimed it have recorded their
  verdicts by the join. From it: `TypeCorrect`, `Determinism`,
  `EachItemOnce`, `ScopeClosed`, and `Refinement`, where each step that sets
  `result` is the `Return` of the contract and all others stutter.
* **The engine, its index and the optimizer** (`EngineProofs`). For every set of
  bodies (`TreesAreBodies`: what the grammar and the construction of the rule
  set leave, subscopes only at the root and COM leaves expanded), every relation
  between queries and values, and every feature set that insertions and merges
  build (`TypeCorrect`). All four properties of the run are about recursions
  over a body, so they need an induction over statements.
  There is one, without an operator as a parameter: `UpTo` is induction over an
  interval for a *set* of numbers (a set of counterexamples has a least
  element), `LateGenerations` counts the generations of a body from its leaves,
  and `BodyInduction` concludes that a *set* that takes in every statement whose
  children it has contains all of the body. The same argument shows that the
  recursive functions exist (`TableExists`), so that their equations may be
  unfolded (`OutcomesAre`, `FoundAre`, `RequirementsAre`, `CostsAre`,
  `ReorderedAre`). What one call computes is then stated once: `Holds` is the
  verdict on a statement in terms of the *set* of its children that match, and
  `StepHolds` and `EvaluateHolds` show that the boolean loops, the
  short-circuiting loops (which look at a prefix: `EvalUntilCuts`, `CutCounts`)
  and the full pass all come to it. From there:
  `PassesComeToOneOutcome` is `PassesAgree`; `IndexLosesNoMatch` is
  `IndexIsSound`, by `ClosedDoesNotMatch` (a statement none of whose alternatives
  is opened by a present key does not match) and `AnchorIsOne` (`max_by_key`
  returns one of the indexable children); `OptimizerIsInvisible` is
  `OptimizerPreservesOutcome`, by `SortIsPermutation` (each child has one rank
  among costs and indices) and `HoldsForReordered`;
  `InsertionOrderIsIrrelevant` is `OutcomeIgnoresInsertionOrder`, since a call
  looks at the entries as a set (`SameEntries`).
* **The scope matcher** (`MatchScopeProofs`). Assumes `IndexSound` (a rule that
  would match or fail is selected; of the real index this is
  `IndexLosesNoMatch`) and `PublishedExact`. `Inv` says that behind the
  current position every decision was the linear one, and that ahead of it the
  candidates are exactly the positions the *current* keys select: the part
  that would break if publishing activated too little. `IndexedIsLinear`,
  `IndexedFailsLinear`.
* **The rule graph** (`RuleGraphProofs`). `Inv` ties marks, order and stack
  together: a stacked rule reaches those above it, and what it depends on is
  ordered, left in its loop, or the next frame. `OrderIsDependencyFirst`,
  `OrderIsComplete`, `CyclesAreExact`, `NoMissingRuleInSearch`.
* **The span matcher** (`SpanOfCallsProofs`). Assumes that a location other
  than `NoAddress` belongs to one call and that global features are in every
  call, as `find_call_capabilities` seeds them. `Inv`: the window is the
  trailing calls, the union is theirs, `last` is what matched at the last call.
  `WindowIsLive`, `StartsAreRecorded`, `RunsAreRecorded`.

* **Callers of `analyze`** (`AnalysisProofs`). `Inv` says of each caller in
  which phase of its pipeline it is, that none of the phases behind it refused
  the input, and that what it has gathered is what those phases give for its own
  request and one set of databases: the bundle's, or a content of the custom
  path that it could have read (the history variable `seen`). The phases are
  needed because `Alone` is one expression over the request and does not know
  them. `CallersDoNotInterfere` is `SameAsAlone`; `EmbeddedOnce` says that one
  caller at a time initialises the embedded signatures and that the value,
  an error included, is never replaced.
* **Code recovery** (`RecoveryProofs`). Assumes of an image only that it has its
  fields, that its code is in its memory and that a decoded instruction has bytes
  (`ImagesAssumption`). At the end the
  cuts must agree with the *published* set, but during a pass that set does not
  exist yet, natively the set of the next pass is computed from this one, and in
  compatibility mode the set grows under suspended walks. So `Inv` says which
  set a walk is taken under (`graph.known`, natively the set the pass began
  with: `NativeSet`), that every cut call is a call into it
  (`CutsAreJustified`), that natively every recorded call into it is cut
  (`CutsAreComplete`), and that the published set is that one
  (`SetIsPublished`). Every step of a walk or of the loop but the first and last
  of a pass satisfies `Keeps`: the set grows and natively does not change, cuts
  are added only for calls into it, and a new instruction that calls into it is
  cut at once. The views, candidates, jump tables and emulated paths are never
  expanded in the proof, so it holds whatever they compute. `CutCalls` is
  `CutCallsMatchTheSet`, `Decisions` is `DecisionsAreFinal`.
* **The queue of code recovery** (also `RecoveryProofs`). `NothingIsLost` speaks of the
  end; on the way there a function whose extent a walk captured may be in
  several places, and `CapturedIsKept` lists them: it was started, it waits for
  good, the current walk will return it as a callee, or it is queued. Being
  queued is not enough, since the loop passes over starts that only patterns
  support; so a queued callee must also have a seed of kind `call`
  (`Queued`), which no step takes away while a sweep lasts. This is what the requeue rule of
  the code is for (`recovery.rs:640-661`): with the rule that only new starts
  are queued, the proof of `PromoteQueues` fails. The other parts carry this
  over the steps. `DueIsReturned`: what a walk has still to finish, be it on its
  stack or delayed, was started or is among the callees that the walk returns.
  `LooseIsKnown`: a walk of loose code starts at no function, so that its root
  need not be returned. `ToldIsNoted` ties the budget to its diagnostic, and
  `EndsEmpty` says that a sweep ends with an empty queue, early or not.
  `WalkOwes` shows of every turn of a walk, `TurnKeepsQueue` of every turn of
  the loop, that no function leaves these places. `Nothing` is `NothingIsLost`.
  Again nothing is assumed of what the analyses of a function compute.
* **Native blocks** (also `RecoveryProofs`). Here the view of a function is
  expanded, and the last part of `ImagesAssumption` is needed: a decoded instruction has
  bytes. `NInv` says what the views are built from. `NativeSweep`: a native
  sweep discovers no pointers and keeps no extents, so its walks consist of
  paths, and whatever they record is executable, decoded and has a list of edges
  (`CodeIsOrderly`). A block goes on to higher addresses only, hence the
  recursive function that collects it exists (`BlocksAre`), and every block is a
  chain (`BlocksAreChains`, by counting down from the last address): each
  instruction but the first begins where another of the block ends and is no
  start, and its edges lead to reachable starts. If two blocks share
  instructions, take the least of those (`ChainsAreApart`): it begins neither
  block, so in each an instruction ends where it begins; if the two are the
  same, they share a lesser one, and otherwise they overlap. `NativeBlocks` is
  `NativeBlocksAreSound`.
* **The call graph** (`RecordProofs`). `CallGraphIsClosed` needs the whole way
  from an instruction to a function, and `CInv` has one part for each piece of
  it. `CallsAreNoted`: the target of a walked call is among the callees that the
  walk returns, or is seeded as a call, or the instruction is suspended on a
  pointer and its edges are still to come (`Awaits`). `SeedsAreTaken`: an
  executable seed is held by a walk, waits, is finished, too large, started or
  queued, unless it is a pattern that the loop popped in walked code and that
  nothing but a pattern supports (`Shelved`), or was passed over. A step that
  seeds such a pattern as a call or for the Go wave must therefore queue it, or
  be one of the two that `PassedOver` names; the history fields only grow within
  a pass (`Marks`). `OrderIsHeld`: what was finished once is held, so that an
  instruction that reads a pointer to it may go on without a walk of its own. A
  finished function loses its extent again when calling analysis finds arms of a
  switch; `CallsSettle` shows that it is then on the stack to be finished anew.
  The first queue has every seed (`InitialQueueHasAll`, by counting: priority,
  root order and address give each seed a place of its own). `CallGraph` is
  `CallGraphIsClosed`.
* **Typed locations** (also `RecordProofs`). Here everything that types or cuts
  a location is expanded. Assumes of an image (`LocationsAssumption`) that its
  strings, paddings and relocated slots are in its memory with a length, that an
  operand's size is a number, and that its operand, if it has one, and the table
  of a dispatch are addresses, possibly outside memory; of the limits that they
  are numbers (`ViewsAssumption` and the like). An insertion (`SpliceKeeps`) keeps the list
  if what is put in is apart from what stays, which the bisection guarantees
  only for a list that was one before and for an interval that is not empty;
  cutting out an executed instruction (`MarkCode`) leaves at most two
  remainders, apart from each other by the bytes of the instruction. So `TInv` must know
  where every interval comes from: discovery holds interval lists and pointers
  that have bytes, and its scans left only addresses (`IsDiscovery`); the tables
  of a function are slots with a size (`AreTables`), because their locations are
  typed when the function is finished, long after the jump was read; what was
  walked is decoded (`IsDecoded`), because each instruction is collected again
  by a later scan; and the suspended tasks of a walk carry addresses
  (`AreSteps`). Lists that the code works off one by one are folds, so
  `FoldsExist` and `FoldSteps` show once, by counting, that the function which
  defines a fold exists and takes its steps in order; `CollectionKeeps`,
  `TablesKeep` and `FinishLocates` follow by the same counting. `TypedLocations`
  is `TypedLocationsAreDisjoint`.

Only model-checked: liveness (`Terminates`, `EveryAnalysisEnds`); what the
recursive operators of `Subscopes`, `ScopeMatching` and `ResultDocument`
compute, hence all properties of the runs `rule_set_build`, `static_driver` and
`dynamic_driver`; and what loaders, seed scans, the emulator and signatures
compute from a file, hence the properties of `analysis` about one phase.
`NobodyIsLeftWaiting`, about one walk, is not proved either. An invariant for it
ties every function that is waited for to a task that will finish or release it,
and needs that a function which waits was not finished before. That is open for
a function too large for an extent: it is never `completed`, so a pointer may
lead to it again, and if a retyped location or the arms of a switch then make it
wait, its second release announces nothing (`released`). No image of the run
`recovery` violates the property.

## 5. Not modelled

Instruction decoders (tables over bytes) and the feature extractors behind them
(functions of one instruction or of one finished function's graph, without
state); renderers, the CLI and the bindings; serialisation, of which `Analysis`
sees whether it parses. Of the loaders, file features such as exports and
strings. Of the result document, layout. Of the grammar, everything but the
validity of subscopes. Of matching, what a regular expression or byte pattern
accepts. Of the entry point, the tag filter of rules and timings.

## 6. Plan

Done: everything in section 2.

Theorems worth proving next, in this order:

1. `Recovery`: a walk leaves nobody waiting for a function that it finished, or
   an image on which a function too large for an extent does.
2. `CodeImage`: the lists of typed locations also cover what was typed and not
   executed, not only that they are lists that bisection may search.
3. `Loader`: `MappedRegion` and `BytesAt` for every file and section, as lemmas
   about operators.
4. `RuleSetBuild`: every rule taken from the stack is finished once.

Left to model, if ever: the tag filter (is what it keeps closed, so that
`RuleSet::new` accepts it?), the layout of the document, and the scope tables
of the grammar against the scopes at which the extractors emit a feature.
