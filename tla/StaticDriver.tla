---------------------------- MODULE StaticDriver ----------------------------
(***************************************************************************)
(* capa-x/src/capabilities/static_analysis.rs: find_static_capabilities.   *)
(* The functions are matched by the workers of try_map in any order, each  *)
(* one bottom-up from its instructions to its basic blocks to itself; then *)
(* their matches are merged in address order, the file is matched, and the *)
(* result document is built (api.rs runs both).                            *)
(*                                                                         *)
(* try_map is its contract (MapContract, which TryMap implements): every   *)
(* function is analysed once, or the call fails with the error of the      *)
(* first function that fails.                                              *)
(***************************************************************************)
EXTENDS ResultDocument

CONSTANTS
    RuleSets,       \* lists of user rules that RuleSet::new accepts
    Files,          \* file instances with functions, basic blocks, instructions
    Globals         \* lists of global features

VARIABLES
    userRules,      \* the rules, as parsed
    set,            \* the MatchingRuleSet built from them
    file,           \* the freeze: the tree of scope instances
    global,         \* the global features
    perFunction,    \* the result of each function analysed so far
    matches,        \* merged matches
    counts,         \* function_feature_counts
    document,       \* the rules of the result document
    status          \* "code", "file", "done", "documented", "function error",
                    \* "file error" or "document error"

vars == <<userRules, set, file, global, perFunction, matches, counts, document, status>>
input == <<userRules, set, file, global>>

Functions == DOMAIN file.kids

Init ==
    /\ userRules \in RuleSets
    /\ set = Prepared(userRules)
    /\ file \in Files
    /\ global \in Globals
    /\ perFunction = [f \in {} |-> <<>>]
    /\ matches = NoMatches
    /\ counts = <<>>
    /\ document = NoMatches
    /\ status = "code"

\* find_instruction_capabilities.
FindInstruction(insn, hash) ==
    MatchAndPromote(set, "instruction", Seed(<<>>, insn.features, global), insn.addr, hash)

\* Mutant: the block is matched on its own features alone.
FindBasicBlock_NoMerge(bb, hash) ==
    LET gather(acc, r) == [matches |-> ExtendMatches(acc.matches, r.matches), error |-> acc.error \/ r.error]
        block(insns, r) == [fs |-> r.fs, matches |-> r.matches,
                            insns |-> insns.matches, error |-> insns.error \/ r.error]
    IN  block(FoldLeft(LAMBDA acc, insn : gather(acc, FindInstruction(insn, hash)),
                       [matches |-> NoMatches, error |-> FALSE], bb.kids),
              MatchAndPromote(set, "basic block", Seed(<<>>, bb.features, global), bb.addr, hash))

\* find_basic_block_capabilities.
FindBasicBlock(bb, hash) ==
    LET gather(acc, r) == [fs |-> MergeSets(acc.fs, r.fs),
                           matches |-> ExtendMatches(acc.matches, r.matches),
                           error |-> acc.error \/ r.error]
        block(insns, r) == [fs |-> r.fs, matches |-> r.matches,
                            insns |-> insns.matches, error |-> insns.error \/ r.error]
        match(insns) == block(insns, MatchAndPromote(set, "basic block",
                                         Seed(insns.fs, bb.features, global), bb.addr, hash))
    IN  match(FoldLeft(LAMBDA acc, insn : gather(acc, FindInstruction(insn, hash)),
                       [fs |-> <<>>, matches |-> NoMatches, error |-> FALSE], bb.kids))

\* find_code_capabilities: function matches are not promoted here.
FindCode(fn, hash) ==
    LET gather(acc, r) == [fs |-> MergeSets(acc.fs, r.fs),
                           matches |-> ExtendMatches(acc.matches, r.matches),
                           insns |-> ExtendMatches(acc.insns, r.insns),
                           error |-> acc.error \/ r.error]
        function(bbs, m) == [functions |-> m.matches, bbs |-> bbs.matches, insns |-> bbs.insns,
                             count |-> m.count, error |-> bbs.error \/ m.error]
        match(bbs) == function(bbs, MatchScopeResults(set, "function",
                                        Seed(bbs.fs, fn.features, global), fn.addr))
    IN  match(FoldLeft(LAMBDA acc, bb : gather(acc, FindBasicBlock(bb, hash)),
                       [fs |-> <<>>, matches |-> NoMatches, insns |-> NoMatches, error |-> FALSE],
                       fn.kids))

\* A worker analyses function f.  The seed of its hash maps is its own.
AnalyzeFunction(f, hash) ==
    /\ status = "code"
    /\ f \notin DOMAIN perFunction
    /\ perFunction' = [g \in DOMAIN perFunction \union {f} |->
                          IF g = f THEN FindCode(file.kids[f], hash) ELSE perFunction[g]]
    /\ UNCHANGED <<input, matches, counts, document, status>>

\* try_map returns an error: a function failed, and every function before it
\* succeeded.
FailFunction(f) ==
    /\ status = "code"
    /\ f \in DOMAIN perFunction /\ perFunction[f].error
    /\ \A g \in 1 .. f - 1 : g \in DOMAIN perFunction /\ ~perFunction[g].error
    /\ status' = "function error"
    /\ counts' = <<file.kids[f].addr>>
    /\ UNCHANGED <<input, perFunction, matches, document>>

\* All matches of one field, merged in the order of the functions.
Merged(order, field) ==
    FoldLeft(LAMBDA acc, f : ExtendMatches(acc, perFunction[f][field]), NoMatches, order)

\* Mutant: the results are merged from the last function to the first.
MergeOrder_LastFirst == [i \in Functions |-> Len(file.kids) + 1 - i]

\* `functions.iter().zip(per_function)`: address order.
MergeOrder == [i \in Functions |-> i]

\* The loop over per_function.
MergeFunctions ==
    /\ status = "code"
    /\ DOMAIN perFunction = Functions
    /\ \A f \in Functions : ~perFunction[f].error
    /\ counts' = [f \in Functions |-> <<file.kids[f].addr, perFunction[f].count>>]
    /\ matches' = [insns |-> Merged(MergeOrder, "insns"),
                   bbs |-> Merged(MergeOrder, "bbs"),
                   functions |-> Merged(MergeOrder, "functions")]
    /\ status' = "file"
    /\ UNCHANGED <<input, perFunction, document>>

\* The rest of find_static_capabilities: publish what matched below the file,
\* match the file, put all matches together.
MatchFile(hash) ==
    /\ status = "file"
    /\ LET promote(fs, scope) == PromoteAll(set, fs, matches[scope], hash)
           lower == promote(promote(promote(<<>>, "insns"), "bbs"), "functions")
       IN  \E r \in {FindFileCapabilities(set, file, global, lower)} :
           \/ /\ r.error
              /\ status' = "file error"
              /\ UNCHANGED matches
           \/ /\ ~r.error
              /\ matches' = ExtendMatches(ExtendMatches(ExtendMatches(
                                matches.insns, matches.bbs), matches.functions), r.matches)
              /\ status' = "done"
    /\ UNCHANGED <<input, perFunction, counts, document>>

\* build_result_document on the matches.
BuildDocument ==
    /\ status = "done"
    /\ \E rules \in {BuildResultDocument(set, matches)} :
           \/ /\ IsMissing(rules)
              /\ status' = "document error"
              /\ UNCHANGED document
           \/ /\ ~ IsMissing(rules)
              /\ status' = "documented"
              /\ document' = rules
    /\ UNCHANGED <<input, perFunction, matches, counts>>

Returned ==
    /\ status \in {"documented", "function error", "file error", "document error"}
    /\ UNCHANGED vars

Next ==
    \/ \E f \in Functions, hash \in HashOrders : AnalyzeFunction(f, hash)
    \/ \E f \in Functions : FailFunction(f)
    \/ MergeFunctions
    \/ \E hash \in HashOrders : MatchFile(hash)
    \/ BuildDocument
    \/ Returned

Spec == Init /\ [][Next]_vars

-----------------------------------------------------------------------------
(* Properties.                                                             *)

\* A rule matches exactly where its body holds, however its subscopes were
\* cut out into rules of their own, in which order the rules of a scope run,
\* and how matches travel from a narrow scope to the wide ones.
MatchesMeanTheRules ==
    status = "done" => \A i \in DOMAIN userRules :
        MatchAddrs(matches, userRules[i].name) = Meaning(userRules[i], file, userRules, global)

\* What a worker computes does not depend on the order of its hash maps,
\* evidence included.
EvidenceIgnoresHashOrder ==
    \A f \in DOMAIN perFunction : perFunction[f] = FindCode(file.kids[f], "ascending")

\* The loop over the functions and the merge, one function after the other.
Serial ==
    LET failing(results) == {f \in Functions : results[f].error}
        all(results, field) == FoldLeft(LAMBDA acc, r : ExtendMatches(acc, r[field]), NoMatches, results)
        outcome(results) ==
            IF failing(results) # {}
            THEN [status |-> "function error", counts |-> <<file.kids[Min(failing(results))].addr>>]
            ELSE [status |-> "done",
                  below |-> ExtendMatches(ExtendMatches(all(results, "insns"), all(results, "bbs")),
                                          all(results, "functions")),
                  counts |-> [f \in Functions |-> <<file.kids[f].addr, results[f].count>>]]
    IN  outcome([f \in Functions |-> FindCode(file.kids[f], "ascending")])

\* "the merge, the short-circuit evidence it carries, and the resulting
\* document are identical to the serial run": matches below the file, their
\* order and their evidence, the feature counts, and the error that is
\* reported.
SameAsSerial ==
    status \in {"function error", "done"} => \A serial \in {Serial} :
        /\ serial.status = status
        /\ serial.counts = counts
        /\ status = "done" =>
             \A name \in DOMAIN serial.below : IsPrefix(serial.below[name], matches[name])

\* The document is built whenever no rule bears the name of a namespace: every
\* location a `match:` leaf reports is one at which the rule was recorded.  It
\* explains every match down to the features.
DocumentExplains ==
    ~ HasAmbiguousName(userRules) =>
        /\ status # "document error"
        /\ status = "documented" =>
             \A name \in DOMAIN document : \A i \in DOMAIN document[name] :
                 IsExplained(document[name][i].tree)
=============================================================================
