--------------------------- MODULE DynamicDriver ---------------------------
(***************************************************************************)
(* capa-x/src/capabilities/dynamic_analysis.rs: find_dynamic_capabilities. *)
(* The processes are matched one after the other, each bottom-up from the  *)
(* calls over the spans of calls to the threads to itself; then the file   *)
(* is matched and the result document built.                               *)
(*                                                                         *)
(* The span matcher works on the insertion-ordered feature sets here.      *)
(* SpanOfCalls shows for every window size what it records.                *)
(***************************************************************************)
EXTENDS ResultDocument

CONSTANTS
    SpanSize,       \* SPAN_SIZE
    RuleSets,       \* lists of user rules that RuleSet::new accepts
    Files,          \* file instances with processes, threads and calls
    Globals         \* lists of global features

VARIABLES
    userRules,      \* the rules, as parsed
    set,            \* the MatchingRuleSet built from them
    file,           \* the freeze: the tree of scope instances
    global,         \* the global features
    matched,        \* all_call_matches, all_span_matches, ...: by scope
    counts,         \* process_feature_counts
    matches,        \* the matches of all scopes
    document,       \* the rules of the result document
    status          \* "processes", "done", "documented", "error" or
                    \* "document error"

vars == <<userRules, set, file, global, matched, counts, matches, document, status>>
input == <<userRules, set, file, global>>

NoneMatched == [calls |-> NoMatches, spans |-> NoMatches, threads |-> NoMatches, processes |-> NoMatches]

Init ==
    /\ userRules \in RuleSets
    /\ set = Prepared(userRules)
    /\ file \in Files
    /\ global \in Globals
    /\ matched = NoneMatched
    /\ counts = <<>>
    /\ matches = NoMatches
    /\ document = NoMatches
    /\ status = "processes"

\* find_call_capabilities.
FindCall(call, hash) ==
    MatchAndPromote(set, "call", Seed(<<>>, call.features, global), call.addr, hash)

-----------------------------------------------------------------------------
(* SpanOfCallsMatcher.                                                     *)

NewSpanMatcher == [window |-> <<>>, current |-> <<>>, last |-> {}, matches |-> NoMatches, error |-> FALSE]

\* current_features without the locations of the overflowing call; a feature
\* at NoAddress alone stays.
Without(fs, old) ==
    LET gone(e) == IF Locations(old, e.feature) = {NoAddress} THEN {} ELSE Locations(old, e.feature)
        rest == [i \in DOMAIN fs |-> [fs[i] EXCEPT !.locs = @ \ gone(fs[i])]]
    IN  SelectSeq(rest, LAMBDA e : e.locs # {})

\* What is dropped of the matches of a window: the names that matched on the
\* previous one, unless a new match depends on them.
Suppressed(last, now) ==
    last \ UNION {Dependencies(set.rules, ByName(set.rules, r).body) : r \in now \ last}

\* SpanOfCallsMatcher::next.
SpanNext(st, addr, fs) ==
    LET isFull == Len(st.window) = SpanSize
        kept(found, dropped) == [name \in DOMAIN found \ dropped |-> found[name]]
        record(current, m) ==
            [window |-> Append(IF isFull THEN Tail(st.window) ELSE st.window, fs),
             current |-> current,
             last |-> DOMAIN m.matches,
             matches |-> ExtendMatches(st.matches, kept(m.matches, Suppressed(st.last, DOMAIN m.matches))),
             error |-> st.error \/ m.error]
        match(current) == record(current, MatchScopeResults(set, "span of calls", current, addr))
    IN  match(MergeSets(IF isFull THEN Without(st.current, Head(st.window)) ELSE st.current, fs))

-----------------------------------------------------------------------------

\* The loop over the calls of a thread: the features and matches of the calls
\* and the span matcher that is fed with each of them.
FindCalls(thread, hash) ==
    LET gather(acc, call, r) == [fs |-> MergeSets(acc.fs, r.fs),
                                 matches |-> ExtendMatches(acc.matches, r.matches),
                                 spans |-> SpanNext(acc.spans, call.addr, r.fs),
                                 error |-> acc.error \/ r.error]
    IN  FoldLeft(LAMBDA acc, call : gather(acc, call, FindCall(call, hash)),
                 [fs |-> <<>>, matches |-> NoMatches, spans |-> NewSpanMatcher, error |-> FALSE],
                 thread.kids)

\* What a thread returns from its calls and its own matches.
ThreadResult(calls, r) ==
    [fs |-> r.fs, matches |-> r.matches, spans |-> calls.spans.matches, calls |-> calls.matches,
     error |-> calls.error \/ calls.spans.error \/ r.error]

\* Mutant: the thread does not see the features of its calls.
FindThread_OwnFeatures(thread, hash) ==
    ThreadResult(FindCalls(thread, hash),
                 MatchAndPromote(set, "thread", Seed(<<>>, thread.features, global), thread.addr, hash))

\* find_thread_capabilities: what spans matched stays out of the thread's
\* features.
FindThread(thread, hash) ==
    LET match(calls) == ThreadResult(calls, MatchAndPromote(set, "thread",
                            Seed(calls.fs, thread.features, global), thread.addr, hash))
    IN  match(FindCalls(thread, hash))

\* find_process_capabilities: process matches are not promoted here.
FindProcess(process, hash) ==
    LET gather(acc, r) == [fs |-> MergeSets(acc.fs, r.fs),
                           matches |-> ExtendMatches(acc.matches, r.matches),
                           spans |-> ExtendMatches(acc.spans, r.spans),
                           calls |-> ExtendMatches(acc.calls, r.calls),
                           error |-> acc.error \/ r.error]
        result(threads, m) == [processes |-> m.matches, threads |-> threads.matches,
                               spans |-> threads.spans, calls |-> threads.calls,
                               count |-> m.count, error |-> threads.error \/ m.error]
        match(threads) == result(threads, MatchScopeResults(set, "process",
                              Seed(threads.fs, process.features, global), process.addr))
    IN  match(FoldLeft(LAMBDA acc, thread : gather(acc, FindThread(thread, hash)),
                       [fs |-> <<>>, matches |-> NoMatches, spans |-> NoMatches, calls |-> NoMatches,
                        error |-> FALSE], process.kids))

\* One turn of the loop over freeze.processes.
AnalyzeProcess(hash) ==
    /\ status = "processes"
    /\ Len(counts) < Len(file.kids)
    /\ LET process == file.kids[Len(counts) + 1]
       IN  \E r \in {FindProcess(process, hash)} :
           \/ /\ r.error
              /\ status' = "error"
              /\ UNCHANGED <<matched, counts>>
           \/ /\ ~ r.error
              /\ matched' = [scope \in DOMAIN matched |-> ExtendMatches(matched[scope], r[scope])]
              /\ counts' = Append(counts, <<process.addr, r.count>>)
              /\ UNCHANGED status
    /\ UNCHANGED <<input, matches, document>>

\* The matches of the scopes, from the narrowest to the file's.
AllMatches(fileMatches) ==
    ExtendMatches(ExtendMatches(ExtendMatches(ExtendMatches(
        matched.calls, matched.spans), matched.threads), matched.processes), fileMatches)

\* The rest of find_dynamic_capabilities.
MatchFile(hash) ==
    /\ status = "processes"
    /\ Len(counts) = Len(file.kids)
    /\ LET promote(fs, scope) == PromoteAll(set, fs, matched[scope], hash)
           lower == promote(promote(promote(promote(<<>>, "calls"), "spans"), "threads"), "processes")
       IN  \E r \in {FindFileCapabilities(set, file, global, lower)} :
           \/ /\ r.error
              /\ status' = "error"
              /\ UNCHANGED matches
           \/ /\ ~ r.error
              /\ matches' = AllMatches(r.matches)
              /\ status' = "done"
    /\ UNCHANGED <<input, matched, counts, document>>

\* build_result_document on the matches.
BuildDocument ==
    /\ status = "done"
    /\ \E rules \in {BuildResultDocument(set, matches)} :
           \/ /\ IsMissing(rules)
              /\ status' = "document error"
              /\ UNCHANGED document
           \/ /\ ~ IsMissing(rules)
              /\ status' = "documented"
              /\ document' = rules
    /\ UNCHANGED <<input, matched, counts, matches>>

Returned ==
    /\ status \in {"documented", "error", "document error"}
    /\ UNCHANGED vars

Next ==
    \/ \E hash \in HashOrders : AnalyzeProcess(hash) \/ MatchFile(hash)
    \/ BuildDocument
    \/ Returned

Spec == Init /\ [][Next]_vars

-----------------------------------------------------------------------------
(* Properties.                                                             *)

\* The spans of a thread: at each call, the trailing window.
SpanAt(thread, i) ==
    [scope |-> "span of calls", addr |-> thread.kids[i].addr, features |-> <<>>,
     kids |-> SubSeq(thread.kids, Max({1, i - SpanSize + 1}), i)]

\* The tree of scope instances with the spans inside their threads.
WithSpans(I) ==
    LET thread(t) == [t EXCEPT !.kids = @ \o [i \in DOMAIN t.kids |-> SpanAt(t, i)]]
        process(p) == [p EXCEPT !.kids = Each(thread, @)]
    IN  [I EXCEPT !.kids = Each(process, @)]

\* The body looks at spans with a statement of one of the kinds `ops`.
NamesSpan(rules, value) ==
    \E i \in DOMAIN rules :
        /\ rules[i].name = value \/ (value # <<>> /\ IsPrefix(value, rules[i].namespace))
        /\ rules[i].scopes = {"span of calls"}
RECURSIVE LooksAtSpans(_, _, _)
LooksAtSpans(rules, node, ops) ==
    \/ node.op \in ops /\ CASE node.op = "subscope" -> node.scope = "span of calls"
                            [] node.op \in {"leaf", "range"} -> node.feature.kind = "match"
                                                               /\ NamesSpan(rules, node.feature.value)
                            [] OTHER -> FALSE
    \/ \E i \in DOMAIN node.kids : LooksAtSpans(rules, node.kids[i], ops)

\* The rules to which span matches are not visible as they are: a thread or a
\* process does not see them, a file does not see the suppressed ones.
IsBlindToSpans(rules, rule) ==
    LooksAtSpans(rules, rule.body,
                 IF rule.scopes = {"file"} THEN {"range"} ELSE {"leaf", "range", "subscope"})

\* A rule that is not blind to the spans it looks at matches exactly where its
\* body holds; a span rule is recorded only where it holds, and no match is
\* without a record at the same call or before it in the thread.
MatchesMeanTheRules ==
    status = "done" => \A tree \in {WithSpans(file)} : \A i \in DOMAIN userRules :
        LET rule == userRules[i]
            found == MatchAddrs(matches, rule.name)
            meant == Meaning(rule, tree, userRules, global)
        IN  IF rule.scopes = {"span of calls"}
            THEN /\ found \subseteq meant
                 /\ \A at \in meant : InThread(matches, rule.name, at) # {}
            ELSE IsBlindToSpans(userRules, rule) \/ found = meant

\* The document is built whenever no rule bears the name of a namespace, and
\* explains every match down to the features, also where the span matcher has
\* suppressed a repeated match.
DocumentExplains ==
    ~ HasAmbiguousName(userRules) =>
        /\ status # "document error"
        /\ status = "documented" =>
             \A name \in DOMAIN document : \A i \in DOMAIN document[name] :
                 IsExplained(document[name][i].tree)
=============================================================================
