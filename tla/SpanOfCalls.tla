---------------------------- MODULE SpanOfCalls ----------------------------
(***************************************************************************)
(* capa-x/src/capabilities/dynamic_analysis.rs: SpanOfCallsMatcher, which  *)
(* matches the `span of calls` rules on the trailing window of a thread's  *)
(* calls.  The union of the window is kept up to date incrementally, and a *)
(* rule that matched at the call before is not recorded again, unless a    *)
(* rule that starts to match depends on it.                                *)
(*                                                                         *)
(* A feature set is a function from its keys to sets of locations.  Which  *)
(* rules match on one is a constant operator; MCSpanOfCalls gives it the   *)
(* definitions of Engine.                                                  *)
(***************************************************************************)
EXTENDS Integers, Sequences

CONSTANTS
    SpanSize,       \* SPAN_SIZE
    RuleSets,       \* rule sets
    Rule,           \* rule names
    Call,           \* feature sets of calls, with what call scope promoted
    Threads,        \* threads: their calls in address order
    Global,         \* global features, seeded into every call
    NoAddress,
    MatchesOf(_, _, _), \* MatchesOf(R, F, i): the rules of R that match F at call i
    Fails(_, _),    \* Fails(R, F): match_scope_results returns an error
    DepsOf(_, _)    \* DepsOf(R, r): Rule::dependencies

ASSUME SpanSizeAssumption == SpanSize \in Nat \ {0}
ASSUME ThreadsAssumption == Threads \subseteq Seq(Call)
ASSUME FunctionAssumption ==
    \A c \in Call : c = [f \in DOMAIN c |-> c[f]] /\ \A f \in DOMAIN c : c[f] # {}

\* find_call_capabilities seeds the global features at NoAddress into every
\* call; every other location in a call's set is the call's own.
ASSUME GlobalAssumption ==
    \A c \in Call : /\ Global \subseteq DOMAIN c
                    /\ \A f \in DOMAIN c : NoAddress \in c[f] <=> f \in Global
ASSUME OwnLocationsAssumption ==
    \A t \in Threads : \A i, j \in DOMAIN t : i # j =>
        \A f \in DOMAIN t[i] \intersect DOMAIN t[j] : t[i][f] \intersect t[j][f] \subseteq {NoAddress}

VARIABLES
    ruleset,    \* the rule set
    calls,      \* the thread
    n,          \* how many of its calls were passed to next()
    window,     \* current_feature_sets
    current,    \* current_features
    last,       \* last_span_matches
    recorded,   \* matches: <<rule, call>>
    status      \* "matching", "done" or "error"

vars == <<ruleset, calls, n, window, current, last, recorded, status>>

\* The keys of match_scope_results.
Matched(F, i) == Rule \intersect MatchesOf(ruleset, F, i)

Deps(r) == DepsOf(ruleset, r)

EmptySet == [f \in {} |-> {}]

Init ==
    /\ ruleset \in RuleSets
    /\ calls \in Threads
    /\ n = 0
    /\ window = <<>>
    /\ current = EmptySet
    /\ last = {}
    /\ recorded = {}
    /\ status = "matching"

\* `entry(feature).or_default().extend(locs)` for each feature of a call.
Add(F, call) ==
    [f \in DOMAIN F \union DOMAIN call |->
        (IF f \in DOMAIN F THEN F[f] ELSE {}) \union (IF f \in DOMAIN call THEN call[f] ELSE {})]

\* The features an overflowing call gives up: not those at NoAddress alone.
Leaving(call) == {f \in DOMAIN call : call[f] # {NoAddress}}

\* Mutant: a feature leaves the window with the first call that has it.
Remove_WholeFeature(F, call) == [f \in DOMAIN F \ Leaving(call) |-> F[f]]

\* The overflowing call's locations are removed, and the features without
\* any location left.
Remove(F, call) ==
    LET rest(f) == IF f \in Leaving(call) THEN F[f] \ call[f] ELSE F[f]
    IN  [f \in {g \in DOMAIN F : rest(g) # {} \/ g \notin Leaving(call)} |-> rest(f)]

IsFull == Len(window) = SpanSize

\* The window and its union once `call` is in it.
SlideWindow(call) == Append(IF IsFull THEN Tail(window) ELSE window, call)
SlideFeatures(call) == Add(IF IsFull THEN Remove(current, Head(window)) ELSE current, call)

\* Mutant: what matched at the call before is suppressed without exception.
Suppressed_Always(now) == last

\* suppressed_rules: the rules of the last span, without the dependencies of
\* the rules that are new.
Suppressed(now) == last \ UNION {Deps(r) : r \in now \ last}

\* `self.last_span_matches = matches.into_keys().collect()`.
Remember(now) == now

Slide ==
    /\ status = "matching"
    /\ n < Len(calls)
    /\ n' = n + 1
    /\ window' = SlideWindow(calls[n + 1])
    /\ current' = SlideFeatures(calls[n + 1])
    /\ UNCHANGED <<ruleset, calls>>

\* next(): the rules that match the union are recorded unless suppressed.
Match ==
    /\ Slide
    /\ ~ Fails(ruleset, current')
    /\ LET now == Matched(current', n + 1)
       IN  /\ recorded' = recorded \union {<<r, n + 1>> : r \in now \ Suppressed(now)}
           /\ last' = Remember(now)
    /\ UNCHANGED status

\* next() returns the error of match_scope_results.
Fail ==
    /\ Slide
    /\ Fails(ruleset, current')
    /\ status' = "error"
    /\ UNCHANGED <<last, recorded>>

\* The thread has no more calls.
Finish ==
    /\ status = "matching"
    /\ n = Len(calls)
    /\ status' = "done"
    /\ UNCHANGED <<ruleset, calls, n, window, current, last, recorded>>

Returned ==
    /\ status # "matching"
    /\ UNCHANGED vars

Next == Match \/ Fail \/ Finish \/ Returned

Spec == Init /\ [][Next]_vars

-----------------------------------------------------------------------------
(* Properties.                                                             *)

TypeOK ==
    /\ ruleset \in RuleSets
    /\ calls \in Threads
    /\ n \in 0 .. Len(calls)
    /\ window \in Seq(Call)
    /\ Len(window) <= SpanSize
    /\ last \subseteq Rule
    /\ recorded \subseteq Rule \X (1 .. n)
    /\ status \in {"matching", "done", "error"}

\* The union of the feature sets of calls lo .. hi.
UnionOf(lo, hi) ==
    [f \in UNION {DOMAIN calls[i] : i \in lo .. hi} |->
        UNION {calls[i][f] : i \in {j \in lo .. hi : f \in DOMAIN calls[j]}}]

First(i) == IF i <= SpanSize THEN 1 ELSE i - SpanSize + 1

\* current_features is the "live union of current_feature_sets": nothing that
\* slid out of the window is left, nothing that is still in it was lost.
LiveUnion == current = UnionOf(First(n), n)

\* The rules that match the span ending at call i, computed from nothing.
MatchedAt(i) == IF i = 0 THEN {} ELSE Matched(UnionOf(First(i), i), i)

\* The calls behind which matches have been recorded.
Passed == IF status = "error" THEN n - 1 ELSE n

\* The rules for which a run of matches starts at call i, and those it records.
Starts(i) == MatchedAt(i) \ MatchedAt(i - 1)
RecordedAt(i) == {r \in Rule : <<r, i>> \in recorded}

\* A match is recorded where a run of matches starts, and where a rule that
\* depends on it starts: nowhere else, whatever slides in and out.
RecordsStarts ==
    \A i \in 1 .. Passed :
        RecordedAt(i) = Starts(i) \union (MatchedAt(i) \intersect UNION {Deps(q) : q \in Starts(i)})

\* Wherever a rule matches, a record of the same run is at the call or before
\* it: the splice of the result document, which falls back to the most recent
\* match of the thread, always finds one.
RunIsRecorded ==
    \A i \in 1 .. Passed : \A r \in MatchedAt(i) :
        \E j \in 1 .. i : <<r, j>> \in recorded /\ \A k \in j .. i : r \in MatchedAt(k)

(***************************************************************************)
(* The inductive invariant.                                                *)
(***************************************************************************)
WindowIsTrailing ==
    /\ Len(window) = n - First(n) + 1
    /\ \A k \in 1 .. Len(window) : window[k] = calls[First(n) + k - 1]

Inv ==
    /\ TypeOK
    /\ WindowIsTrailing
    /\ LiveUnion
    /\ status # "error" => last = MatchedAt(n)
    /\ status = "error" => n >= 1 /\ RecordedAt(n) = {}
    /\ RecordsStarts
    /\ RunIsRecorded
=============================================================================
