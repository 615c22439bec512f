----------------------------- MODULE MatchScope -----------------------------
(***************************************************************************)
(* capa-x/src/capabilities/ruleset.rs: match_scope_borrowed, the loop that *)
(* matches the rules of one scope against one feature set.                 *)
(*                                                                         *)
(* Only candidate positions are evaluated: those the feature index selects *)
(* for the keys of the input, and those that a match published on the way  *)
(* activates.  The reference is the linear matcher of capa (and of the     *)
(* repository's own parity tests), which evaluates every rule in order.    *)
(*                                                                         *)
(* What a rule body evaluates to and which alternatives it is registered   *)
(* under are constant operators here; MCMatchScope gives them the          *)
(* definitions of Engine and RuleIndex.                                    *)
(***************************************************************************)
EXTENDS Integers, Sequences

CONSTANTS
    Rule,               \* rules
    Addr,               \* addresses of the scope's instances
    FeatureSets,        \* feature sets: functions from their keys to locations
    RuleLists,          \* rules_by_scope: lists of rules, dependency first
    Inputs,             \* feature sets a scope driver passes in
    Eval(_, _),         \* evaluate_boolean of a rule: "yes", "no" or "error"
    FullEval(_, _),     \* outcome of the full pass of a rule
    Always(_),          \* the rule is in the index's `always` list
    Alts(_),            \* the alternatives a rule is registered under
    Opens(_, _),        \* Opens(alt, key): a present key selects alternative alt
    Published(_)        \* the match features index_rule_matches publishes

\* index_rule_matches: insert_many of the features `new` at `at`.
Insert(F, new, at) ==
    [k \in DOMAIN F \union new |->
        (IF k \in DOMAIN F THEN F[k] ELSE {}) \union (IF k \in new THEN {at} ELSE {})]

\* RuleFeatureIndex::candidates: the index selects the rule for these keys.
Selected(rule, keys) ==
    Always(rule) \/ \E alt \in Alts(rule) : \E key \in keys : Opens(alt, key)

ASSUME ListsAssumption == RuleLists \subseteq Seq(Rule)
ASSUME InputsAssumption == Inputs \subseteq FeatureSets
ASSUME FunctionsAssumption == \A F \in FeatureSets : F = [k \in DOMAIN F |-> F[k]]
ASSUME ClosedAssumption ==
    \A F \in FeatureSets, r \in Rule, at \in Addr : Insert(F, Published(r), at) \in FeatureSets
ASSUME EvalAssumption ==
    \A r \in Rule, F \in FeatureSets :
        Eval(r, F) \in {"yes", "no", "error"} /\ FullEval(r, F) \in {"yes", "no", "error"}

\* A rule that would match or raise an error is selected by the index.
ASSUME IndexSound ==
    \A r \in Rule, F \in FeatureSets : Eval(r, F) # "no" => Selected(r, DOMAIN F)

\* Match features are registered in the exact map only, under themselves.
ASSUME PublishedExact ==
    \A r \in Rule : \A key \in Published(r) :
        \A q \in Rule : \A alt \in Alts(q) : Opens(alt, key) <=> alt = key

VARIABLES
    rules,          \* the scope's rule list
    input,          \* the feature set passed in
    addr,           \* the address of the scope instance
    fs,             \* features (the Cow): input plus what matches published
    candidates,     \* BTreeSet<usize>
    position,       \* the position popped last, 0 before
    matched,        \* the positions with an entry in results
    status          \* "matching", "done" or "error"

vars == <<rules, input, addr, fs, candidates, position, matched, status>>

Positions == DOMAIN rules

\* F after the rules at positions P matched at addr.
Publish(F, P) == Insert(F, UNION {Published(rules[p]) : p \in P}, addr)

Init ==
    /\ rules \in RuleLists
    /\ input \in Inputs
    /\ addr \in Addr
    /\ fs = input
    /\ candidates = {p \in Positions : Selected(rules[p], DOMAIN input)}
    /\ position = 0
    /\ matched = {}
    /\ status = "matching"

\* Mutant: the key of a published feature is compared with the old length of
\* the map after the insertion, so nothing is new.
Activated_Nothing(p, newKeys) == {}

\* `index.exact.get(feature)` for each new key, later positions only.
Activated(p, newKeys) ==
    {i \in Positions : i > p /\ \E key \in newKeys : key \in Alts(rules[i])}

\* Pops position p; the rule does not match.
Skip(p) ==
    /\ Eval(rules[p], fs) = "no"
    /\ candidates' = candidates \ {p}
    /\ UNCHANGED <<fs, matched, status>>

\* The boolean pass or the full pass raises an EngineError: `?` returns it.
Fail(p) ==
    /\ \/ Eval(rules[p], fs) = "error"
       \/ Eval(rules[p], fs) = "yes" /\ FullEval(rules[p], fs) = "error"
    /\ status' = "error"
    /\ candidates' = candidates \ {p}
    /\ UNCHANGED <<fs, matched>>

\* The rule matches: publish its name and namespaces, activate dependents.
Match(p) ==
    /\ Eval(rules[p], fs) = "yes"
    /\ FullEval(rules[p], fs) # "error"
    /\ fs' = Publish(fs, {p})
    /\ candidates' = (candidates \ {p}) \union Activated(p, DOMAIN fs' \ DOMAIN fs)
    /\ matched' = matched \union {p}
    /\ UNCHANGED status

\* Mutant: candidates are taken from the other end.
IsNext_Last(p) == p \in candidates /\ \A q \in candidates : q <= p

\* `candidates.pop_first()`.
IsNext(p) == p \in candidates /\ \A q \in candidates : p <= q

Step ==
    /\ status = "matching"
    /\ \E p \in Positions :
         /\ IsNext(p)
         /\ position' = p
         /\ Skip(p) \/ Fail(p) \/ Match(p)
    /\ UNCHANGED <<rules, input, addr>>

Finish ==
    /\ status = "matching"
    /\ candidates = {}
    /\ status' = "done"
    /\ UNCHANGED <<rules, input, addr, fs, candidates, position, matched>>

Returned ==
    /\ status # "matching"
    /\ UNCHANGED vars

Next == Step \/ Finish \/ Returned

Spec == Init /\ [][Next]_vars

-----------------------------------------------------------------------------
(* Properties.                                                             *)

TypeOK ==
    /\ rules \in RuleLists
    /\ input \in Inputs
    /\ addr \in Addr
    /\ fs \in FeatureSets
    /\ candidates \subseteq Positions
    /\ position \in Positions \union {0}
    /\ matched \subseteq Positions
    /\ status \in {"matching", "done", "error"}

\* The feature set the linear matcher has when it comes to position p, if
\* `matched` are the positions that matched.
LinearSet(p) == Publish(input, {q \in matched : q < p})

\* What the linear matcher decides at position p.
LinearAt(p) == p \in matched <=> Eval(rules[p], LinearSet(p)) = "yes"

\* The indexed matcher matches exactly the rules the linear matcher matches:
\* a rule the index never selects, or a dependent activated late, loses
\* nothing.
MatchesLikeLinear ==
    status = "done" =>
        /\ \A p \in Positions : LinearAt(p) /\ Eval(rules[p], LinearSet(p)) # "error"
        /\ fs = Publish(input, matched)

\* The match fails exactly where the linear matcher fails: at the first rule
\* that raises an error.
FailsLikeLinear ==
    status = "error" =>
        /\ position \in Positions
        /\ \A p \in Positions : p < position => LinearAt(p) /\ Eval(rules[p], LinearSet(p)) # "error"
        /\ LET F == LinearSet(position)
           IN  Eval(rules[position], F) = "error" \/ FullEval(rules[position], F) = "error"

(***************************************************************************)
(* The inductive invariant: behind `position` the linear decisions have    *)
(* been taken, ahead of it every rule the current keys select is still a   *)
(* candidate.                                                              *)
(***************************************************************************)
Behind(n) ==
    \A p \in Positions : p <= n =>
        LinearAt(p) /\ Eval(rules[p], LinearSet(p)) # "error"

Ahead ==
    \A p \in Positions : p > position =>
        (p \in candidates <=> Selected(rules[p], DOMAIN fs))

Inv ==
    /\ TypeOK
    /\ fs = Publish(input, matched)
    /\ \A p \in matched : p <= position
    /\ \A p \in candidates : p > position
    /\ Ahead
    /\ status # "error" => Behind(position)
    /\ status = "done" => candidates = {}
    /\ FailsLikeLinear
=============================================================================
