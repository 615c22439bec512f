--------------------------- MODULE ScopeMatching ---------------------------
(***************************************************************************)
(* What the static and the dynamic driver share (capa-x/src/capabilities/  *)
(* static_analysis.rs and dynamic_analysis.rs): feature sets are seeded    *)
(* from a scope instance, matched, and the matches promoted to the set     *)
(* that the enclosing scope merges.  And the meaning of a rule on a tree   *)
(* of scope instances, which the drivers must compute.                     *)
(*                                                                         *)
(* An instance of a scope is a record [scope, addr, features, kids]:       *)
(* features is a list of <<address, feature>>, kids the instances of the   *)
(* next narrower scope in address order.                                   *)
(***************************************************************************)
EXTENDS Subscopes

\* Addresses are tuples: <<va>> or <<process>>, <<process, thread>> and
\* <<process, thread, id>> for a call.
NoAddress == <<>>
IsCallAddress(addr) == Len(addr) = 3

\* The order in which a HashMap yields its keys is arbitrary: two orders.
HashOrders == {"ascending", "descending"}
HashOrder(names, hash) == IF hash = "ascending" THEN Sorted(names) ELSE Reverse(Sorted(names))

\* A rule set ready for matching: the expanded rules and the list of each
\* scope.
Prepared(userRules) ==
    LET rules == ExpandAndExtract(userRules, <<>>)
    IN  [rules |-> rules, lists |-> [s \in Scopes |-> RulesForScope(rules, s)]]

-----------------------------------------------------------------------------
(* Match results: from rule names to lists of [addr, result].              *)

NoMatches == [name \in {} |-> <<>>]

\* extend_matches.
ExtendMatches(into, from) ==
    [name \in DOMAIN into \union DOMAIN from |->
        (IF name \in DOMAIN into THEN into[name] ELSE <<>>) \o
        (IF name \in DOMAIN from THEN from[name] ELSE <<>>)]

MatchAddrs(matches, name) ==
    IF name \in DOMAIN matches THEN {matches[name][i].addr : i \in DOMAIN matches[name]} ELSE {}

\* seed: the features of the instance, then the global ones at NoAddress.
Seed(fs, features, global) ==
    FoldLeft(LAMBDA acc, f : InsertMany(acc, f, {NoAddress}),
             FoldLeft(LAMBDA acc, af : InsertMany(acc, af[2], {af[1]}), fs, features),
             global)

\* match_scope_results.  MatchScope shows that the indexed matcher is this
\* one, which evaluates every rule of the scope in order.
MatchScopeResults(set, scope, features, addr) ==
    LET step(acc, name) ==
            LET rule == ByName(set.rules, name)
                r == EvaluateBoolean(rule.body, acc.fs)
            IN  CASE acc.error \/ r = No -> acc
                  [] ~acc.error /\ r = Error -> [acc EXCEPT !.error = TRUE]
                  [] ~acc.error /\ r = Yes ->
                       [acc EXCEPT
                           !.fs = IndexRuleMatches(acc.fs, rule, {addr}),
                           !.matches = ExtendMatches(acc.matches, [n \in {name} |->
                               <<[addr |-> addr, result |-> Evaluate(rule.body, acc.fs, FALSE)]>>])]
    IN  FoldLeft(step, [fs |-> features, matches |-> NoMatches, error |-> FALSE, count |-> Len(features)],
                 set.lists[scope])

\* Mutant: the loop ends behind the first rule.
PromoteMatches_FirstRule(set, fs, matches, hash) ==
    IF DOMAIN matches = {} THEN fs
    ELSE LET name == HashOrder(DOMAIN matches, hash)[1]
         IN  IndexRuleMatches(fs, ByName(set.rules, name), MatchAddrs(matches, name))

\* promote_matches: in the order of the HashMap.
PromoteMatches(set, fs, matches, hash) ==
    FoldLeft(LAMBDA acc, name :
                 FoldLeft(LAMBDA a, m : IndexRuleMatches(a, ByName(set.rules, name), {m.addr}),
                          acc, matches[name]),
             fs, HashOrder(DOMAIN matches, hash))

\* match_scope_results on the features of an instance, then promote_matches.
MatchAndPromote(set, scope, fs, addr, hash) ==
    LET promoted(m) == [fs |-> PromoteMatches(set, fs, m.matches, hash),
                        matches |-> m.matches, error |-> m.error]
    IN  promoted(MatchScopeResults(set, scope, fs, addr))

\* index_rule_matches for all locations of each rule, for the file scope.
PromoteAll(set, fs, matches, hash) ==
    FoldLeft(LAMBDA acc, name :
                 IndexRuleMatches(acc, ByName(set.rules, name), MatchAddrs(matches, name)),
             fs, HashOrder(DOMAIN matches, hash))

\* guarded_insert: NoAddress gives an entry without locations.
GuardedInsert(fs, feature, addr) ==
    InsertMany(fs, feature, IF addr = NoAddress THEN {} ELSE {addr})

\* find_file_capabilities: the file's features, the global ones, and what the
\* narrower scopes published.
FindFileCapabilities(set, file, global, lower) ==
    LET own == FoldLeft(LAMBDA acc, af : GuardedInsert(acc, af[2], af[1]), <<>>, file.features)
        seeded == FoldLeft(LAMBDA acc, f : GuardedInsert(acc, f, NoAddress), own, global)
        matched(fs) == MatchScopeResults(set, "file", fs, NoAddress)
    IN  matched(MergeSets(seeded, lower))

-----------------------------------------------------------------------------
(* What a rule means.  This is the reference, not the code.                *)

RECURSIVE Within(_), Holds(_, _, _, _)

\* The instances in I, I included.
Within(I) == {I} \union UNION {Within(I.kids[i]) : i \in DOMAIN I.kids}

\* The occurrences <<address, feature>> that a rule of I's scope sees.  A
\* file sees its own features and no others.
Occurrences(I, global) ==
    (IF I.scope = "file" THEN Range(I.features)
     ELSE UNION {Range(J.features) : J \in Within(I)})
    \union {<<NoAddress, f>> : f \in Range(global)}

\* Where rules called `value`, or rules in that namespace, match inside I.
MatchedAt(value, I, rules, global) ==
    {J.addr : J \in {K \in Within(I) : \E i \in DOMAIN rules :
        /\ rules[i].name = value \/ (value # <<>> /\ IsPrefix(value, rules[i].namespace))
        /\ K.scope \in rules[i].scopes
        /\ Holds(rules[i].body, K, rules, global)}}

\* The addresses of a feature in I.
CountedAt(feature, I, rules, global) ==
    IF feature.kind = "match" THEN MatchedAt(feature.value, I, rules, global)
    ELSE {o[1] : o \in {p \in Occurrences(I, global) : p[2] = feature}}
         \ (IF I.scope = "file" THEN {NoAddress} ELSE {})

\* The body holds in I: a subscope holds if it holds in some instance of its
\* scope inside I.
Holds(node, I, rules, global) ==
    LET holding == {i \in DOMAIN node.kids : Holds(node.kids[i], I, rules, global)}
    IN  CASE node.op = "and" -> holding = DOMAIN node.kids
          [] node.op = "or" -> holding # {}
          [] node.op = "not" -> holding = {}
          [] node.op = "some" -> Cardinality(holding) >= node.count
          [] node.op = "range" ->
                InRange(Cardinality(CountedAt(node.feature, I, rules, global)), node)
          [] node.op = "subscope" ->
                \E J \in Within(I) : J.scope = node.scope /\ Holds(node.kids[1], J, rules, global)
          [] node.op = "leaf" ->
                IF node.feature.kind = "match"
                THEN MatchedAt(node.feature.value, I, rules, global) # {}
                ELSE \E o \in Occurrences(I, global) : LeafAccepts(node.feature, o[2])

\* The addresses where a rule matches in the tree I.
Meaning(rule, I, rules, global) ==
    {J.addr : J \in {K \in Within(I) : K.scope \in rule.scopes /\ Holds(rule.body, K, rules, global)}}
=============================================================================
