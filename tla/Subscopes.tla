----------------------------- MODULE Subscopes -----------------------------
(***************************************************************************)
(* capa-x/src/capabilities/ruleset.rs: the pure parts of                   *)
(* MatchingRuleSet::new.  COM leaves become disjunctions of GUID features, *)
(* subscope statements become rules of their own that the parent refers to *)
(* with `match:`, and each scope gets its rules dependency first.          *)
(*                                                                         *)
(* A rule is a record [name, namespace, scopes, body, parent]; `scopes` is *)
(* the set of its static and its dynamic scope, `parent` the rule it was   *)
(* extracted from (NoNamespace for a rule of the user).  A name is the     *)
(* sequence of its '/'-separated parts; a part is a number, and a counter  *)
(* n is written as the part n.                                             *)
(***************************************************************************)
EXTENDS RuleIndex

CONSTANT Guids      \* Guids[com name]: the features of its GUIDs, in order

\* STATIC_SCOPE_ORDER and DYNAMIC_SCOPE_ORDER, the widest scope first.
StaticScopeOrder == <<"file", "function", "basic block", "instruction">>
DynamicScopeOrder == <<"file", "process", "thread", "span of calls", "call">>
Scopes == Range(StaticScopeOrder) \union Range(DynamicScopeOrder)

\* is_subscope_compatible: a subscope is as wide as the scope or narrower.
IsSubscopeCompatible(scope, subscope) ==
    \E order \in {StaticScopeOrder, DynamicScopeOrder} : \E i \in DOMAIN order :
        \E j \in i .. Len(order) : order[i] = scope /\ order[j] = subscope

RECURSIVE IsWellScoped(_, _)
\* build_subscope: the parser accepts a subscope if one of the scopes around
\* it admits it; the body of a subscope has that scope alone.
IsWellScoped(scopes, node) ==
    /\ node.op = "subscope" => \E s \in scopes : IsSubscopeCompatible(s, node.scope)
    /\ \A i \in DOMAIN node.kids :
         IsWellScoped(IF node.op = "subscope" THEN {node.scope} ELSE scopes, node.kids[i])

\* is_subscope_rule: the capa/subscope-rule entry of the meta section.
IsSubscopeRule(rule) == rule.parent # NoNamespace

-----------------------------------------------------------------------------
(* expand_com.                                                             *)

IsUnknownCom(node) ==
    node.op = "leaf" /\ node.feature.kind = "com" /\
    (node.feature.value \in DOMAIN Guids => Guids[node.feature.value] = <<>>)

RECURSIVE HasUnknownCom(_), ExpandCom(_)
HasUnknownCom(node) ==
    IsUnknownCom(node) \/ \E i \in DOMAIN node.kids : HasUnknownCom(node.kids[i])

\* translate_com_feature for each Com leaf: every GUID as a string and as
\* bytes.
ExpandCom(node) ==
    IF node.op = "leaf" /\ node.feature.kind = "com"
    THEN LET guids == Guids[node.feature.value]
         IN  Or(FoldLeft(LAMBDA acc, g : acc \o <<Leaf([kind |-> "plain", value |-> g]),
                                                  Leaf([kind |-> "bytes", value |-> g])>>,
                         <<>>, guids))
    ELSE [node EXCEPT !.kids = Each(ExpandCom, node.kids)]

-----------------------------------------------------------------------------
(* Subscope extraction.  `acc` is the counter and the extracted rules.     *)

SubscopeRule(name, scope, body, parent) ==
    [name |-> name, namespace |-> NoNamespace, scopes |-> {scope}, body |-> body, parent |-> parent]

RECURSIVE ExtractChildren(_, _, _)

\* extract_single_child: a subscope leaves a reference behind, its body is
\* extracted from when its rule is popped.
ExtractSingleChild(node, rule, acc) ==
    IF node.op = "subscope"
    THEN LET name == Append(rule, Len(acc) + 1)
         IN  [node |-> Leaf(MatchFeature(name)),
              out  |-> Append(acc, SubscopeRule(name, node.scope, node.kids[1], rule))]
    ELSE ExtractChildren(node, rule, acc)

\* extract_children, extract_child_list: the children from left to right.
ExtractChildren(node, rule, acc) ==
    LET step(so, kid) ==
            LET r == ExtractSingleChild(kid, rule, so.out)
            IN  [kids |-> Append(so.kids, r.node), out |-> r.out]
        all == FoldLeft(step, [kids |-> <<>>, out |-> acc], node.kids)
    IN  [node |-> [node EXCEPT !.kids = all.kids], out |-> all.out]

\* One turn of expand_and_extract: the rule with its subscopes replaced, and
\* the rules extracted from it.
ExtractRule(rule) ==
    LET r == ExtractChildren(ExpandCom(rule.body), rule.name, <<>>)
    IN  [rule |-> [rule EXCEPT !.body = r.node], out |-> r.out]

Optimized(rule) == [rule EXCEPT !.body = OptimizeNode(@)]

RECURSIVE ExpandAndExtract(_, _)
\* expand_and_extract on rules without unknown COM names: a stack of rules,
\* popped from its end.
ExpandAndExtract(stack, done) ==
    IF stack = <<>> THEN Each(Optimized, done)
    ELSE LET r == ExtractRule(Last(stack))
         IN  ExpandAndExtract(Front(stack) \o r.out, Append(done, r.rule))

-----------------------------------------------------------------------------
(* Dependencies and the list of a scope.                                   *)

Names(rules) == {rules[i].name : i \in DOMAIN rules}

\* HashMap from an iterator: the last rule of a name stays.
ByName(rules, name) == rules[Max({i \in DOMAIN rules : rules[i].name = name})]

\* index_rules_by_namespace.
InNamespace(rules, ns) ==
    {rules[i].name : i \in {j \in DOMAIN rules : ns # <<>> /\ IsPrefix(ns, rules[j].namespace)}}

RECURSIVE MatchValues(_)
\* The `match:` values of a body, those in count(match(x)) included (walk).
MatchValues(node) ==
    (IF node.op \in {"leaf", "range"} /\ node.feature.kind = "match" THEN {node.feature.value} ELSE {})
    \union UNION {MatchValues(node.kids[i]) : i \in DOMAIN node.kids}

\* get_dependencies: a namespace takes precedence over a rule name.
Dependencies(rules, body) ==
    UNION {IF InNamespace(rules, m) # {} THEN InNamespace(rules, m) ELSE {m} : m \in MatchValues(body)}

\* Names in the order of their strings.
IsBefore(a, b) ==
    \/ a # b /\ IsPrefix(a, b)
    \/ \E i \in DOMAIN a \intersect DOMAIN b :
         a[i] < b[i] /\ \A j \in 1 .. i - 1 : a[j] = b[j]

RECURSIVE Sorted(_)
Sorted(names) ==
    IF names = {} THEN <<>>
    ELSE LET least == CHOOSE x \in names : \A y \in names \ {x} : IsBefore(x, y)
         IN  <<least>> \o Sorted(names \ {least})

RECURSIVE TransitiveClosure(_, _, _), VisitSubset(_, _, _)

\* transitive_closure from `start` into the set `out`.
TransitiveClosure(rules, start, out) ==
    IF start \in out THEN out
    ELSE IF start \notin Names(rules) THEN out \union {start}
    ELSE FoldLeft(LAMBDA acc, dep : TransitiveClosure(rules, dep, acc), out \union {start},
                  Sorted(Dependencies(rules, ByName(rules, start).body)))

\* Mutant: a rule is pushed before its dependencies are visited.
VisitSubset_PreOrder(rules, name, so) ==
    IF name \in so.seen THEN so
    ELSE LET entered == [so EXCEPT !.seen = @ \union {name}, !.order = Append(@, name)]
         IN  IF name \in Names(rules)
             THEN FoldLeft(LAMBDA acc, dep : VisitSubset(rules, dep, acc), entered,
                           Sorted(Dependencies(rules, ByName(rules, name).body)))
             ELSE entered

\* topo_sort_subset's visit: dependencies first, then the rule.
VisitSubset(rules, name, so) ==
    IF name \in so.seen THEN so
    ELSE LET entered == [so EXCEPT !.seen = @ \union {name}]
             visited == IF name \in Names(rules)
                        THEN FoldLeft(LAMBDA acc, dep : VisitSubset(rules, dep, acc), entered,
                                      Sorted(Dependencies(rules, ByName(rules, name).body)))
                        ELSE entered
         IN  [visited EXCEPT !.order = Append(@, name)]

TopoSortSubset(rules, names) ==
    FoldLeft(LAMBDA so, name : VisitSubset(rules, name, so),
             [seen |-> {}, order |-> <<>>], Sorted(names)).order

\* rules_for_scope.
RulesForScope(rules, scope) ==
    LET users == SelectSeq(rules, LAMBDA r : ~ IsSubscopeRule(r))
        needed == FoldLeft(LAMBDA out, r : TransitiveClosure(rules, r.name, out), {}, users)
    IN  SelectSeq(TopoSortSubset(rules, needed), LAMBDA name :
            name \in Names(rules) /\ scope \in ByName(rules, name).scopes)
=============================================================================
