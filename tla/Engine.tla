------------------------------- MODULE Engine -------------------------------
(***************************************************************************)
(* capa-x/src/engine.rs: feature sets and the evaluation of rule           *)
(* statements over them, once with the full evidence tree (evaluate) and   *)
(* once as a bare outcome (evaluate_boolean).                              *)
(*                                                                         *)
(* A feature is a record [kind, value].  A feature set is the insertion-   *)
(* ordered map of the code: a sequence of [feature, locs] entries with     *)
(* distinct features.  What a substring, a regex or a byte prefix accepts  *)
(* is the relation Accepts over abstract values.  A node is a record with  *)
(* its statement in `op` and its children in `kids`.                       *)
(***************************************************************************)
EXTENDS Integers, Sequences, SequencesExt, FiniteSetsExt

CONSTANTS
    Accepts,    \* set of <<query value, data value>>: the scan succeeds
    MaxDepth    \* bound: the statements of a rule body nest less deep

ASSUME MaxDepthIsNatural == MaxDepth \in Nat

\* Outcomes of an evaluation: EngineError aborts the whole match.
Yes == "yes"
No == "no"
Error == "error"

\* The sequence of Op(e) for the elements e of s.
Each(Op(_), s) == [i \in DOMAIN s |-> Op(s[i])]

\* The sequence of the elements of S in the strict total order Precedes.
InOrder(S, Precedes(_, _)) ==
    [n \in 1 .. Cardinality(S) |->
        CHOOSE a \in S : Cardinality({b \in S : Precedes(b, a)}) = n - 1]

-----------------------------------------------------------------------------
(* Feature sets.                                                           *)

Keys(fs) == {fs[i].feature : i \in DOMAIN fs}

\* fs.get(feature): the locations, {} when the key is absent.
Locations(fs, feature) ==
    UNION {fs[i].locs : i \in {j \in DOMAIN fs : fs[j].feature = feature}}

\* insert, insert_many: an existing key keeps its position, a new one goes
\* to the end.
InsertMany(fs, feature, locs) ==
    IF feature \in Keys(fs)
    THEN [i \in DOMAIN fs |->
            IF fs[i].feature = feature
            THEN [fs[i] EXCEPT !.locs = @ \union locs] ELSE fs[i]]
    ELSE Append(fs, [feature |-> feature, locs |-> locs])

\* merge, merge_owned: the child's entries in the child's order; `other` has
\* every key once.
MergeSets(fs, other) ==
    LET new == {i \in DOMAIN other : other[i].feature \notin Keys(fs)}
    IN  [i \in DOMAIN fs |-> [fs[i] EXCEPT !.locs = @ \union Locations(other, fs[i].feature)]]
            \o Each(LAMBDA i : other[i], InOrder(new, LAMBDA i, j : i < j))

-----------------------------------------------------------------------------
(* Statements.                                                             *)

And(kids) == [op |-> "and", kids |-> kids]
Or(kids) == [op |-> "or", kids |-> kids]
Not(kid) == [op |-> "not", kids |-> <<kid>>]
Some(count, kids) == [op |-> "some", count |-> count, kids |-> kids]
Leaf(feature) == [op |-> "leaf", feature |-> feature, kids |-> <<>>]
\* `max: None` is NoMax.
NoMax == -1
Range_(feature, min, max) ==
    [op |-> "range", feature |-> feature, min |-> min, max |-> max, kids |-> <<>>]
Subscope(scope, body) == [op |-> "subscope", scope |-> scope, kids |-> <<body>>]

-----------------------------------------------------------------------------
(* Recursion over a body.                                                  *)

\* What `depth` steps from a statement to a child lead to.
Generations(body) ==
    LET at[depth \in 0 .. MaxDepth] ==
            IF depth = 0 THEN {body} ELSE UNION {ToSet(n.kids) : n \in at[depth - 1]}
    IN  at

\* The statements in a body, itself among them.
Statements(body) ==
    LET at == Generations(body) IN UNION {at[depth] : depth \in 0 .. MaxDepth}

\* The value of a body, when Step computes the value of a statement from those
\* of its children.
BottomUp(Step(_, _), body) ==
    LET value[n \in Statements(body)] == Step(n, [i \in DOMAIN n.kids |-> value[n.kids[i]]])
    IN  value[body]

-----------------------------------------------------------------------------
(* Leaves.                                                                 *)

\* The data kinds whose value the string scans look at (string_value).
StringKinds == {"plain", "substring", "regex"}

\* Does the leaf `query` accept the feature set's key `f`?  "any" is a
\* wildcard on either side of an os comparison.
LeafAccepts(query, f) ==
    CASE query.kind \in {"substring", "regex"} ->
            f.kind \in StringKinds /\ <<query.value, f.value>> \in Accepts
      [] query.kind = "bytes" ->
            f.kind = "bytes" /\ <<query.value, f.value>> \in Accepts
      [] query.kind = "os" ->
            f.kind = "os" /\ (query.value = "any" \/ f.value = "any" \/ query.value = f.value)
      [] OTHER -> f = query

\* Mutant: the scan gives up behind the first key of the kind it looks for.
Hits_FirstOfKind(query, fs) ==
    {i \in DOMAIN fs : /\ LeafAccepts(query, fs[i].feature)
                       /\ \A j \in 1 .. i - 1 : fs[j].feature.kind # fs[i].feature.kind}

Hits(query, fs) == {i \in DOMAIN fs : LeafAccepts(query, fs[i].feature)}

InRange(count, node) ==
    count >= node.min /\ (node.max = NoMax \/ count <= node.max)

BoolOutcome(b) == IF b THEN Yes ELSE No

-----------------------------------------------------------------------------
(* evaluate_boolean.                                                       *)

\* A loop over `outs` that leaves at the first index in `stop`.
FirstOf(outs, stop, otherwise) == IF stop = {} THEN otherwise ELSE outs[Min(stop)]

\* `satisfied` behind the first n children.
YesUpTo(outs, n) == Cardinality({i \in 1 .. n : outs[i] = Yes})

\* `satisfied >= count` is tested after each child, so an empty `some` is
\* false even when count is 0.
SomeLoop(outs, count) ==
    LET enough == {i \in DOMAIN outs : YesUpTo(outs, i) >= count}
        failed == {i \in DOMAIN outs : outs[i] = Error}
    IN  FirstOf([i \in DOMAIN outs |-> IF i \in failed THEN Error ELSE Yes],
                enough \union failed, No)

\* One call, given the outcomes of the children.
BooleanStep(node, outs, fs) ==
    CASE node.op = "and" -> FirstOf(outs, {i \in DOMAIN outs : outs[i] # Yes}, Yes)
      [] node.op = "or" -> FirstOf(outs, {i \in DOMAIN outs : outs[i] # No}, No)
      [] node.op = "not" -> CASE outs[1] = Yes -> No [] outs[1] = No -> Yes [] OTHER -> Error
      [] node.op = "some" -> SomeLoop(outs, node.count)
      [] node.op = "range" ->
            BoolOutcome(InRange(Cardinality(Locations(fs, node.feature)), node))
      [] node.op = "subscope" -> Error
      [] node.op = "leaf" ->
            IF node.feature.kind = "com" THEN Error
            ELSE BoolOutcome(Hits(node.feature, fs) # {})

EvaluateBoolean(node, fs) == BottomUp(LAMBDA n, outs : BooleanStep(n, outs, fs), node)

-----------------------------------------------------------------------------
(* evaluate: the result tree.  A failed evaluation is ErrorResult.         *)

ErrorResult == [outcome |-> Error, locs |-> {}, kids |-> <<>>]
Result(outcome, locs, kids) == [outcome |-> outcome, locs |-> locs, kids |-> kids]

\* The locations a successful leaf reports: all hits of a string scan unless
\* it short-circuits, the first hit in insertion order otherwise.
LeafLocations(query, fs, short) ==
    LET hits == Hits(query, fs)
        chosen == IF query.kind \in {"substring", "regex"} /\ ~ short
                  THEN hits ELSE {Min(hits)}
    IN  IF hits = {} THEN {} ELSE UNION {fs[i].locs : i \in chosen}

Satisfied(results, n) == Cardinality({i \in 1 .. n : results[i].outcome = Yes})

\* What a short-circuiting loop looks at: it stops behind an error or a result
\* in `stop`.
EvalUntil(results, stop) ==
    LET all == stop \union {i \in DOMAIN results : results[i].outcome = Error}
    IN  IF all = {} THEN results ELSE SubSeq(results, 1, Min(all))

ShortKids(node, results) ==
    CASE node.op = "and" ->
            EvalUntil(results, {i \in DOMAIN results : results[i].outcome = No})
      [] node.op = "or" ->
            EvalUntil(results, {i \in DOMAIN results : results[i].outcome = Yes})
      [] node.op = "some" ->
            EvalUntil(results, {i \in DOMAIN results : Satisfied(results, i) >= node.count})
      [] node.op = "not" -> results

\* Mutant: the full pass looks at no more than the first child.
EvalKids_FirstChild(node, results, short) ==
    IF short THEN ShortKids(node, results) ELSE [i \in DOMAIN results \ {2} |-> results[i]]

\* eval_all, or the children the short-circuiting loop of `node` looks at.
EvalKids(node, results, short) == IF short THEN ShortKids(node, results) ELSE results

StatementHolds(node, results, short) ==
    LET satisfied == Satisfied(results, Len(results))
    IN  CASE node.op = "and" -> satisfied = Len(results)
          [] node.op = "or" -> satisfied > 0
          [] node.op = "not" -> satisfied = 0
          [] node.op = "some" -> satisfied >= node.count /\ (short => results # <<>>)

\* One call, given what it finds at each child it looks at.
EvaluateStep(node, found, fs, short) ==
    CASE node.op \in {"and", "or", "not", "some"} ->
            LET results == EvalKids(node, found, short)
            IN  IF \E i \in DOMAIN results : results[i].outcome = Error THEN ErrorResult
                ELSE Result(BoolOutcome(StatementHolds(node, results, short)), {}, results)
      [] node.op = "range" ->
            LET locs == Locations(fs, node.feature)
            IN  Result(BoolOutcome(InRange(Cardinality(locs), node)), locs, <<>>)
      [] node.op = "subscope" -> ErrorResult
      [] node.op = "leaf" ->
            IF node.feature.kind = "com" THEN ErrorResult
            ELSE Result(BoolOutcome(Hits(node.feature, fs) # {}),
                        LeafLocations(node.feature, fs, short), <<>>)

Evaluate(node, fs, short) ==
    BottomUp(LAMBDA n, found : EvaluateStep(n, found, fs, short), node)

-----------------------------------------------------------------------------
(* index_rule_matches: the features a matching rule publishes.             *)

MatchFeature(name) == [kind |-> "match", value |-> name]

\* rule_namespaces: a namespace and its ancestors.  Names are the sequences
\* of their '/'-separated parts; NoNamespace is None.
NoNamespace == <<>>
RuleNamespaces(namespace) == [i \in 1 .. Len(namespace) |->
                                 SubSeq(namespace, 1, Len(namespace) + 1 - i)]

IndexRuleMatches(fs, rule, locs) ==
    FoldLeft(LAMBDA acc, name : InsertMany(acc, MatchFeature(name), locs),
             fs, <<rule.name>> \o RuleNamespaces(rule.namespace))
=============================================================================
